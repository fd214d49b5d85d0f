---------------------------- MODULE StableCounts ----------------------------
(***************************************************************************)
(* Class StableCounts of edge/rpi_tray/single_common.py: the count of one  *)
(* product on one tray, smoothed over a window of camera frames.  A window *)
(* is the sequence of the counts the last frames showed, oldest first.     *)
(***************************************************************************)
EXTENDS Integers, Sequences, FiniteSets

CONSTANTS
    WindowSize,  \* stable_frames
    MaxCount     \* bound on a count (the slots of a tray)

Windows == UNION {[1..n -> 0..MaxCount] : n \in 1..WindowSize}

Frames(window, value) == {n \in DOMAIN window : window[n] = value}

(* The values no other value outnumbers. *)
Modes(window) ==
    {window[n] : n \in {n \in DOMAIN window :
        \A k \in DOMAIN window :
            Cardinality(Frames(window, window[k])) <= Cardinality(Frames(window, window[n]))}}

OldestMode(window) ==  \* mutant: a tie goes to the older value
    window[CHOOSE n \in DOMAIN window :
              /\ window[n] \in Modes(window)
              /\ \A k \in 1..(n - 1) : window[k] \notin Modes(window)]

(* The reading: of the most frequent values, the one seen last. *)
Reading(window) ==
    window[CHOOSE n \in DOMAIN window :
              /\ window[n] \in Modes(window)
              /\ \A k \in (n + 1)..Len(window) : window[k] \notin Modes(window)]

(* The frames since the count last changed. *)
Latest(window) ==
    {n \in DOMAIN window : \A k \in n..Len(window) : window[k] = window[Len(window)]}

(* Whatever the frames before showed, misread ones included, the reading   *)
(* is a given count once that count fills half of the window.              *)
Follows ==
    [value \in 0..MaxCount |->
        \A window \in Windows :
            window[Len(window)] = value /\ 2 * Cardinality(Latest(window)) >= Len(window)
                => Reading(window) = value]
=============================================================================

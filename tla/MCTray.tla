------------------------------- MODULE MCTray -------------------------------
(* An instance of TrayAudioSession for TLC: two products.  A payment is of *)
(* what was placed or empty; the tray goes by a wrong one when the push is *)
(* lost and the payment before is still to be judged.  The windows have up *)
(* to six frames, so that ties occur.                                      *)
EXTENDS TrayAudioSession

OtherPayments == {Zero}
=============================================================================

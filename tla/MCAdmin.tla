------------------------------ MODULE MCAdmin ------------------------------
(* A king and two citizens; the pauses are as long as the timeouts allow. *)
EXTENDS AdminProtocol
=============================================================================

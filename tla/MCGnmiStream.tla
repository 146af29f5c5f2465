--------------------------- MODULE MCGnmiStream ---------------------------
(* Values for the constants of GnmiStream that a .cfg cannot express. *)
EXTENDS GnmiStream

NoHandlerCalls == {}
SuccessCalls   == {"success"} \X Function
AllCalls       == Handler \X Function

=============================================================================

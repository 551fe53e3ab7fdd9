----------------------------- MODULE PresenceMC -----------------------------
(***************************************************************************)
(* Model checking of module Presence.                                      *)
(***************************************************************************)
EXTENDS Presence

BothTransports == {"mqtt", "io"}

=============================================================================

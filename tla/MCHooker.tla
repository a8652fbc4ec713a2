----------------------------- MODULE MCHooker -----------------------------
(***************************************************************************)
(* An instance of Hooker: three connections, the first of which hashes to  *)
(* entry 0, the daemon's, and the other two to one entry.                  *)
(***************************************************************************)
EXTENDS Hooker

HashOf == <<0, 1, 1>>
CookieOf == <<1, 2, 3>>
=============================================================================

-------------------------------- MODULE MCHub --------------------------------
(* What the wire specification says of the hub and the code does not do: the  *)
(* claim is refuted by a run.                                                  *)
EXTENDS Hub

\* specs/WIRE.md:378-380: "If a currently-connected peer is no longer
\* authorized, the hub MUST disconnect that peer."  A slot whose key is off the
\* list does not stay, even if no other file ever changes.
RevokedIsDropped == \A c \in Conn : Unlisted(c) ~> ~Unlisted(c)
=============================================================================

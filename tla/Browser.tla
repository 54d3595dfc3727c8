------------------------------ MODULE Browser -------------------------------
(***************************************************************************)
(* One browser with several tabs open on the site.  Tabs share             *)
(* localStorage and nothing else, and no lock on it: a handler runs        *)
(* without being interrupted by its own tab up to its next await, and      *)
(* other tabs run beside it.                                               *)
(***************************************************************************)
EXTENDS ProtocolBase

CONSTANT Tabs   \* tabs of one browser
=============================================================================

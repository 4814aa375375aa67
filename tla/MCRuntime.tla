------------------------------ MODULE MCRuntime ------------------------------
(***************************************************************************)
(* An instance of Runtime for TLC.  The default binding has the factory    *)
(* fd, another binding the factories fs and gs, of which one at a time can *)
(* be registered.  proxyD and proxyS need the libraries of fd and fs;      *)
(* proxyL has none, but is linked with fd; the stub stubS is in the        *)
(* library of fs, and linked with gs.                                      *)
(***************************************************************************)
EXTENDS Runtime, TLC

CONSTANTS t1, t2, fd, fs, gs, proxyD, proxyS, proxyL, stubS

MCBindingOf == (fd :> 1) @@ (fs :> 2) @@ (gs :> 2)
MCLibraryOf == (proxyD :> "libD") @@ (proxyS :> "libS") @@ (proxyL :> "none") @@ (stubS :> "libS")
MCFactoryOf == ("libD" :> fd) @@ ("libS" :> fs) @@ ("none" :> fd)
MCLinked == {<<fd, proxyL>>, <<gs, stubS>>}
==============================================================================

---------------------------- MODULE MCInterfaces ----------------------------
(* Small instances of the interfaces, in one run: one user and two codes;   *)
(* one system command, two custom ones and an editor; two system commands   *)
(* with two refreshes of their menus; two challenges and one session; two   *)
(* subscribers of each stream; two editors of the message library.          *)
EXTENDS Interfaces
=============================================================================

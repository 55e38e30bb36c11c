---------------------------- MODULE MCStatefulSet ----------------------------
(* Small instances of StatefulSetController for TLC. *)
EXTENDS StatefulSetController
=============================================================================

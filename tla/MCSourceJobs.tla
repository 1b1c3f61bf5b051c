---------------------------- MODULE MCSourceJobs ----------------------------
(* Source schedules on small instances: what the rules read, and what is     *)
(* written to the files of their folder.                                     *)
EXTENDS SourceJobs

Folders == <<{1, 2}>>
Lines == <<2, 1>>
Kinds == <<Kind, {"message"}>>
=============================================================================

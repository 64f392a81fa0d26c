----------------------------- MODULE MC_Scaffold -----------------------------
(* Scaffold with names that meet the files of the auth and sample plans. *)
EXTENDS Scaffold, TLC

MCProjects == {{}, {"auth", "i18n"}, {"sample", "team", "queue", "realtime"}}
=============================================================================

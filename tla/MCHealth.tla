------------------------------ MODULE MCHealth ------------------------------
(***************************************************************************)
(* One listener whose stages may overlap, with and without capture         *)
(* recovery; or two processes, with one stage at a time and without.       *)
(***************************************************************************)
EXTENDS HealthFile

MCNext == Next /\ (starts < MaxStarts \/ (Len(stages) < MaxStages /\ ~handshake))'
MCSpec == Init /\ [][MCNext]_vars
=============================================================================

------------------------------- MODULE MCServer -------------------------------
(* Instances for TLC of parts of the server that share no state: saved     *)
(* reports, sessions, and the tool that backs up and restores what the     *)
(* server has stored. A behaviour is one of the part `part` names; the     *)
(* others rest in their initial states.                                    *)
EXTENDS Reports, Sessions, BackupRestore, TLC

VARIABLE part

serverVars == <<part, reportsVars, sessionsVars, vars>>

ServerInit ==
    /\ part \in {"reports", "sessions", "backup"}
    /\ ReportsInit /\ SessionsInit /\ Init

ServerNext ==
    /\ UNCHANGED part
    /\ \/ part = "reports" /\ ReportsNext /\ UNCHANGED <<sessionsVars, vars>>
       \/ part = "sessions" /\ SessionsNext /\ UNCHANGED <<reportsVars, vars>>
       \/ part = "backup" /\ Next /\ UNCHANGED <<reportsVars, sessionsVars>>

ServerSpec == ServerInit /\ [][ServerNext]_serverVars

(* The inductive invariants of the parts: the stores, the threads of       *)
(* requests, the tokens and the archives keep their types, what is under   *)
(* way concerns reports and items that exist, and what a loop of the tool  *)
(* has read or written so far agrees with what it reads or writes from.    *)
ServerInv ==
    /\ part = "reports" => ReportsInv
    /\ part = "sessions" => SessionsInv
    /\ part = "backup" => BackupInv

(* Bounds of the model: one thread at a time loads a report, and the       *)
(* server is not started again after a restore.                            *)
OneLoads ==
    \A c, d \in Threads :
        c # d => ~({reportPc[c], reportPc[d]} \subseteq {"open", "load"})
RestoredOnce == serving => old = Empty

ServerBounded == OneLoads /\ RestoredOnce

(* The items of a backup are interchangeable. *)
ItemSymmetry == Permutations(Items)
=============================================================================

---- MODULE MCServices ----
(***************************************************************************)
(* What the gateway runs beside its turns: the logins to Google and Codex,  *)
(* the heartbeat scheduler, the files of the prompt and the dispatcher.      *)
(* They share no state, so a behaviour is of one of them, and the others     *)
(* stay as they are.                                                         *)
(***************************************************************************)
EXTENDS GoogleOAuth, CodexOAuth, Scheduler, PromptFiles, Dispatcher, TLC

CONSTANT FewLogins   \* bound: logins where the tokens are modelled, too

VARIABLE which

allVars == <<which, login, google, codex, beats, files, calls>>

Init == /\ which \in {"login", "google", "codex", "beats", "files", "calls"}
        /\ GoogleInit /\ CodexInit /\ BeatsInit /\ FilesInit /\ CallsInit
        /\ which # "files" => soulFile = NoFile /\ \A s \in Skills : skillFile[s] = NoFile

Few == logins' <= FewLogins

Next == /\ \/ which = "login" /\ LoginNext /\ UNCHANGED <<google, codex, beats, files, calls>>
           \/ which = "google" /\ GoogleNext /\ Few /\ UNCHANGED <<codex, beats, files, calls>>
           \/ which = "codex" /\ CodexNext /\ Few /\ UNCHANGED <<google, beats, files, calls>>
           \/ which = "beats" /\ BeatsNext /\ UNCHANGED <<login, google, codex, files, calls>>
           \/ which = "files" /\ FilesNext /\ UNCHANGED <<login, google, codex, beats, calls>>
           \/ which = "calls" /\ CallsNext /\ UNCHANGED <<login, google, codex, beats, files>>
        /\ UNCHANGED which

Spec == Init /\ [][Next]_allVars

(* Only the scheduler promises something that takes fairness *)
FairSpec == Spec /\ Fairness

(* The state of each part has its type *)
TypeOK == LoginTypeOK /\ GoogleTypeOK /\ CodexTypeOK /\ SchedulerTypeOK /\ PromptTypeOK /\ DispatcherTypeOK
====

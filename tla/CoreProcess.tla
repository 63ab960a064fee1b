---------------------------- MODULE CoreProcess ----------------------------
(***************************************************************************)
(* The GUI's control of the server core (src/lib/gui/core/CoreProcess.cpp, *)
(* desktop mode), as operators on a record: the states they set, the       *)
(* process, its timers and its IPC client.  The signals that the states    *)
(* emit are the caller's (module DeskflowHidExtension).                    *)
(*                                                                         *)
(* A graceful stop and a terminated one both end when the process exits;   *)
(* the fallback of the first only asks again.                              *)
(***************************************************************************)
EXTENDS Naturals

\* Starting is left before start() returns.
ProcessStates == {"Stopped", "Started", "Stopping", "RetryPending"}

\* restart is the handler that a restart connects to the process's exit.
NewCore == [state |-> "Stopped", connection |-> "Disconnected", running |-> FALSE,
            restart |-> FALSE, retry |-> FALSE, checking |-> FALSE, ipc |-> "none"]

IsStarted(core) == core.state = "Started"

\* A process of before is disconnected and deleted, which kills it.  Its IPC
\* client stays, with what it still had to say.
Start(core, fails) ==
  IF core.state = "Started" THEN core
  ELSE [core EXCEPT !.state = IF fails THEN "Stopped" ELSE "Started",
                    !.connection = "Connecting", !.running = ~fails, !.restart = FALSE,
                    !.ipc = IF @ = "none" THEN @ ELSE "closed"]

\* Nothing waits for a process that has already exited.
Stop(core) ==
  [core EXCEPT !.state = IF @ = "Stopped" THEN @ ELSE "Stopping",
               !.connection = "Disconnected"]

Restart(core, fails) ==
  IF core.running THEN [Stop(core) EXCEPT !.restart = TRUE]
  ELSE Start(Stop(core), fails)

\* onProcessFinished, and the restart that waited for it.
OnProcessFinished(core, code, fails) ==
  LET again == code = "success" /\ core.state = "Started"
      ended == [core EXCEPT !.state = IF again THEN "RetryPending" ELSE "Stopped",
                            !.connection = "Disconnected", !.running = FALSE,
                            !.retry = again, !.restart = FALSE,
                            !.checking = @ \/ code = "duplicate",
                            !.ipc = IF @ = "none" THEN @ ELSE "closed"]
  IN IF core.restart THEN Start(ended, fails) ELSE ended

RetryTimeout(core, fails) ==
  LET fired == [core EXCEPT !.retry = FALSE]
  IN IF core.state = "RetryPending" THEN Start(fired, fails) ELSE fired

\* checkExistingProcess: the core that was there has stopped, or stays.
ExistingStopped(core) ==
  [core EXCEPT !.checking = FALSE, !.state = "RetryPending", !.retry = TRUE]
ExistingStays(core) == [core EXCEPT !.checking = FALSE]

\* The IPC client of a core that was started, and of one that went.
ConnectIpc(core) == [core EXCEPT !.ipc = "connected"]
ShutDownIpc(core) == [core EXCEPT !.ipc = "none"]
=============================================================================

----------------------------- MODULE RunContext -----------------------------
(***************************************************************************)
(* The context given to Run (runner.go) and to NewFileWatcher              *)
(* (watchers/filewatcher.go). Everything that runs beside the bots ends    *)
(* with it: the scheduler and the watcher of configuration files.          *)
(***************************************************************************)
VARIABLE ctxDone   \* whether the context is canceled
=============================================================================

---------------------------- MODULE RedBoxProcess ----------------------------
(***************************************************************************)
(* The life of the red-box process: it listens on its unix socket,         *)
(* serves, and stops on a signal when the calls it serves have ended.  The *)
(* socket is a file, which only a closed listener removes.  systemd        *)
(* starts the process again whenever it is down.                           *)
(***************************************************************************)
VARIABLES
    box,       \* "down", "listening", "serving" or "stopping"
    stopped,   \* GracefulStop was called
    sock       \* the socket file exists

boxVars == <<box, stopped, sock>>

BoxTypeOK ==
    /\ box \in {"down", "listening", "serving", "stopping"}
    /\ stopped \in BOOLEAN
    /\ sock \in BOOLEAN

BoxInit == box = "down" /\ stopped = FALSE /\ sock = FALSE

(* A start that finds the socket there dies at once, and is tried again.   *)
Listen ==
    /\ box = "down"
    /\ ~sock
    /\ box' = "listening"
    /\ stopped' = FALSE
    /\ sock' = TRUE

ServeStopped ==                   \* faulty: Serve hangs after GracefulStop
    /\ box = "listening"
    /\ ~stopped
    /\ box' = "serving"
    /\ UNCHANGED <<stopped, sock>>

(* A server that was stopped before closes the listener and returns an     *)
(* error, which is fatal.                                                  *)
Serve ==
    /\ box = "listening"
    /\ IF stopped THEN box' = "down" /\ sock' = FALSE
                  ELSE box' = "serving" /\ UNCHANGED sock
    /\ UNCHANGED stopped

(* The goroutine that waits for the first signal runs beside Serve.  The   *)
(* listener is closed, calls that run go on.                               *)
GracefulStop ==
    /\ box \in {"listening", "serving"}
    /\ ~stopped
    /\ stopped' = TRUE
    /\ IF box = "serving" THEN box' = "stopping" /\ sock' = FALSE
                          ELSE UNCHANGED <<box, sock>>

(* Serve and main return.                                                  *)
Exit ==
    /\ box = "stopping"
    /\ box' = "down"
    /\ UNCHANGED <<stopped, sock>>

(* SIGKILL, a signal that is not caught yet, missing Slurm binaries, or a  *)
(* fatal error of a handler: the socket stays.                             *)
Die ==
    /\ box # "down"
    /\ box' = "down"
    /\ UNCHANGED <<stopped, sock>>

(* Somebody removes the socket file that a dead process left.              *)
RemoveSocket ==
    /\ box = "down"
    /\ sock
    /\ sock' = FALSE
    /\ UNCHANGED <<box, stopped>>
=============================================================================

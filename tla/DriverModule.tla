---------------------------- MODULE DriverModule ----------------------------
(***************************************************************************)
(* Loading and unloading a driver, while other processes open and close    *)
(* its devices.                                                            *)
(*                                                                         *)
(* insmod runs the init function, any step of which may fail; rmmod, which *)
(* the kernel refuses while a file of the driver is open, runs the exit    *)
(* function.  The drivers that set .owner = THIS_MODULE in their file and  *)
(* char device structures have the kernel hold the module for each file.   *)
(***************************************************************************)
EXTENDS DriverTables, FiniteSets

CONSTANTS
  Drivers,    (* the drivers to load, of DOMAIN InitOf                     *)
  Users,      (* processes that open the devices                           *)
  FreedReads  (* what a pointer read back from freed memory, and passed to *)
              (* PTR_ERR, may give: "error" if nothing has overwritten it, *)
              (* "zero" if kfree clears memory (init_on_free)              *)

ASSUME ModuleAssumption ==
  /\ Drivers \subseteq DOMAIN InitOf
  /\ FreedReads \subseteq {"error", "zero"} /\ FreedReads # {}

VARIABLES
  driver,  (* the driver the module is of                                  *)
  module,  (* "unloaded", "coming", "live" or "going"                      *)
  step,    (* the step of init that is next, 0 outside of it               *)
  failed,  (* the step of init that has failed, or 0                       *)
  todo,    (* what the error path or exit has still to release             *)
  held,    (* the resources that are acquired                              *)
  file,    (* the device each process has open, or NoFile                  *)
  early    (* history: processes that have opened theirs while init had    *)
           (* steps left to do                                             *)

fileVars   == <<file, early>>
moduleVars == <<driver, module, step, failed, todo, held, fileVars>>

NoFile  == -1
Steps   == InitOf[driver].steps
Devices == {r[2] : r \in ToSet(Steps)}

\* Faulty: no .owner.
Pinned_Not == FALSE

\* .owner = THIS_MODULE: an open file pins the module.
Pinned == driver \notin Unowned /\ \E u \in Users : file[u] # NoFile

-----------------------------------------------------------------------------
Insmod ==
  /\ module = "unloaded"
  /\ module' = "coming"
  /\ step' = 1
  /\ UNCHANGED <<driver, failed, todo, held, fileVars>>

InitStep ==
  /\ module = "coming" /\ failed = 0
  /\ step <= Len(Steps)
  /\ held' = held \cup {Steps[step]}
  /\ step' = step + 1
  /\ UNCHANGED <<driver, module, failed, todo, fileVars>>

InitStepFails ==
  /\ module = "coming" /\ failed = 0
  /\ step <= Len(Steps)
  /\ failed' = step
  /\ todo' = InitOf[driver].unwind[step]
  /\ UNCHANGED <<driver, module, step, held, fileVars>>

\* One call of the error path or of exit.
Release ==
  /\ todo # <<>>
  /\ held' = held \ {Head(todo)}
  /\ todo' = Tail(todo)
  /\ UNCHANGED <<driver, module, step, failed, fileVars>>

\* Faulty: init returns 0 from its error paths.
ErrorCodes_Swallowed == {"zero"}

\* What init returns once a step has failed.
ErrorCodes ==
  IF failed \in InitOf[driver].freed THEN FreedReads ELSE {"error"}

\* init returns: do_init_module keeps the module unless the result is < 0.
InitReturns ==
  /\ module = "coming" /\ todo = <<>>
  /\ \/ failed = 0 /\ step > Len(Steps) /\ module' = "live"
     \/ /\ failed # 0
        /\ \E code \in ErrorCodes :
             module' = IF code = "error" THEN "unloaded" ELSE "live"
  /\ step' = 0 /\ failed' = 0
  /\ UNCHANGED <<driver, todo, held, fileVars>>

Rmmod ==
  /\ module = "live"
  /\ ~Pinned
  /\ module' = "going"
  /\ todo' = ExitOf[driver]
  /\ UNCHANGED <<driver, step, failed, held, fileVars>>

ExitReturns ==
  /\ module = "going" /\ todo = <<>>
  /\ module' = "unloaded"
  /\ UNCHANGED <<driver, step, failed, todo, held, fileVars>>

Initialising == module = "coming" /\ step <= Len(Steps)

\* Faulty: open takes the number of the next device.
Open_Next(u) ==
  /\ file[u] = NoFile
  /\ module \in {"coming", "live"}
  /\ \E i \in Devices :
       /\ <<GateOf(driver), i>> \in held
       /\ file' = [file EXCEPT ![u] = i + 1]
  /\ early' = IF Initialising THEN early \cup {u} ELSE early
  /\ UNCHANGED <<driver, module, step, failed, todo, held>>

\* open: the device is found and the module, if not on its way out, is held.
Open(u) ==
  /\ file[u] = NoFile
  /\ module \in {"coming", "live"}
  /\ \E i \in Devices :
       /\ <<GateOf(driver), i>> \in held
       /\ file' = [file EXCEPT ![u] = i]
  /\ early' = IF Initialising THEN early \cup {u} ELSE early
  /\ UNCHANGED <<driver, module, step, failed, todo, held>>

Close(u) ==
  /\ file[u] # NoFile
  /\ file' = [file EXCEPT ![u] = NoFile]
  /\ early' = early \ {u}
  /\ UNCHANGED <<driver, module, step, failed, todo, held>>

Init ==
  /\ driver \in Drivers
  /\ module = "unloaded"
  /\ step = 0 /\ failed = 0
  /\ todo = <<>>
  /\ held = {}
  /\ file = [u \in Users |-> NoFile]
  /\ early = {}

Next ==
  \/ Insmod \/ InitStep \/ InitStepFails \/ Release \/ InitReturns
  \/ Rmmod \/ ExitReturns
  \/ \E u \in Users : Open(u) \/ Close(u)

Spec == Init /\ [][Next]_moduleVars

-----------------------------------------------------------------------------
(* Properties                                                              *)

\* The type invariant.
TypeOK ==
  /\ module \in {"unloaded", "coming", "live", "going"}
  /\ step \in 0..Len(Steps) + 1
  /\ failed \in 0..Len(Steps)
  /\ held \subseteq ToSet(Steps)
  /\ ToSet(todo) \subseteq ToSet(Steps)
  /\ file \in [Users -> Devices \cup {NoFile}]
  /\ early \subseteq Users

\* Wherever init fails, and after exit, nothing stays acquired.
NoLeak == module = "unloaded" => held = {}

\* The error paths and exit release only what is acquired, and only once.
ReleasedOnce == todo # <<>> => Head(todo) \in held

\* "Cleanup must be in reverse order of initialization": no resource is
\* released while another one built on it is there.
NeedsHeld ==
  \A r \in held, n \in Needs :
    r[1] = n[1] /\ Base(n[2], r[2]) \in ToSet(Steps) => Base(n[2], r[2]) \in held

\* "Module active in kernel / Can handle requests": a module that is live,
\* its init function having returned success, has everything init acquires.
LiveComplete == module = "live" => held = ToSet(Steps)

\* A handler that runs on an open file finds the device it was opened on,
\* unless it was opened before init had all devices: 05 makes the node of a
\* device that it frees again when a later one fails.
OpenFilesSafe ==
  \A u \in Users \ early :
    file[u] # NoFile =>
      \A kind \in {"dev", "buffer", "data"} :
        <<kind, file[u]>> \in ToSet(Steps) => <<kind, file[u]>> \in held
=============================================================================

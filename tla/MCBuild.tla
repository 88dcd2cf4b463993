------------------------------- MODULE MCBuild -------------------------------
(***************************************************************************)
(* The programs of a build: nova build, publishing its output, the         *)
(* launcher NTBUILD, running a job, and the UEFI probe, running what was   *)
(* built.  A run is a run of one of them; no build of nova gets anywhere   *)
(* before the launcher or the probe starts.                                *)
(*                                                                         *)
(* Three runs of nova build with one pid (each started after another was   *)
(* killed, or in another pid namespace on a shared directory), one more    *)
(* than there are temporary names.  Runs with different pids have disjoint *)
(* names: what they share is the destination, as these do.                 *)
(*                                                                         *)
(* The launcher with files a few bytes long: short enough to slice a read  *)
(* in every way, long enough for a short, an exact and an overlong file.   *)
(*                                                                         *)
(* The probe with a child that has one buffer and one stream at a time: it *)
(* can leave both behind, in every state of the platform; two refusals,    *)
(* for one that hides behind another.                                      *)
(***************************************************************************)
EXTENDS Publish, TLC

CONSTANTS
    Limit, JOB_LENGTH, CAPACITY,  \* of NtBuild
    Buffers, Streams, REFUSALS,   \* of UefiProbe
    r1, r2, r3

SharedPid == (r1 :> 7) @@ (r2 :> 7) @@ (r3 :> 7)
SmallLimit == [job |-> 2, source |-> 2, core |-> 1, host |-> 1]

VARIABLES machine, call, code, file, size, pos, root, pool, child, ran, childStatus, cleanup,
          buffer, image, device, exit, held, misuse, executed, accepted,
          label, platform, objects, oracle, loaded, context, buffers, streams, stopped, answer,
          failure, verdict

launcherVars == <<call, code, file, size, pos, root, pool, child, ran, childStatus, cleanup,
                  buffer, image, device, exit, held, misuse, executed, accepted>>

probeVars == <<label, platform, objects, oracle, loaded, context, buffers, streams, stopped,
               answer, failure, verdict>>

MCVars == <<machine, launcherVars, probeVars, vars>>

Launcher == INSTANCE NtBuild WITH pc <- call
Probe ==
    INSTANCE UefiProbe WITH pc <- label, image <- loaded, code <- failure, exit <- verdict

ASSUME LauncherAssumption == Launcher!LimitAssumption
ASSUME ProbeAssumption == Probe!NamesAssumption

Abandons(p) == machine # "nova" /\ Killed(p) /\ UNCHANGED <<machine, launcherVars, probeVars>>
Launches ==
    machine = "launcher" /\ Finished /\ Launcher!Step /\ UNCHANGED <<machine, probeVars, vars>>
Probes == machine = "probe" /\ Finished /\ Probe!Step /\ UNCHANGED <<machine, launcherVars, vars>>
Publishes(p) ==
    machine = "nova" /\ Publishing(p) /\ UNCHANGED <<machine, launcherVars, probeVars>>

MCInit == machine \in {"nova", "launcher", "probe"} /\ Init /\ Launcher!Init /\ Probe!Init
MCNext ==
    \/ Launches
    \/ Probes
    \/ \E p \in Procs : \/ Publishes(p) \/ Abandons(p)
                        \/ machine = "nova" /\ Killed(p) /\ UNCHANGED <<machine, launcherVars, probeVars>>
    \/ Finished /\ (machine = "nova" \/ Launcher!Done \/ Probe!Done) /\ UNCHANGED MCVars
MCSpec ==
    /\ MCInit /\ [][MCNext]_MCVars
    /\ WF_MCVars(Launches) /\ \A p \in Procs : WF_MCVars(Publishes(p)) /\ WF_MCVars(Abandons(p))

-----------------------------------------------------------------------------

(* ReleasedOnce, OnlyVerifiedBytesRun and ResultFaithful of NtBuild: what  *)
(* the launcher acquired it releases once, the child's code runs only from *)
(* bytes that were checked, and the status returned is the child's.        *)
ReleasedOnce == Launcher!ReleasedOnce
OnlyVerifiedBytesRun == Launcher!OnlyVerifiedBytesRun
ResultFaithful == Launcher!ResultFaithful

(* Accounted of UefiProbe: the probe gives back what it took, its verdict  *)
(* is 0 only for the expected answer with nothing refused, and OK is       *)
(* returned only when all is back, whatever line of the report is refused. *)
Accounted == Probe!Accounted

(* The launcher always returns: no answer of the file system, however it   *)
(* slices the reads, keeps it in the read loop.                            *)
Terminates == machine = "launcher" => <>(call = "done")
=============================================================================

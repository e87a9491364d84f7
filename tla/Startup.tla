------------------------------- MODULE Startup -------------------------------
(***************************************************************************)
(* main (zhy_nginx.cpp), as far as it is about the configuration and the    *)
(* process title (zhy_setproctitle.cpp): the strings of argv and of environ *)
(* lie one behind the other in one area of the stack; main measures them,   *)
(* moves those of environ to the heap, and a title is then written over     *)
(* the area, which ps shows.                                                *)
(*                                                                         *)
(* A string is its length.  Titles are set by zhy_master_process_cycle and  *)
(* by the workers, whose start main leaves out in this commit.              *)
(***************************************************************************)
EXTENDS Config

CONSTANTS
    Arguments,      \* the sequences of strings argv may be
    Environments,   \* those environ may be
    ExecName,       \* the length of the string behind environ: the name of the program
    MasterTitle,    \* the lengths of the two titles
    WorkerTitle,
    TitleSize,      \* sizeof(title) in zhy_master_process_cycle
    LogName         \* "Log"

ASSUME StartupAssumption ==
    /\ \A a \in Arguments : a \in Seq(Nat) /\ Len(a) > 0
    /\ \A e \in Environments : e \in Seq(Nat)
    /\ ExecName \in Nat /\ MasterTitle \in Nat /\ WorkerTitle \in Nat
    /\ TitleSize \in Nat

VARIABLES
    main,           \* "load", "running", "exit" or "fault"
    argv, env,      \* the strings in the area
    environ,        \* where environ[i] points to: "area" or "heap"
    gp_envmem,      \* the copy: "none", "live" or "deleted"
    written         \* how many bytes of the area, from its first on, were written over

strings == <<argv, env>>
vars == <<loading, main, strings, environ, gp_envmem, written>>

\* The bytes of strings with their ends, one behind the other.
Bytes(s) == FoldLeft(LAMBDA sum, len : sum + len + 1, 0, s)

\* The sum of strlen(argv[i] + 1): one less than each length; for an empty string it is the
\* length of the string behind it.
g_argvneedmem ==
    LET behind == argv \o env \o <<ExecName>>
        need == [i \in DOMAIN argv |-> IF argv[i] > 0 THEN argv[i] - 1 ELSE behind[i + 1]]
    IN  FoldLeft(LAMBDA sum, n : sum + n, 0, need)

g_envneedmem == Bytes(env)

Init ==
    /\ InitConfig
    /\ main = "load"
    /\ argv \in Arguments /\ env \in Environments
    /\ environ = [i \in DOMAIN env |-> "area"]
    /\ gp_envmem = "none" /\ written = 0

LoadStep ==
    /\ main = "load" /\ Load
    /\ UNCHANGED <<main, strings, environ, gp_envmem, written>>

\* zhy_log_init without a log file in the configuration gives NULL to open, and to the %s
\* of its report.
LogInitFaults ==
    /\ main = "load" /\ load \in {"true", "false"}
    /\ GetString(LogName) = NULL
    /\ main' = "fault"
    /\ UNCHANGED <<loading, strings, environ, gp_envmem, written>>

\* A mutant of zhy_init_setproctitle: environ goes on pointing to the old strings.
zhy_init_setproctitleKeeps ==
    /\ main = "load" /\ load = "true"
    /\ GetString(LogName) # NULL
    /\ main' = "running"
    /\ gp_envmem' = "live"
    /\ UNCHANGED <<loading, strings, environ, written>>

\* After zhy_log_init.
zhy_init_setproctitle ==
    /\ main = "load" /\ load = "true"
    /\ GetString(LogName) # NULL
    /\ main' = "running"
    /\ gp_envmem' = "live"
    /\ environ' = [i \in DOMAIN env |-> "heap"]
    /\ UNCHANGED <<loading, strings, written>>

\* A title that is as long as what was measured, or longer, is refused.  The rest of what
\* was measured is filled with zeros.
zhy_setproctitle(len) ==
    /\ g_argvneedmem + g_envneedmem > len
    /\ written' = g_argvneedmem + g_envneedmem
    /\ UNCHANGED <<loading, main, strings, environ, gp_envmem>>

\* The master leaves its title alone when its arguments are long; a worker, in its copy of
\* the memory, does not.
SetTitle ==
    /\ main = "running"
    /\ \/ MasterTitle + 1 + g_argvneedmem < TitleSize /\ zhy_setproctitle(MasterTitle)
       \/ zhy_setproctitle(WorkerTitle)

free_resource ==
    /\ main = "running"
    /\ main' = "exit"
    /\ gp_envmem' = "deleted"
    /\ UNCHANGED <<loading, strings, environ, written>>

Next == LoadStep \/ LogInitFaults \/ zhy_init_setproctitle \/ SetTitle \/ free_resource

\* Load runs on.
Spec == Init /\ [][Next]_vars /\ WF_vars(LoadStep)

-----------------------------------------------------------------------------
(* Properties.                                                             *)

AreaSize == Bytes(argv) + Bytes(env)
PlaceOf(i) == Bytes(argv) + Bytes(SubSeq(env, 1, i - 1))

\* As long as the process runs its environment reads as before, whatever titles are set:
\* they are written over the old strings only, and the copy is not given back earlier.
\* Nothing behind the area is written to, unless an argument is empty: strlen(argv[i] + 1)
\* then measures the string behind it, which may make the area look longer than it is.
TitleSparesMemory ==
    /\ main = "running" =>
          \A i \in DOMAIN env :
             IF environ[i] = "heap" THEN gp_envmem = "live" ELSE written <= PlaceOf(i)
    /\ (\A i \in DOMAIN argv : argv[i] > 0) => written <= AreaSize
=============================================================================

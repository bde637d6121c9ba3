----------------------------- MODULE PluginRun -----------------------------
(***************************************************************************)
(* One run of one plugin of those that keep nothing from run to run.  The  *)
(* modules of the plugins say what each asks for and what it makes of the  *)
(* answers; here the answers come one at a time from a system that others  *)
(* change between them, and the alarm may end the run while it waits.      *)
(***************************************************************************)
EXTENDS PluginStep

CONSTANTS
    Plugins,            \* the plugins of the instance
    Options(_),         \* Options(p): the options p can be called with
    Worlds(_),          \* Worlds(p): the states of the system p can meet
    Changes(_, _),      \* Changes(p, w): what others can make of w in one step
    Answer(_, _, _, _), \* Answer(p, o, w, request)
    Effect(_, _, _, _), \* Effect(p, o, w, request): what the request makes of w
    Step(_, _, _, _),   \* Step(p, o, seen, w): ask on, or exit
    Claims(_, _, _),    \* Claims(p, o, w): the things an OK tells of
    Deeds(_, _, _),     \* Deeds(p, o, w): those that are p's own doing, what it wrote
    Holds(_, _, _, _),  \* Holds(p, c, o, w): thing c is as its documentation has OK tell
    Overlooks(_, _, _, _), \* Overlooks(p, c, o, w): p is known not to see that c is not so in w
    Excuses(_, _, _),   \* Excuses(p, o, w): an alarm has a reason in w that is not about what p checks:
                        \* it cannot be asked, its words are not known, or p is known to be wrong of it
    Timeout(_),         \* the state p's alarm ends a run with, "none" without
    MaxChanges          \* bound: changes of the system during a run

ASSUME MaxChangesIsNat == MaxChanges \in Nat

VARIABLES
    plugin, options,    \* what runs, and with which options
    world,              \* the system as it is now
    past,               \* what it has been since the run began
    seen,               \* the answers so far
    status,             \* "running", or the state the run ended with
    alarm,              \* whether the alarm ended it
    changes

vars == <<plugin, options, world, past, seen, status, alarm, changes>>

Init ==
    /\ plugin \in Plugins
    /\ options \in Options(plugin)
    /\ world \in Worlds(plugin)
    /\ past = {world}
    /\ seen = <<>>
    /\ status = "running"
    /\ alarm = FALSE
    /\ changes = 0

Running == status = "running"
Now == Step(plugin, options, seen, world)

\* The plugin asks and is answered: by a command, a server or a file.  To be
\* told to wait again and again is to be told once.
Heard(answer) == IF answer = NotYet /\ IsNotYet(seen) THEN seen ELSE Append(seen, answer)
Request ==
    /\ Running
    /\ ~Exits(Now)
    /\ seen' = Heard(Answer(plugin, options, world, Now.ask))
    /\ world' = Effect(plugin, options, world, Now.ask)
    /\ past' = past \cup {world'}
    /\ UNCHANGED <<plugin, options, status, alarm, changes>>

\* Others change the system while the plugin waits or computes.
Change ==
    /\ Running
    /\ changes < MaxChanges
    /\ seen # <<>>
    /\ world' \in Changes(plugin, world)
    /\ world' # world
    /\ past' = past \cup {world'}
    /\ changes' = changes + 1
    /\ UNCHANGED <<plugin, options, seen, status, alarm>>

\* The plugin prints its state and exits.
Conclude ==
    /\ Running
    /\ Exits(Now)
    /\ status' = Now.exit
    /\ UNCHANGED <<plugin, options, world, past, seen, alarm, changes>>

\* An answer that does not come, or comes late: the alarm rings first.
TimeOut ==
    /\ Running
    /\ ~Exits(Now)
    /\ Timeout(plugin) # "none"
    /\ status' = Timeout(plugin)
    /\ alarm' = TRUE
    /\ UNCHANGED <<plugin, options, world, past, seen, changes>>

Next == Request \/ Change \/ Conclude \/ TimeOut

Spec == Init /\ [][Next]_vars

-----------------------------------------------------------------------------
(* Properties *)

TypeOK ==
    /\ plugin \in Plugins /\ options \in Options(plugin)
    /\ status \in Statuses \cup {"running"} /\ alarm \in BOOLEAN /\ changes \in 0..MaxChanges
    /\ world \in past

\* What a run that ends OK tells of was so, each thing of it at some moment of
\* the run, since the answers a verdict is put together from are of several
\* moments: no fault that lasted through the run goes unseen, but for those
\* that the plugin is known to overlook, which its module names one by one.
OkVouches ==
    status = "OK" =>
        \A c \in Claims(plugin, options, world) : \E w \in past :
            Holds(plugin, c, options, w) \/ Overlooks(plugin, c, options, w)

\* What a run that ends OK wrote was there at some moment of it, each cell, key
\* or message: it reports no write, and no way through a queue, that failed.
DeedsAreDone ==
    status = "OK" => \A c \in Deeds(plugin, options, world) : \E w \in past : Holds(plugin, c, options, w)

\* A run that ends WARNING or CRITICAL by a verdict had something to tell of:
\* at some moment of it some thing was not as an OK would have it.
AlarmsAreReal ==
    status \in {"WARNING", "CRITICAL"} /\ ~alarm /\ (\A w \in past : ~Excuses(plugin, options, w))
        => \E c \in Claims(plugin, options, world), w \in past : ~Holds(plugin, c, options, w)
=============================================================================

---------------------------- MODULE PeriodicInform ----------------------------
(***************************************************************************)
(* The thread of the periodic Inform (event.c) while the configuration is  *)
(* loaded again (config.c): the load takes no lock, and the thread is      *)
(* signalled when the settings turn out to have changed.                   *)
(***************************************************************************)
EXTENDS Integers

CONSTANTS
    Periods,        \* intervals that are configured, in seconds
    Times,          \* reference times that are configured; 0 is none
    Round,          \* the clock counts modulo Round
    MaxReloads      \* bound: loads of the configuration

ASSUME PeriodsAssumption ==
    /\ Periods \subseteq Nat \ {0} /\ Times \subseteq Nat /\ Round \in Nat \ {0}
    /\ \A p \in Periods : Round % p = 0

VARIABLES
    setting,        \* period, periodic_enable and time of the configuration
    wanted, stage,  \* those in the UCI files, and what is to be loaded next
    rootSeen,       \* the statics of cwmp_root_cause_event_periodic
    ring,           \* a signal about to be given
    pstep,          \* step of thread_event_periodic
    taken,          \* its statics
    left, clock,    \* seconds until its timeout, and the time of day
    torn,           \* history: what it uses was read during a load
    reloads         \* history: loads so far, for MaxReloads

periodicVars ==
    <<setting, wanted, stage, rootSeen, ring, pstep, taken, left, clock, torn, reloads>>

Settings == [enable : BOOLEAN, period : Periods, time : Times]
Zeroed == [enable |-> FALSE, period |-> 0, time |-> 0]
Loading == stage \in {"time", "period", "enable"}
Never == -1

-----------------------------------------------------------------------------
(* A load clears everything, then fills it in, one value after the other.  *)
cwmp_config_reload(s) ==
    /\ stage = "done" /\ ~ring /\ reloads < MaxReloads
    /\ wanted' = s /\ setting' = Zeroed /\ stage' = "time" /\ reloads' = reloads + 1
    /\ UNCHANGED <<rootSeen, ring, pstep, taken, left, clock, torn>>

get_global_config ==
    /\ Loading
    /\ setting' = [setting EXCEPT ![stage] = wanted[stage]]
    /\ stage' = CASE stage = "time" -> "period"
                  [] stage = "period" -> "enable"
                  [] stage = "enable" -> "cause"
    /\ UNCHANGED <<wanted, rootSeen, ring, pstep, taken, left, clock, torn, reloads>>

(* Mutant: the thread is only told of another period.                      *)
OtherPeriod == setting.period # rootSeen.period

Changed == setting # rootSeen

cwmp_root_cause_event_periodic ==
    /\ stage = "cause" /\ stage' = "done"
    /\ rootSeen' = setting /\ ring' = Changed
    /\ UNCHANGED <<setting, wanted, pstep, taken, left, clock, torn, reloads>>

(* The signal is lost on a thread that does not wait.                      *)
PeriodicSignal ==
    /\ ring /\ ring' = FALSE
    /\ pstep' = IF pstep = "wait" THEN "woken" ELSE pstep
    /\ UNCHANGED <<setting, wanted, stage, rootSeen, taken, left, clock, torn, reloads>>

-----------------------------------------------------------------------------
(* thread_event_periodic.  The next multiple of the interval, from the     *)
(* reference time; C's remainder of a time to come gives the same.         *)
UntilNext ==
    IF taken.time = 0 THEN taken.period
    ELSE taken.period - ((clock - taken.time) % taken.period)

(* It looks at periodic_enable itself but at its copies of the others.     *)
wait ==
    /\ pstep = "lock"
    /\ setting.enable => taken.time = 0 \/ taken.period # 0
    /\ left' = IF setting.enable THEN UntilNext ELSE Never
    /\ pstep' = "wait" /\ torn' = Loading
    /\ UNCHANGED <<setting, wanted, stage, rootSeen, ring, taken, clock, reloads>>

(* The remainder by an interval of zero ends the program.                  *)
divide ==
    /\ pstep = "lock" /\ setting.enable /\ taken.time # 0 /\ taken.period = 0
    /\ pstep' = "crashed"
    /\ UNCHANGED <<setting, wanted, stage, rootSeen, ring, taken, left, clock, torn, reloads>>

expire ==
    /\ pstep = "wait" /\ left = 0 /\ pstep' = "woken"
    /\ UNCHANGED <<setting, wanted, stage, rootSeen, ring, taken, left, clock, torn, reloads>>

compare ==
    /\ pstep = "woken"
    /\ taken' = setting /\ torn' = Loading
    /\ pstep' = IF taken # setting THEN "lock" ELSE "raise"
    /\ UNCHANGED <<setting, wanted, stage, rootSeen, ring, left, clock, reloads>>

(* The event 2 PERIODIC joins the queued session.                          *)
add_periodic ==
    /\ pstep = "raise" /\ pstep' = "lock"
    /\ UNCHANGED <<setting, wanted, stage, rootSeen, ring, taken, left, clock, torn, reloads>>

Tick ==
    /\ clock' = (clock + 1) % Round
    /\ left' = IF pstep = "wait" /\ left > 0 THEN left - 1 ELSE left
    /\ UNCHANGED <<setting, wanted, stage, rootSeen, ring, pstep, taken, torn, reloads>>

-----------------------------------------------------------------------------
PeriodicInit ==
    /\ setting \in Settings
    /\ wanted = setting /\ stage = "done" /\ rootSeen = setting /\ ring = FALSE
    /\ pstep = "lock" /\ taken = setting /\ left = Never /\ clock = 0
    /\ torn = FALSE /\ reloads = 0

PeriodicThread == wait \/ divide \/ expire \/ compare \/ add_periodic
PeriodicReload == get_global_config \/ cwmp_root_cause_event_periodic \/ PeriodicSignal

PeriodicNext ==
    PeriodicThread \/ PeriodicReload \/ Tick \/ \E s \in Settings : cwmp_config_reload(s)

(* Threads run, and time passes.                                           *)
PeriodicFairness ==
    WF_periodicVars(PeriodicThread) /\ WF_periodicVars(PeriodicReload) /\ WF_periodicVars(Tick)

PeriodicSpec == PeriodicInit /\ [][PeriodicNext]_periodicVars /\ PeriodicFairness
-----------------------------------------------------------------------------
(* Properties. *)

Settled == stage = "done" /\ setting.enable /\ ~torn
OnTime ==
    Settled /\ pstep = "wait" /\ setting.time # 0 /\ left > 0
        => (clock + left - setting.time) % setting.period = 0

(* Once the settings stay and the periodic Inform is enabled it is raised  *)
(* again and again, from some point on at the configured times, however    *)
(* the changes before met the thread - unless it read them during a load.  *)
PeriodicGoesOn == <>[]Settled => ([]<>(pstep = "raise") /\ <>[]OnTime)
=============================================================================

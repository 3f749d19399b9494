--------------------------- MODULE EventScheduler ---------------------------
(***************************************************************************)
(* src/scheduler/event_scheduler.hpp and the event statements of           *)
(* dispatch.hpp.  A step is what a thread does under mu_; the scheduler    *)
(* thread collects the due events under mu_ and runs their statements      *)
(* afterwards.  The events file is rewritten by every change, and a crash  *)
(* may leave only the first lines of it.  Time is counted in ticks.        *)
(***************************************************************************)
EXTENDS Integers, Sequences, FiniteSets, Selections

CONSTANTS Names,      \* event names
          Schedules,  \* name -> the schedules it is created with: records of Schedule
          Day,        \* ticks of a day
          MaxTime     \* bound: the last tick

Never == -1
Schedule == [recurring : BOOLEAN, interval : Nat, hasAt : BOOLEAN, at : Nat]

VARIABLES now,     \* std::time
          events,  \* events_
          file,    \* eventsFile_
          on,      \* schedulerOn_
          up,      \* the process runs
          toExec,  \* the statements collected and not yet run, by event name
          ran,     \* history: when an event was last collected since it was made or enabled,
                   \* as long as no save was lost
          lost     \* history: a save could not open the file

vars == <<now, events, file, on, up, toExec, ran, lost>>

Event == [name : Names, sched : UNION {Schedules[n] : n \in Names}, nextRun : Nat, enabled : BOOLEAN]

\* The shape of the state; a name is used once.
TypeOK ==
  /\ now \in 0..MaxTime
  /\ \A evs \in {events, file} :
       /\ evs \in Seq(Event)
       /\ \A i, j \in DOMAIN evs : evs[i].name = evs[j].name => i = j
  /\ on \in BOOLEAN /\ up \in BOOLEAN /\ lost \in BOOLEAN
  /\ toExec \in Seq(Names)
  /\ ran \in [Names -> 0..MaxTime \cup {Never}]

Init ==
  /\ now = 0 /\ events = <<>> /\ file = <<>> /\ on = TRUE /\ up = TRUE
  /\ toExec = <<>> /\ ran = [n \in Names |-> Never] /\ lost = FALSE
-----------------------------------------------------------------------------
\* The time of day s.at of today, or one interval later when it is past.
AtTime(s) ==
  LET candidate == now - (now % Day) + s.at
  IN  IF candidate <= now THEN candidate + s.interval ELSE candidate

\* calcNextRun_ and computeNextRunRecurring.
NextRun(s) == IF s.hasAt THEN AtTime(s) ELSE now + s.interval

\* saveEvents_ with the events evs: the file is rewritten, or cannot be opened (bound: once),
\* or the process crashes and leaves the first lines.  last is the history from then on.
Store(evs, exec, last) ==
  /\ \/ events' = evs /\ file' = evs /\ toExec' = exec /\ UNCHANGED <<up, lost>>
     \/ events' = evs /\ UNCHANGED <<file, up>> /\ toExec' = exec /\ ~lost /\ lost' = TRUE
     \/ /\ \E k \in 0..Len(evs) : file' = SubSeq(evs, 1, k)
        /\ events' = <<>> /\ toExec' = <<>> /\ up' = FALSE /\ UNCHANGED lost
  /\ ran' = IF lost' THEN [n \in Names |-> Never] ELSE last

Without(n) == Picked(events, {i \in DOMAIN events : events[i].name # n})
Has(n) == \E i \in DOMAIN events : events[i].name = n

\* CREATE EVENT replaces an event of that name.  A single run in the past is disabled.
CreateEvent(n, s) ==
  /\ up
  /\ LET next == IF s.recurring THEN NextRun(s) ELSE s.at
         e    == [name |-> n, sched |-> s, nextRun |-> next,
                  enabled |-> s.recurring \/ next > now]
     IN  Store(Append(Without(n), e), toExec, [ran EXCEPT ![n] = Never])
  /\ UNCHANGED <<now, on>>

\* DROP EVENT.  A statement already collected still runs.
DropEvent(n) ==
  /\ up /\ Has(n)
  /\ Store(Without(n), toExec, [ran EXCEPT ![n] = Never])
  /\ UNCHANGED <<now, on>>

\* ALTER EVENT: a single run that took place is due again when it is enabled.
SetEventEnabled(n, b) ==
  /\ up /\ Has(n)
  /\ Store([i \in DOMAIN events |->
              IF events[i].name = n THEN [events[i] EXCEPT !.enabled = b] ELSE events[i]],
           toExec,
           IF b /\ \A i \in DOMAIN events : events[i].name = n => ~events[i].sched.recurring
           THEN [ran EXCEPT ![n] = Never] ELSE ran)
  /\ UNCHANGED <<now, on>>

\* SET EVENT_SCHEDULER.
SetOn(b) ==
  /\ up /\ on' = b
  /\ UNCHANGED <<now, events, file, up, toExec, ran, lost>>
-----------------------------------------------------------------------------
Due(e) == e.enabled /\ e.nextRun <= now

\* Mutant: a single run stays enabled until its statement has run.
Fired_StaysEnabled(e) ==
  IF e.sched.recurring THEN [e EXCEPT !.nextRun = NextRun(e.sched)] ELSE e
\* What collecting an event does to it.
Fired(e) ==
  IF e.sched.recurring
  THEN [e EXCEPT !.nextRun = NextRun(e.sched)]
  ELSE [e EXCEPT !.enabled = FALSE]

\* The locked half of an iteration of run: collect what is due.
Collect ==
  LET due == {i \in DOMAIN events : Due(events[i])}
      collected == Picked(events, due)
  IN  /\ up /\ on /\ toExec = <<>> /\ due # {}
      /\ Store([i \in DOMAIN events |-> IF Due(events[i]) THEN Fired(events[i]) ELSE events[i]],
               [i \in DOMAIN collected |-> collected[i].name],
               [n \in Names |-> IF \E i \in due : events[i].name = n THEN now ELSE ran[n]])
      /\ UNCHANGED <<now, on>>

\* Mutant: an exception of the statement ends the thread.
Execute_Throws ==
  /\ up /\ toExec # <<>>
  /\ UNCHANGED vars
\* The other half: run the next statement, whatever comes of it.
Execute ==
  /\ up /\ toExec # <<>>
  /\ toExec' = Tail(toExec)
  /\ UNCHANGED <<now, events, file, on, up, ran, lost>>
-----------------------------------------------------------------------------
Tick ==
  /\ now < MaxTime /\ now' = now + 1
  /\ UNCHANGED <<events, file, on, up, toExec, ran, lost>>

\* The process dies: statements collected and not run are gone.
Crash ==
  /\ up /\ up' = FALSE
  /\ events' = <<>> /\ toExec' = <<>>
  /\ UNCHANGED <<now, file, on, ran, lost>>

\* loadEvents and start; schedulerOn_ is not saved.
Start ==
  /\ ~up /\ up' = TRUE
  /\ events' = file /\ on' = TRUE
  /\ UNCHANGED <<now, file, toExec, ran, lost>>

Next ==
  \/ \E n \in Names :
       \/ \E s \in Schedules[n] : CreateEvent(n, s)
       \/ DropEvent(n)
       \/ \E b \in BOOLEAN : SetEventEnabled(n, b)
  \/ \E b \in BOOLEAN : SetOn(b)
  \/ Collect \/ Execute \/ Tick \/ Crash \/ Start

\* The scheduler thread keeps running and the statements it runs end.
Spec == Init /\ [][Next]_vars /\ WF_vars(Collect) /\ WF_vars(Execute)
-----------------------------------------------------------------------------
\* As long as every save opens its file, an event runs no more often than its schedule
\* says, through crashes, restarts and torn files: a single run once, EVERY n no sooner
\* than n ticks after the last run, EVERY n AT no more than once at a time.
NoExtraRun ==
  [][ Collect /\ ~lost =>
        \A i \in DOMAIN events :
          LET e == events[i]
          IN  Due(e) /\ ran[e.name] # Never =>
                /\ e.sched.recurring
                /\ now >= ran[e.name] + (IF e.sched.hasAt THEN 1 ELSE e.sched.interval)
    ]_vars

\* A due event's statement is collected and what is collected runs, unless the event is
\* changed, the scheduler switched off or the process crashes.
DueIsRun ==
  /\ \A n \in Names :
       (up /\ on /\ \E i \in DOMAIN events : events[i].name = n /\ Due(events[i]))
         ~> (~up \/ ~on \/ ~\E i \in DOMAIN events : events[i].name = n /\ Due(events[i]))
  /\ toExec # <<>> ~> toExec = <<>>
=============================================================================

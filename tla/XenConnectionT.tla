-------------------------- MODULE XenConnectionT --------------------------
(***************************************************************************)
(* Proofs about XenConnection for any number of attempts, batches of        *)
(* events, members and tolerated errors.  What keeps the signals of an      *)
(* earlier attempt from harming a later one is the order of the main        *)
(* thread's queue: an attempt begins when nothing is posted.                *)
(***************************************************************************)
EXTENDS XenConnection

\* What is posted to the main thread.
Posted == {mainq[k] : k \in 1..Len(mainq)}

\* The connect thread belongs to the last attempt, which has loaded nothing before Load.
Attempt ==
  /\ thread # "none" \/ InProgress => attempts \in Gens
  /\ thread \in {"start", "login", "adopt"} => ~task.connected
  /\ thread \in {"start", "login", "adopt", "load"} => loaded < attempts
  /\ loaded <= attempts

\* No Clear is on its way while an attempt is there.
Signals ==
  \A s \in Posted : /\ s.kind = "event" => s.of # 0
                    /\ InProgress => s.kind # "clear"

\* What the last attempt has loaded is in the cache until the attempt is ended.
Loaded == InProgress /\ loaded = attempts => attempts \in cache

\* A poller that works has a session and errors to spare.
Working ==
  \A g \in Gens : pollers[g].at \in {"init", "running", "from"} =>
                    pollers[g].errors < MAX_CONSECUTIVE_ERRORS /\ pollers[g].session # 0

\* The current poller is not told to quit; that of an attempt is created by its Launch.
Current ==
  /\ poller # 0 => ~pollers[poller].quit
  /\ \A g \in Gens :
       g > attempts \/ (g = attempts /\ thread \in {"start", "login", "adopt", "load", "launch"})
         => poller # g /\ ~pollers[g].quit

\* The last session the current poller was given is that of the connection.
Serves(p) ==
  IF pollers[p].jobs = <<>> THEN pollers[p].session = attempts
  ELSE pollers[p].jobs[Len(pollers[p].jobs)] = attempts

Served ==
  task.connected /\ thread \notin {"load", "launch"} /\ poller # 0 => Serves(poller)

IInv ==
  TypeOK /\ EndedStaysEnded /\ Attempt /\ Signals /\ Loaded /\ Working /\ Current /\ Served
====

---------------------------- MODULE EventSource ----------------------------
(***************************************************************************)
(* The resident event worker reading public chain logs: createEvmLogSource *)
(* (event-adapters.ts) polls a confirmed block range behind a durable      *)
(* cursor, runEventWorker (event-worker.ts) puts what a poll returned into *)
(* the inbox (event-delivery.ts) and only then saves the cursor.  The      *)
(* chain grows and reorganises at any moment, each RPC and each database   *)
(* call is a step of its own and may fail, the process may crash, and a    *)
(* deployment stops it gracefully by raising its abort signal.  What the   *)
(* worker does with the inbox is ReportDelivery's subject.                 *)
(***************************************************************************)
EXTENDS Naturals, Sequences, FiniteSets

CONSTANTS
  Order,          \* the sources in the order the worker polls them
  Logs, Emitter,  \* the logs, and the source each one belongs to
  Confirmations,  \* blocks kept between the head and what is read
  BlockRange,     \* blocks asked for in one getLogs call
  MaxRanges,      \* getLogs calls in one poll: 5
  Depth,          \* blocks of history the cursor keeps: 128
  MaxHeight, MaxReorgs, MaxFails, MaxStops,  \* bounds of the exploration
  None

Sources == {Order[i] : i \in 1 .. Len(Order)}

VARIABLES
  chain,   \* the blocks, each with the fork it was mined on and its log
  forks,   \* reorganisations so far, and whether one reached a confirmed block
  inbox,   \* log -> the event row: absent, or canonical or retracted
  cursor,  \* source -> event_cursors.cursor: None, the empty object, or a record
  mem,     \* sourceCursors: the sources the process has loaded, and their cursors
  poll,    \* the poll in progress: the locals of poll() and of the worker's loop
  aborted, \* the abort signal
  spent    \* failures and stops so far, and the logs a stop left out

vars == <<chain, forks, inbox, cursor, mem, poll, aborted, spent>>

Block == [fork : 0 .. MaxReorgs, log : Logs \cup {None}]
Entry == [at : 1 .. MaxHeight, fork : 0 .. MaxReorgs, log : Logs]
Cursor == [next : 1 .. MaxHeight + 1, history : SUBSET Entry]
Fresh == [next |-> 1, history |-> {}]
Empty == [next |-> 0, history |-> {}]   \* {}: what a batch without a cursor saves

Idle(i) == [step |-> "idle", at |-> i, head |-> 0, left |-> MaxRanges,
            found |-> Empty, events |-> {}, gone |-> {}]
Down == [Idle(0) EXCEPT !.step = "down"]
Polled == Order[poll.at]

Init ==
  /\ chain = <<>> /\ forks = [seen |-> 0, deep |-> FALSE]
  /\ inbox = [l \in Logs |-> None]
  /\ cursor = [s \in Sources |-> None]
  /\ mem = [s \in {} |-> None] /\ poll = Idle(1) /\ aborted = FALSE
  /\ spent = [fails |-> 0, stops |-> 0, lost |-> FALSE, cut |-> {}]

----------------------------------------------------------------------------
(* The chain. *)

Mined == {chain[i].log : i \in 1 .. Len(chain)} \ {None}

Mine(l) ==
  /\ Len(chain) < MaxHeight /\ l \notin Mined
  /\ chain' = Append(chain, [fork |-> forks.seen, log |-> l])
  /\ UNCHANGED <<forks, inbox, cursor, mem, poll, aborted, spent>>

\* The last n blocks give way to n others, with any of the logs still free.
Reorg(n, new) ==
  LET kept == Len(chain) - n
  IN  /\ forks.seen < MaxReorgs /\ n \in 1 .. Len(chain)
      /\ \A i, j \in 1 .. n : new[i] = new[j] => i = j \/ new[i] = None
      /\ \A i \in 1 .. kept, j \in 1 .. n : new[j] = chain[i].log => new[j] = None
      /\ chain' = [i \in 1 .. Len(chain) |->
                     IF i <= kept THEN chain[i] ELSE [fork |-> forks.seen + 1, log |-> new[i - kept]]]
      /\ forks' = [seen |-> forks.seen + 1, deep |-> forks.deep \/ n > Confirmations]
      /\ UNCHANGED <<inbox, cursor, mem, poll, aborted, spent>>

----------------------------------------------------------------------------
(* One source's turn in the worker's loop. *)

\* The loop goes on to the next source; only a new round looks at the signal.
Onward == IF poll.at < Len(Order) THEN Idle(poll.at + 1)
          ELSE IF aborted THEN Down ELSE Idle(1)

\* Once in a process the durable cursor is loaded.
Loaded == Polled \in DOMAIN mem
LoadCursor ==
  /\ poll.step = "idle" /\ ~Loaded
  /\ mem' = [s \in DOMAIN mem \cup {Polled} |-> IF s = Polled THEN cursor[s] ELSE mem[s]]
  /\ UNCHANGED <<chain, forks, inbox, cursor, poll, aborted, spent>>

\* The cursor a poll starts from; an empty object is not one and makes it throw.
Saved == IF mem[Polled] = None THEN Fresh ELSE mem[Polled]
Ready == poll.step = "idle" /\ Loaded
Unreadable == mem[Polled] = Empty

Divergent(history, head) ==
  {h \in history : h.at <= head /\ chain[h.at].fork # h.fork}
Rewound(c, lost) ==
  IF lost = {} THEN c
  ELSE LET first == CHOOSE n \in {h.at : h \in lost} : \A h \in lost : n <= h.at
       IN  [next |-> IF c.next < first THEN c.next ELSE first,
            history |-> {h \in c.history : h.at < first}]

\* A poll on a raised signal returns no events and no cursor.
PollAborted ==
  /\ Ready /\ aborted
  /\ poll' = [poll EXCEPT !.step = "save"]
  /\ UNCHANGED <<chain, forks, inbox, cursor, mem, aborted, spent>>

\* The head, and the blocks the history names: a changed one retracts its
\* events and rewinds the cursor to the first of them.
ReadHead ==
  LET head == IF Len(chain) > Confirmations THEN Len(chain) - Confirmations ELSE 0
      lost == Divergent(Saved.history, head)
  IN  /\ Ready /\ ~aborted /\ ~Unreadable
      /\ poll' = [poll EXCEPT !.step = IF head = 0 THEN "save" ELSE "logs", !.head = head,
                              !.found = Rewound(Saved, lost), !.gone = {h.log : h \in lost}]
      /\ UNCHANGED <<chain, forks, inbox, cursor, mem, aborted, spent>>

Recent(history) == {h \in history : h.at + Depth >= poll.head}
Found(i) ==
  IF chain[i].log # None /\ Emitter[chain[i].log] = Polled
  THEN [at |-> i, fork |-> chain[i].fork, log |-> chain[i].log] ELSE None

\* One getLogs range, at most MaxRanges of them; a raised signal ends the
\* reading early, with the cursor where it stands.
ReadLogs ==
  LET from == poll.found.next
      to == IF from + BlockRange - 1 < poll.head THEN from + BlockRange - 1 ELSE poll.head
      read == {Found(i) : i \in from .. to} \ {None}
  IN  /\ poll.step = "logs" /\ ~aborted /\ from <= poll.head /\ poll.left > 0
      /\ poll' = [poll EXCEPT !.left = @ - 1, !.events = @ \cup read,
                              !.found = [next |-> to + 1, history |-> @.history \cup read]]
      /\ UNCHANGED <<chain, forks, inbox, cursor, mem, aborted, spent>>

ReadDone ==
  /\ poll.step = "logs" /\ (aborted \/ poll.found.next > poll.head \/ poll.left = 0)
  /\ poll' = [poll EXCEPT !.step = "mark", !.found.history = IF aborted THEN @ ELSE Recent(@)]
  /\ UNCHANGED <<chain, forks, inbox, cursor, mem, aborted, spent>>

\* markReorg, one identity after the other: the row stays, no longer canonical.
MarkReorg ==
  /\ poll.step = "mark" /\ poll.gone # {}
  /\ \E l \in poll.gone :
       /\ inbox' = IF inbox[l] = None THEN inbox ELSE [inbox EXCEPT ![l].canonical = FALSE]
       /\ poll' = [poll EXCEPT !.gone = @ \ {l}]
  /\ UNCHANGED <<chain, forks, cursor, mem, aborted, spent>>

\* ingest: a new row, or a retracted one made canonical again.
Stored(row, e) ==
  IF row # None /\ row.canonical THEN row ELSE [at |-> e.at, fork |-> e.fork, canonical |-> TRUE]

\* The events go in the order of their blocks.
Ingest ==
  /\ poll.step = "mark" /\ poll.gone = {} /\ ~aborted
  /\ \E e \in poll.events :
       /\ \A later \in poll.events : e.at <= later.at
       /\ inbox' = [inbox EXCEPT ![e.log] = Stored(@, e)]
       /\ poll' = [poll EXCEPT !.events = @ \ {e}]
       /\ spent' = [spent EXCEPT !.cut = @ \ {e.log}]
  /\ UNCHANGED <<chain, forks, cursor, mem, aborted>>

\* The loop over the events ends, at a raised signal with some of them left.
\* Defect: the cursor is saved without waiting for the inbox.
SavedFirst == poll.step = "mark" /\ poll.gone = {}
Ingested == poll.step = "mark" /\ poll.gone = {} /\ (aborted \/ poll.events = {})

\* What is left of the batch when its cursor is saved on a raised signal: nobody reads it again.
Read == {e.log : e \in poll.events}
LeftOut == IF aborted THEN spent.cut \cup Read ELSE spent.cut

\* health: the batch's cursor becomes the durable one, an empty object if it has none; in
\* memory the last cursor stays then.
Save ==
  /\ poll.step = "save" \/ Ingested
  /\ cursor' = [cursor EXCEPT ![Polled] = poll.found]
  /\ mem' = [mem EXCEPT ![Polled] = IF poll.found = Empty /\ @ # None THEN @ ELSE poll.found]
  /\ poll' = Onward /\ spent' = [spent EXCEPT !.cut = LeftOut]
  /\ UNCHANGED <<chain, forks, inbox, aborted>>

\* The error path: the health row takes the cursor in memory, an empty object
\* when there is none; on a raised signal the loop ends instead.
Thrown ==
  /\ cursor' = IF aborted THEN cursor
               ELSE [cursor EXCEPT ![Polled] = IF Loaded /\ mem[Polled] # None THEN mem[Polled] ELSE Empty]
  /\ poll' = IF aborted THEN Down ELSE Onward
  /\ UNCHANGED <<chain, forks, inbox, mem, aborted>>

CursorUnreadable == Ready /\ ~aborted /\ Unreadable /\ Thrown /\ UNCHANGED spent

\* Any call of the turn, to the node or to the database, throws; the answer to
\* a committed save may be lost, and so may the health row of the error path.
SaveIsLost ==
  /\ Ingested /\ cursor' = [cursor EXCEPT ![Polled] = poll.found]
  /\ spent' = [spent EXCEPT !.fails = @ + 1, !.lost = TRUE, !.cut = LeftOut]

CallFails ==
  /\ poll.step # "down" /\ ~(Ready /\ (aborted \/ Unreadable)) /\ spent.fails < MaxFails
  /\ \/ Thrown /\ spent' = [spent EXCEPT !.fails = @ + 1]
     \/ /\ SaveIsLost \/ (UNCHANGED cursor /\ spent' = [spent EXCEPT !.fails = @ + 1])
        /\ poll' = IF aborted THEN Down ELSE Onward
        /\ UNCHANGED <<chain, forks, inbox, mem, aborted>>

\* SIGTERM: the signal is seen at the next round of the loop, or by the poll.
Stop ==
  /\ poll.step # "down" /\ ~aborted /\ spent.stops < MaxStops
  /\ aborted' = TRUE /\ spent' = [spent EXCEPT !.stops = @ + 1]
  /\ poll' \in IF poll # Idle(1) THEN {poll} ELSE IF Loaded THEN {Down} ELSE {Down, poll}
  /\ UNCHANGED <<chain, forks, inbox, cursor, mem>>

Crash ==
  /\ poll.step # "down" /\ spent.fails < MaxFails
  /\ poll' = Down /\ spent' = [spent EXCEPT !.fails = @ + 1]
  /\ UNCHANGED <<chain, forks, inbox, cursor, mem, aborted>>

Restart ==
  /\ poll.step = "down" /\ poll' = Idle(1) /\ aborted' = FALSE
  /\ mem' = [s \in {} |-> None]
  /\ UNCHANGED <<chain, forks, inbox, cursor, spent>>

----------------------------------------------------------------------------
Worker ==
  \/ LoadCursor \/ PollAborted \/ ReadHead \/ ReadLogs \/ ReadDone
  \/ MarkReorg \/ Ingest \/ Save \/ CursorUnreadable \/ Restart
Environment ==
  \/ \E l \in Logs \cup {None} : Mine(l)
  \/ \E n \in 1 .. MaxHeight : \E new \in [1 .. n -> Logs \cup {None}] : Reorg(n, new)
  \/ CallFails \/ Stop \/ Crash
Next == Worker \/ Environment
Spec == Init /\ [][Next]_vars
\* The worker's loop goes on, and a stopped process is started again.
FairSpec == Spec /\ WF_vars(Worker)

----------------------------------------------------------------------------
TypeOK ==
  /\ chain \in Seq(Block) /\ Len(chain) <= MaxHeight
  /\ forks.seen \in 0 .. MaxReorgs /\ forks.deep \in BOOLEAN
  /\ \A l \in Logs : inbox[l] = None \/ inbox[l].canonical \in BOOLEAN
  /\ \A s \in Sources : cursor[s] \in Cursor \cup {None, Empty}
  /\ \A s \in DOMAIN mem : mem[s] \in Cursor \cup {None, Empty}
  /\ aborted \in BOOLEAN /\ spent.fails <= MaxFails /\ spent.stops <= MaxStops

Holds(l) == inbox[l] # None /\ inbox[l].canonical
Kept(l) == inbox[l] # None \/ l \in spent.cut

\* Behind a durable cursor nothing is missing: the events of every block its
\* history names are in the inbox, and canonical when all of those blocks are
\* still in the chain; and so is every event below it, unless a reorganisation
\* went deeper than the confirmations.  Crashes, failed calls, replays and rewinds
\* come in between; only after a save that was reported as failed may a replay leave
\* an event retracted.  Excepted are the events, and they alone, that a SIGTERM left
\* over in the middle of a batch: the loop breaks off, and the batch's cursor is
\* saved all the same.  (event-adapters.ts 191-254; event-worker.ts 31-57)
NothingSkipped ==
  \A s \in Sources : cursor[s] # None =>
    LET history == cursor[s].history
    IN  /\ \A h \in history : Kept(h.log)
        /\ (~spent.lost /\ \A h \in history : chain[h.at].fork = h.fork)
             => \A h \in history : Holds(h.log) \/ h.log \in spent.cut
        /\ \A i \in 1 .. Len(chain) :
             (i < cursor[s].next /\ ~forks.deep /\ chain[i].log # None /\ Emitter[chain[i].log] = s)
               => Holds(chain[i].log) \/ chain[i].log \in spent.cut

\* A log that is in the chain for good and deep enough to be read reaches the
\* inbox.  (docs/SWAPVM-BUILDER-EVENT-TRIGGERS.md:76)
Settled(l) == \E i \in 1 .. Len(chain) : chain[i].log = l /\ i + Confirmations <= Len(chain)
EventIsIngested == \A l \in Logs : Settled(l) ~> (inbox[l] # None \/ ~Settled(l))

(***************************************************************************)
(* The inductive invariant.  A block that                                  *)
(* gave way to another never comes back; so the entries below the first    *)
(* divergent one name blocks still in the chain, whose logs are in no      *)
(* later entry, and retracting what diverged leaves them alone.            *)
(***************************************************************************)
Row == [at : 1 .. MaxHeight, fork : 0 .. MaxReorgs, canonical : BOOLEAN]
Held(s) == {c \in {cursor[s]} \cup (IF s \in DOMAIN mem THEN {mem[s]} ELSE {}) : c # None}
InChain(h) == chain[h.at].fork = h.fork

ChainInv ==
  /\ chain \in Seq(Block) /\ Len(chain) <= MaxHeight /\ forks \in [seen : 0 .. MaxReorgs, deep : BOOLEAN]
  /\ \A i \in 1 .. Len(chain) : chain[i].fork <= forks.seen
  /\ \A i, j \in 1 .. Len(chain) : chain[i].log = chain[j].log => i = j \/ chain[i].log = None

Polls ==
  [step : {"idle", "logs", "mark", "save", "down"}, at : 0 .. Len(Order), head : 0 .. MaxHeight,
   left : 0 .. MaxRanges, found : Cursor \cup {Empty}, events : SUBSET Entry, gone : SUBSET Logs]
Shapes ==
  /\ inbox \in [Logs -> Row \cup {None}]
  /\ DOMAIN cursor = Sources /\ \A s \in Sources : cursor[s] \in Cursor \cup {None, Empty}
  /\ DOMAIN mem \subseteq Sources /\ \A s \in DOMAIN mem : mem[s] \in Cursor \cup {None, Empty}
  /\ poll \in Polls /\ aborted \in BOOLEAN
  /\ spent \in [fails : 0 .. MaxFails, stops : 0 .. MaxStops, lost : BOOLEAN, cut : SUBSET Logs]
  /\ poll.step # "down" => poll.at \in 1 .. Len(Order)
  /\ poll.step \in {"logs", "mark"} => poll.found # Empty /\ poll.head + Confirmations <= Len(chain)
  /\ poll.step \notin {"logs", "mark"} => poll.events = {} /\ poll.gone = {}

\* What a cursor of a source says of the chain.
Sane(c, s) ==
  /\ c.next <= 1 \/ c.next + Confirmations <= Len(chain) + 1
  /\ \A h \in c.history :
       /\ h.at < c.next /\ h.at + Confirmations <= Len(chain) /\ h.fork <= forks.seen /\ Emitter[h.log] = s
       /\ InChain(h) => chain[h.at].log = h.log
       /\ forks.deep \/ InChain(h)
  /\ \A h, k \in c.history : h.at < k.at /\ InChain(h) => h.log # k.log

\* What it stands for is in the inbox, but for what was read and is to be put there.
Stands(c, s, read) ==
  /\ \A h \in c.history : Kept(h.log) \/ h.log \in read
  /\ forks.deep \/ \A i \in 1 .. Len(chain) :
       i < c.next /\ chain[i].log # None /\ Emitter[chain[i].log] = s
         => Kept(chain[i].log) \/ chain[i].log \in read

\* Below the first entry that diverged, what it names is canonical.
Sound(c) == \A h \in c.history :
  (\A k \in c.history : k.at <= h.at => InChain(k)) => Holds(h.log) \/ h.log \in spent.cut

CursorInv == \A s \in Sources :
  /\ \A c \in Held(s) : Sane(c, s) /\ Stands(c, s, {})
  /\ ~spent.lost =>
       /\ \A c \in Held(s) : Sound(c)
       /\ s \in DOMAIN mem => mem[s] = cursor[s] \/ cursor[s] \in {None, Empty}

PollInv ==
  /\ Sane(poll.found, Polled) /\ Stands(poll.found, Polled, Read)
  /\ ~spent.lost => \A h \in poll.found.history : 
       (Holds(h.log) /\ h.log \notin poll.gone) \/ h.log \in Read \cup spent.cut
  /\ \A l \in poll.gone :
       /\ Polled \in DOMAIN mem /\ mem[Polled] # None
       /\ \E h \in mem[Polled].history : h.log = l /\ ~InChain(h)
  /\ forks.deep \/ (poll.gone = {} /\ \A l \in Logs : inbox[l] = None \/ inbox[l].canonical)

SourceInv == ChainInv /\ Shapes /\ CursorInv /\ PollInv

\* What stands for no log, no row and no cursor is none, and bounds are numbers.
NoneIsNoLog ==
  /\ None \notin Logs \cup Row \cup Entry \cup Cursor \cup {Empty} /\ Order \in Seq(Sources) \ {<<>>}
  /\ {Confirmations, BlockRange, MaxRanges, Depth, MaxHeight, MaxReorgs, MaxFails, MaxStops} \subseteq Nat
=============================================================================

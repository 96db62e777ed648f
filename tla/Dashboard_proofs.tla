--------------------------- MODULE Dashboard_proofs ---------------------------
(***************************************************************************)
(* Proofs about the dashboard: its event feed and its two files, for any   *)
(* connections, editors, fields and bounds.                                *)
(***************************************************************************)
EXTENDS Dashboard, TLAPS

OrderRows == {"pending", "filled"}

\* The types FeedTypeOK leaves out.  Every row of cycle_history was written under
\* a number some process of the bot had reached.
FeedTypes ==
  /\ orders \in Seq(OrderRows) /\ Len(orders) <= MaxOrders
  /\ cycles \in Seq(Nat) /\ Len(cycles) <= number + MaxCycles * restarts
  /\ number \in 0 .. MaxCycles /\ restarts \in 0 .. MaxRestarts
  /\ conn \in [Conns -> {"new", "open", "closed"}] /\ active \subseteq Conns
  /\ pc \in [Conns -> {"none", "marking", "asleep", "collecting", "sending"}]
  /\ wm \in [Conns -> [cycle : Nat, order : Nat]]
  /\ out \in [Conns -> SUBSET (Kinds \X Nat)] /\ sent \in [Conns -> SUBSET (Kinds \X Nat)]

\* Watermarks are rows that exist.
MarksExist == \A c \in Conns : wm[c].cycle <= Len(cycles) /\ wm[c].order <= Len(orders)

\* An event lies behind two watermarks.
Behind(e, cycle, order) == 1 <= e[2] /\ e[2] <= IF e[1] = "cycle_complete" THEN cycle ELSE order

\* What a handler has announced lies behind its watermarks, and so does what it
\* is about to announce once both are advanced; between two queries an order may
\* lie ahead.  Without this the next collection might find a row again.  A
\* connection that was not made has no handler.
Announced ==
  \A c \in Conns :
    /\ conn[c] = "new" => pc[c] = "none"
    /\ pc[c] \in {"none", "marking", "asleep"} => out[c] = {}
    /\ \A e \in sent[c] : Behind(e, wm[c].cycle, wm[c].order)
    /\ \A e \in out[c] : Behind(e, wm[c].cycle, Len(orders))
    /\ pc[c] = "sending" => \A e \in out[c] : Behind(e, wm[c].cycle, wm[c].order)

FeedInv == FeedTypes /\ MarksExist /\ Announced /\ NeverTwice
-----------------------------------------------------------------------------
(* The event feed. *)

\* A larger factor makes a larger product.
LEMMA ProductGrows ==
  ASSUME NEW a \in Nat, NEW b \in Nat, NEW c \in Nat, b <= c
  PROVE  a * b \in Nat /\ a * c \in Nat /\ a * b <= a * c
<1>1. PICK d \in Nat : c = b + d
  <2>1. c - b \in Nat /\ c = b + (c - b)
    OBVIOUS
  <2> QED
    BY <2>1
<1>2. a * c = a * b + a * d
  BY <1>1
<1>3. a * b \in Nat /\ a * d \in Nat /\ a * c \in Nat
  BY <1>1
<1> QED
  BY <1>2, <1>3

\* There are at most as many rows as the bounds allow.
LEMMA RowsBounded ==
  ASSUME FeedTypes
  PROVE  Len(cycles) <= MaxCycles * (MaxRestarts + 1)
<1>1. /\ MaxCycles \in Nat /\ MaxRestarts \in Nat /\ restarts \in Nat /\ restarts <= MaxRestarts
      /\ number \in Nat /\ number <= MaxCycles
      /\ Len(cycles) \in Nat /\ Len(cycles) <= number + MaxCycles * restarts
  BY EventFeedAssumption DEF FeedTypes
<1>2. /\ MaxCycles * restarts \in Nat /\ MaxCycles * MaxRestarts \in Nat
      /\ MaxCycles * restarts <= MaxCycles * MaxRestarts
  BY <1>1, ProductGrows
<1>3. MaxCycles * (MaxRestarts + 1) = MaxCycles * MaxRestarts + MaxCycles
  BY <1>1
<1> QED
  BY <1>1, <1>2, <1>3

\* The invariant of the feed implies its types.
LEMMA FeedTyped == FeedInv => FeedTypeOK
<1> SUFFICES ASSUME FeedInv, NEW c \in Conns
             PROVE  (out[c] \cup sent[c]) \subseteq Events
  BY DEF FeedInv, FeedTypes, MarksExist, FeedTypeOK
<1>1. Len(cycles) <= MaxCycles * (MaxRestarts + 1) /\ Len(cycles) \in Nat
  BY RowsBounded DEF FeedInv, FeedTypes
<1>2. Len(orders) <= MaxOrders /\ Len(orders) \in Nat
  BY DEF FeedInv, FeedTypes
<1>3. MaxCycles * (MaxRestarts + 1) \in Nat /\ MaxOrders \in Nat
  BY EventFeedAssumption
<1>4. wm[c].cycle \in Nat /\ wm[c].cycle <= Len(cycles) /\ wm[c].order \in Nat /\ wm[c].order <= Len(orders)
  BY DEF FeedInv, FeedTypes, MarksExist
<1> SUFFICES ASSUME NEW e \in out[c] \cup sent[c]
             PROVE  e \in Kinds \X Ids
  BY DEF Events
<1>5. e \in Kinds \X Nat
  BY DEF FeedInv, FeedTypes
<1>6. Behind(e, wm[c].cycle, Len(orders)) \/ Behind(e, wm[c].cycle, wm[c].order)
  BY DEF FeedInv, Announced
<1>7. e[2] \in Nat /\ 1 <= e[2] /\ (e[2] <= Len(cycles) \/ e[2] <= Len(orders))
  BY <1>1, <1>2, <1>4, <1>5, <1>6 DEF Behind
<1>8. e[2] \in Ids
  BY <1>1, <1>2, <1>3, <1>7 DEF Ids
<1> QED
  BY <1>5, <1>8

\* The feed starts with nothing announced.
LEMMA FeedStart == FeedInit => FeedInv
  BY EventFeedAssumption
     DEF FeedInit, FeedInv, FeedTypes, MarksExist, Announced, NeverTwice, NoMarks

\* The bot only adds rows or changes an order's status: nothing a handler
\* announced moves ahead of a watermark.
LEMMA BotKeeps ==
  ASSUME FeedInv, SaveOrder \/ FillOrder \/ SaveCycle \/ CycleRaises \/ BotRestarts
  PROVE  FeedInv'
<1>1. FeedTypes /\ MarksExist /\ Announced /\ NeverTwice
  BY DEF FeedInv
<1>2. UNCHANGED <<conn, pc, active, wm, out, sent>>
  BY DEF SaveOrder, FillOrder, SaveCycle, CycleRaises, BotRestarts, handlerVars
<1>3. /\ orders' \in Seq(OrderRows) /\ Len(orders') <= MaxOrders /\ Len(orders) <= Len(orders')
  <2>1. CASE SaveOrder
    BY <1>1, <2>1, EventFeedAssumption DEF SaveOrder, FeedTypes, OrderRows
  <2>2. CASE FillOrder
    BY <1>1, <2>2 DEF FillOrder, FeedTypes, OrderRows
  <2>3. CASE SaveCycle \/ CycleRaises \/ BotRestarts
    BY <1>1, <2>3 DEF SaveCycle, CycleRaises, BotRestarts, FeedTypes
  <2> QED
    BY <2>1, <2>2, <2>3
<1>4. /\ cycles' \in Seq(Nat) /\ Len(cycles') <= number' + MaxCycles * restarts'
      /\ number' \in 0 .. MaxCycles /\ restarts' \in 0 .. MaxRestarts
      /\ Len(cycles) <= Len(cycles')
  <2>1. /\ MaxCycles \in Nat /\ MaxRestarts \in Nat /\ restarts \in Nat /\ number \in Nat
        /\ cycles \in Seq(Nat) /\ Len(cycles) \in Nat
        /\ Len(cycles) <= number + MaxCycles * restarts
    BY <1>1, EventFeedAssumption DEF FeedTypes
  <2>2. MaxCycles * restarts \in Nat /\ MaxCycles * (restarts + 1) = MaxCycles * restarts + MaxCycles
    BY <2>1
  <2>3. CASE SaveOrder \/ FillOrder
    BY <1>1, <2>1, <2>3 DEF SaveOrder, FillOrder, FeedTypes
  <2>4. CASE SaveCycle
    <3>1. number' = number + 1 /\ number' \in 0 .. MaxCycles /\ restarts' = restarts
      BY <1>1, <2>4, <2>1 DEF SaveCycle, FeedTypes
    <3>2. cycles' \in Seq(Nat) /\ Len(cycles) <= Len(cycles') /\ Len(cycles') <= Len(cycles) + 1
      BY <2>1, <2>4, <3>1 DEF SaveCycle
    <3>3. Len(cycles') \in Nat
      BY <3>2
    <3> QED
      BY <1>1, <2>1, <2>2, <3>1, <3>2, <3>3 DEF FeedTypes
  <2>5. CASE CycleRaises
    BY <1>1, <2>1, <2>2, <2>5 DEF CycleRaises, FeedTypes
  <2>6. CASE BotRestarts
    BY <1>1, <2>1, <2>2, <2>6 DEF BotRestarts, FeedTypes
  <2> QED
    BY <2>3, <2>4, <2>5, <2>6
<1>5. FeedTypes'
  BY <1>1, <1>2, <1>3, <1>4 DEF FeedTypes
<1>6. MarksExist' /\ Announced'
  <2>1. Len(orders) \in Nat /\ Len(orders') \in Nat /\ Len(cycles) \in Nat /\ Len(cycles') \in Nat
    BY <1>1, <1>3, <1>4 DEF FeedTypes
  <2>2. \A c \in Conns : wm[c].cycle \in Nat /\ wm[c].order \in Nat
    BY <1>1 DEF FeedTypes
  <2>3. \A c \in Conns : \A e \in out[c] : e[2] \in Nat
    BY <1>1 DEF FeedTypes
  <2>4. MarksExist'
    BY <1>1, <1>2, <1>3, <1>4, <2>1, <2>2 DEF MarksExist
  <2>5. Announced'
    BY <1>1, <1>2, <1>3, <2>1, <2>2, <2>3 DEF Announced, Behind
  <2> QED
    BY <2>4, <2>5
<1>7. NeverTwice'
  BY <1>1, <1>2 DEF NeverTwice
<1> QED
  BY <1>5, <1>6, <1>7 DEF FeedInv

\* A step of one connection changes that connection only: what has to be shown is
\* what holds of it afterwards.
LEMMA OneHandler ==
  ASSUME FeedInv, NEW c \in Conns, UNCHANGED botVars, FeedTypes',
         \A d \in Conns \ {c} : /\ conn'[d] = conn[d] /\ pc'[d] = pc[d] /\ wm'[d] = wm[d]
                                /\ out'[d] = out[d] /\ sent'[d] = sent[d],
         wm'[c].cycle <= Len(cycles), wm'[c].order <= Len(orders),
         conn'[c] = "new" => pc'[c] = "none",
         pc'[c] \in {"none", "marking", "asleep"} => out'[c] = {},
         \A e \in sent'[c] : Behind(e, wm'[c].cycle, wm'[c].order),
         \A e \in out'[c] : Behind(e, wm'[c].cycle, Len(orders)),
         pc'[c] = "sending" => \A e \in out'[c] : Behind(e, wm'[c].cycle, wm'[c].order),
         out'[c] \cap sent'[c] = {}
  PROVE  FeedInv'
<1> USE DEF botVars
<1>1. MarksExist'
  BY DEF FeedInv, MarksExist
<1>2. Announced'
  BY DEF FeedInv, Announced
<1>3. NeverTwice'
  BY DEF FeedInv, NeverTwice
<1> QED
  BY <1>1, <1>2, <1>3 DEF FeedInv

\* Rows behind a watermark stay behind a later one.
LEMMA BehindLater ==
  ASSUME NEW e \in Kinds \X Nat, NEW i \in Nat, NEW j \in Nat, NEW k \in Nat, NEW l \in Nat,
         i <= k, j <= l, Behind(e, i, j)
  PROVE  Behind(e, k, l)
  BY DEF Behind

\* Every step of a connection keeps the invariant of the feed.
LEMMA ConnectionKeeps ==
  ASSUME FeedInv, NEW c \in Conns, Connect(c) \/ Close(c) \/ CollectFails(c) \/ HandlerStep(c)
  PROVE  FeedInv'
<1>1. FeedTypes /\ MarksExist /\ Announced /\ NeverTwice
  BY DEF FeedInv
<1>2. /\ Len(cycles) \in Nat /\ Len(orders) \in Nat
      /\ wm[c] \in [cycle : Nat, order : Nat] /\ wm[c].cycle \in Nat /\ wm[c].order \in Nat
      /\ wm[c].cycle <= Len(cycles) /\ wm[c].order <= Len(orders)
      /\ out[c] \subseteq Kinds \X Nat /\ sent[c] \subseteq Kinds \X Nat
  BY <1>1 DEF FeedTypes, MarksExist
<1>3. /\ conn[c] = "new" => pc[c] = "none"
      /\ pc[c] \in {"none", "marking", "asleep"} => out[c] = {}
      /\ \A e \in sent[c] : Behind(e, wm[c].cycle, wm[c].order)
      /\ \A e \in out[c] : Behind(e, wm[c].cycle, Len(orders))
      /\ pc[c] = "sending" => \A e \in out[c] : Behind(e, wm[c].cycle, wm[c].order)
      /\ out[c] \cap sent[c] = {}
  BY <1>1 DEF Announced, NeverTwice
<1>4. CASE Connect(c)
  <2>1. UNCHANGED botVars /\ FeedTypes'
    BY <1>1, <1>4 DEF Connect, FeedTypes, botVars
  <2> QED
    BY <1>1, <1>2, <1>3, <1>4, <2>1, OneHandler DEF Connect, FeedTypes
<1>5. CASE Close(c)
  <2>1. UNCHANGED botVars /\ FeedTypes'
    BY <1>1, <1>5 DEF Close, FeedTypes, botVars, handlerVars
  <2> QED
    BY <1>1, <1>2, <1>3, <1>5, <2>1, OneHandler DEF Close, handlerVars
<1>6. CASE CollectFails(c)
  <2>1. UNCHANGED botVars /\ FeedTypes'
    BY <1>1, <1>6 DEF CollectFails, FeedTypes, botVars
  <2>2. UNCHANGED <<wm, out, sent>> /\ pc'[c] = "none" /\ out[c] = {}
    BY <1>1, <1>3, <1>6 DEF CollectFails, FeedTypes
  <2>3. \A d \in Conns \ {c} : pc'[d] = pc[d] /\ conn'[d] = conn[d]
    BY <1>1, <1>6 DEF CollectFails, FeedTypes
  <2> QED
    BY <1>2, <1>3, <2>1, <2>2, <2>3, OneHandler
<1>7. CASE Mark(c)
  <2>0. conn' = conn /\ conn[c] # "new"
    BY <1>3, <1>7 DEF Mark
  <2>1. wm'[c] = [cycle |-> Len(cycles), order |-> Len(orders)] /\ out' = out /\ sent' = sent
    BY <1>1, <1>7 DEF Mark, FeedTypes
  <2>2. UNCHANGED botVars /\ FeedTypes'
    BY <1>1, <1>2, <1>7 DEF Mark, FeedTypes, botVars
  <2>3. \A e \in sent[c] : Behind(e, Len(cycles), Len(orders))
    BY <1>2, <1>3, BehindLater
  <2>4. out[c] = {} /\ pc'[c] = "asleep"
    BY <1>1, <1>3, <1>7 DEF Mark, FeedTypes
  <2>5. \A d \in Conns \ {c} : pc'[d] = pc[d] /\ wm'[d] = wm[d]
    BY <1>1, <1>7 DEF Mark, FeedTypes
  <2> QED
    BY <1>2, <2>0, <2>1, <2>2, <2>3, <2>4, <2>5, OneHandler
<1>8. CASE Collect(c)
  <2> DEFINE seen == Found(c)
  <2>0. conn' = conn /\ conn[c] # "new"
    BY <1>3, <1>8 DEF Collect
  <2>1. /\ wm'[c].cycle = Len(cycles) /\ wm'[c].order = wm[c].order
        /\ out'[c] = seen /\ sent' = sent /\ pc'[c] = "collecting"
    BY <1>1, <1>8 DEF Collect, FeedTypes
  <2>2. seen \subseteq Kinds \X Nat
    BY <1>2 DEF Found, NewCycles, NewFills, Kinds
  <2>3. UNCHANGED botVars /\ FeedTypes'
    <3> HIDE DEF seen
    <3>1. wm' \in [Conns -> [cycle : Nat, order : Nat]]
      BY <1>1, <1>2, <1>8 DEF Collect, FeedTypes
    <3> QED
      BY <1>1, <1>8, <2>2, <3>1 DEF Collect, FeedTypes, botVars, seen
  <2>4. \A e \in sent[c] : Behind(e, Len(cycles), wm[c].order)
    BY <1>2, <1>3, BehindLater
  <2>5. \A e \in seen : Behind(e, Len(cycles), Len(orders))
    BY <1>2 DEF Found, NewCycles, NewFills, Behind
  <2>6. seen \cap sent[c] = {}
    BY <1>2, <1>3 DEF Found, NewCycles, NewFills, Behind
  <2>7. \A d \in Conns \ {c} : pc'[d] = pc[d] /\ wm'[d] = wm[d] /\ out'[d] = out[d]
    BY <1>1, <1>8 DEF Collect, FeedTypes
  <2> HIDE DEF seen
  <2> QED
    BY <1>2, <2>0, <2>1, <2>3, <2>4, <2>5, <2>6, <2>7, OneHandler
<1>9. CASE Collected(c)
  <2>0. conn' = conn /\ conn[c] # "new"
    BY <1>3, <1>9 DEF Collected
  <2>1. /\ wm'[c].cycle = wm[c].cycle /\ wm'[c].order = Len(orders)
        /\ out' = out /\ sent' = sent /\ pc'[c] = "sending"
    BY <1>1, <1>2, <1>9 DEF Collected, Advanced, NewestOrder, FeedTypes
  <2>2. UNCHANGED botVars /\ FeedTypes'
    BY <1>1, <1>2, <1>9 DEF Collected, Advanced, NewestOrder, FeedTypes, botVars
  <2>3. \A e \in sent[c] : Behind(e, wm[c].cycle, Len(orders))
    BY <1>2, <1>3, BehindLater
  <2>4. \A d \in Conns \ {c} : pc'[d] = pc[d] /\ wm'[d] = wm[d]
    BY <1>1, <1>9 DEF Collected, FeedTypes
  <2> QED
    BY <1>2, <1>3, <2>0, <2>1, <2>2, <2>3, <2>4, OneHandler
<1>10. CASE Broadcast(c)
  <2>0. conn' = conn /\ conn[c] # "new"
    BY <1>3, <1>10 DEF Broadcast
  <2>1. /\ wm' = wm /\ pc'[c] = "asleep" /\ out'[c] = {} /\ sent'[c] = sent[c] \cup out[c]
    BY <1>1, <1>10 DEF Broadcast, FeedTypes
  <2>2. UNCHANGED botVars /\ FeedTypes'
    BY <1>1, <1>2, <1>10 DEF Broadcast, FeedTypes, botVars
  <2>3. \A d \in Conns \ {c} : pc'[d] = pc[d] /\ out'[d] = out[d] /\ sent'[d] = sent[d]
    BY <1>1, <1>10 DEF Broadcast, FeedTypes
  <2>4. pc[c] = "sending"
    BY <1>10 DEF Broadcast
  <2> QED
    BY <1>2, <1>3, <2>0, <2>1, <2>2, <2>3, <2>4, OneHandler
<1> QED
  BY <1>4, <1>5, <1>6, <1>7, <1>8, <1>9, <1>10 DEF HandlerStep

\* Every step of the feed keeps its invariant.
LEMMA FeedKeeps == FeedInv /\ FeedNext => FeedInv'
<1> SUFFICES ASSUME FeedInv, FeedNext PROVE FeedInv'
  OBVIOUS
<1>1. CASE SaveOrder \/ FillOrder \/ SaveCycle \/ CycleRaises \/ BotRestarts
  BY <1>1, BotKeeps
<1>2. CASE BroadcastControls
  BY <1>2 DEF BroadcastControls, FeedInv, FeedTypes, MarksExist, Announced, NeverTwice, botVars
<1>3. ASSUME NEW c \in Conns, Connect(c) \/ Close(c) \/ CollectFails(c) \/ HandlerStep(c)
      PROVE  FeedInv'
  BY <1>3, ConnectionKeeps
<1> QED
  BY <1>1, <1>2, <1>3 DEF FeedNext

\* A step that leaves the feed alone keeps its invariant.
LEMMA FeedStutters == FeedInv /\ UNCHANGED feedVars => FeedInv'
  BY DEF feedVars, botVars, handlerVars, FeedInv, FeedTypes, MarksExist, Announced, NeverTwice
-----------------------------------------------------------------------------
(* The files. *)

\* The types FileTypeOK leaves out; the flags have no cache.
FileTypes ==
  /\ which \in {"flags", "settings"} /\ present \in BOOLEAN
  /\ file \in Contents \cup {Absent, Empty} /\ tmp \in Contents \cup {Absent, Empty}
  /\ cache \in Contents \cup {Absent} /\ asked \in Contents
  /\ step \in [Actors -> {"idle", "read", "open", "write", "replace", "clear", "load", "keep"}]
  /\ boot \in [Actors -> BOOLEAN] /\ alone \in [Actors -> BOOLEAN]
  /\ edit \in [Actors -> Edits] /\ val \in [Actors -> Contents]
  /\ at \in [Actors -> {"tmp", "file", "gone"}]
  /\ which = "flags" => \A a \in Actors : step[a] \notin {"clear", "load", "keep"}

\* Nobody writes defaults but to a flags file that was not there.
NoBoot == which = "settings" \/ present => \A a \in Actors : ~boot[a]

\* Whoever reads flags that are there takes no step.
ViewersRest == which = "flags" /\ present => \A v \in Viewers : step[v] = "idle"

\* The editors nothing can disturb: those of flags that are there, one at a time,
\* and those of settings no other request ran beside.
Undisturbed(e) == (which = "flags" /\ present) \/ (which = "settings" /\ alone[e])

Sole(e) == \A b \in Actors : step[b] # "idle" => b = e

\* What such an editor has in hand is the file with its own edit, and the
\* temporary file is its own; once it has replaced the file, nothing is cached.
Writer(e) ==
  /\ Sole(e)
  /\ step[e] \in {"open", "write", "replace"} => val[e] = Merged(file, edit[e])
  /\ step[e] \in {"write", "replace"} => at[e] = "tmp"
  /\ step[e] = "replace" => tmp = val[e]
  /\ step[e] \in {"clear", "load", "keep"} => file \in Contents
  /\ step[e] \in {"load", "keep"} => cache = Absent
  /\ step[e] = "keep" => val[e] = Effective(file)

Writers == \A e \in Editors : Undisturbed(e) /\ step[e] # "idle" => Writer(e)

FileInv == FileTypes /\ NoBoot /\ ViewersRest /\ Writers /\ FlagsAsAsked

\* What is known of a file's content is a record of its fields, and so is that
\* with an edit.
LEMMA MergedType ==
  ASSUME NEW x \in Contents \cup {Absent, Empty}, NEW b \in Edits
  PROVE  /\ Known(x) \in Contents /\ Merged(x, b) \in Contents
         /\ x \in Contents => Known(x) = x
  BY SharedFileAssumption DEF Known, Merged, Default, Edits, Contents, OutOfRange

\* So are the settings they make with the environment.
LEMMA EffectiveType ==
  ASSUME NEW x \in Contents \cup {Absent, Empty} PROVE Effective(x) \in Contents
<1>1. Known(x) \in [Fields -> 0 .. 2]
  BY SharedFileAssumption DEF Known, Default, Contents, OutOfRange
<1>2. \A f \in DOMAIN Environment : Environment[f] \in 0 .. 2
  BY SharedFileAssumption
<1> QED
  BY <1>1, <1>2 DEF Effective, Contents, OutOfRange

\* The invariant of the settings file holds its types.
LEMMA FileTyped == FileInv => FileTypeOK
  BY DEF FileInv, FileTypes, FileTypeOK, Contents, OutOfRange

\* The editors start with the file as it is.
LEMMA FileStart == FileInit => FileInv
<1> SUFFICES ASSUME FileInit PROVE FileInv
  OBVIOUS
<1>1. NoEdit \in Edits
  <2>1. PICK f : f \in Fields
    BY SharedFileAssumption
  <2>2. [field |-> f, value |-> 0] \in Edits
    BY <2>1 DEF Edits, OutOfRange
  <2> QED
    BY <2>2 DEF NoEdit
<1>2. FileTypes
  BY <1>1 DEF FileInit, FileTypes, Default, Contents, OutOfRange
<1>3. NoBoot /\ ViewersRest /\ Writers /\ FlagsAsAsked
  BY DEF FileInit, NoBoot, ViewersRest, Writers, FlagsAsAsked, Actors
<1> QED
  BY <1>2, <1>3 DEF FileInv

\* Only the actor of a step that goes on with its request has to be looked at:
\* beside an undisturbed editor no other actor is under way.
LEMMA OthersRest ==
  ASSUME FileInv, NEW a \in Actors, NEW s, step[a] # "idle",
         step' = [step EXCEPT ![a] = s], UNCHANGED <<which, present, alone>>
  PROVE  /\ ViewersRest'
         /\ (a \in Editors /\ Undisturbed(a) /\ s # "idle" => Writer(a)') => Writers'
         /\ \A e \in Editors : Undisturbed(e) /\ step[e] # "idle" => e = a
         /\ a \in Editors /\ Undisturbed(a) => Writer(a) /\ Sole(a)'
<1>1. FileTypes /\ ViewersRest /\ Writers
  BY DEF FileInv
<1>2. \A e \in Editors : Undisturbed(e) /\ step[e] # "idle" => e = a
  BY <1>1 DEF Writers, Writer, Sole, Actors
<1>3. \A b \in Actors : step'[b] = IF b = a THEN s ELSE step[b]
  BY <1>1 DEF FileTypes
<1>4. a \in Editors /\ Undisturbed(a) => Writer(a) /\ Sole(a)'
  BY <1>1, <1>3 DEF Writers, Writer, Sole
<1>5. ViewersRest'
  BY <1>1, <1>3 DEF ViewersRest, Actors
<1>6. (a \in Editors /\ Undisturbed(a) /\ s # "idle" => Writer(a)') => Writers'
  BY <1>2, <1>3 DEF Writers, Undisturbed, Actors
<1> QED
  BY <1>2, <1>4, <1>5, <1>6

\* A request that begins disturbs those under way.
LEMMA BeginKeeps ==
  ASSUME FileInv,
         \/ \E v \in Viewers : ViewFlags(v) \/ ViewSettings(v)
         \/ \E e \in Editors : EditBegins(e)
  PROVE  FileInv'
<1>1. FileTypes /\ NoBoot /\ ViewersRest /\ Writers /\ FlagsAsAsked
  BY DEF FileInv
<1>2. which = "flags" /\ present => file \in Contents /\ file # Absent
  BY <1>1, SharedFileAssumption DEF FlagsAsAsked, FileTypes, Contents, OutOfRange
<1>3. Default \in Contents
  BY DEF Default, Contents, OutOfRange
<1>4. ASSUME NEW v \in Viewers, ViewFlags(v)
      PROVE  FileInv'
  <2>1. which = "flags" /\ ~present
    BY <1>1, <1>2, <1>4 DEF ViewFlags, FileTypes
  <2>2. FileTypes'
    BY <1>1, <1>3, <1>4 DEF ViewFlags, Begin, FileTypes
  <2> QED
    BY <1>4, <2>1, <2>2
       DEF ViewFlags, FileInv, NoBoot, ViewersRest, Writers, Undisturbed, FlagsAsAsked
<1>5. ASSUME NEW v \in Viewers, ViewSettings(v)
      PROVE  FileInv'
  <2>1. which = "settings" /\ UNCHANGED <<which, boot>>
    BY <1>5 DEF ViewSettings
  <2>2. FileTypes'
    BY <1>1, <1>5 DEF ViewSettings, Begin, FileTypes
  <2>3. \A e \in Editors : step'[e] # "idle" => ~alone'[e]
    BY <1>1, <1>5, SharedFileAssumption DEF ViewSettings, Begin, Busy, Actors, FileTypes
  <2> QED
    BY <1>1, <2>1, <2>2, <2>3
       DEF FileInv, NoBoot, ViewersRest, Writers, Undisturbed, FlagsAsAsked
<1>6. ASSUME NEW e \in Editors, EditBegins(e)
      PROVE  FileInv'
  <2>1. /\ UNCHANGED <<which, present, file, asked, tmp, cache, at>>
        /\ e \in Actors /\ step[e] = "idle"
        /\ boot' = [boot EXCEPT ![e] = which = "flags" /\ file = Absent]
        /\ step' = [step EXCEPT ![e] = IF boot'[e] THEN "open" ELSE "read"]
        /\ alone' = [b \in Actors |-> IF b = e THEN Busy = {} ELSE alone[b] /\ b \notin Busy]
    BY <1>6 DEF EditBegins, Begin, Actors
  <2>2. FileTypes'
    <3>1. PICK b \in Edits : edit' = [edit EXCEPT ![e] = b]
      BY <1>6 DEF EditBegins
    <3>2. boot' \in [Actors -> BOOLEAN] /\ alone' \in [Actors -> BOOLEAN]
      BY <1>1, <2>1 DEF FileTypes
    <3>3. /\ step' \in [Actors -> {"idle", "read", "open", "write", "replace", "clear", "load", "keep"}]
          /\ \A a \in Actors : step'[a] = step[a] \/ step'[a] \in {"read", "open"}
      BY <1>1, <2>1 DEF FileTypes
    <3>4. val' \in [Actors -> Contents] /\ edit' \in [Actors -> Edits]
      BY <1>1, <1>3, <1>6, <3>1 DEF EditBegins, FileTypes
    <3> QED
      BY <1>1, <2>1, <3>2, <3>3, <3>4 DEF FileTypes
  <2>3. NoBoot'
    <3>1. which = "settings" \/ present => ~(which = "flags" /\ file = Absent)
      BY <1>1, <1>2
    <3> QED
      BY <1>1, <2>1, <3>1 DEF NoBoot, FileTypes
  <2>4. ViewersRest'
    BY <1>1, <2>1, SharedFileAssumption DEF ViewersRest, FileTypes, Actors
  <2>5. Writers'
    <3> SUFFICES ASSUME NEW d \in Editors, Undisturbed(d)', step'[d] # "idle"
                 PROVE  Writer(d)'
      BY DEF Writers
    <3>1. d \in Actors
      BY DEF Actors
    <3>2. d = e
      <4> SUFFICES ASSUME d # e PROVE FALSE
        OBVIOUS
      <4>1. d \in Busy
        BY <1>1, <2>1, <3>1 DEF Busy, FileTypes
      <4>2. ~alone'[d]
        BY <2>1, <3>1, <4>1
      <4>3. which = "flags"
        BY <2>1, <4>2 DEF Undisturbed
      <4> QED
        BY <1>6, <4>1, <4>3 DEF EditBegins
    <3>3. Busy = {}
      <4>1. CASE which = "settings"
        BY <2>1, <3>1, <3>2, <4>1 DEF Undisturbed
      <4>2. CASE which = "flags"
        <5>1. Editors \cap Busy = {} /\ present
          BY <1>6, <2>1, <4>2 DEF EditBegins, Undisturbed
        <5> QED
          BY <1>1, <4>2, <5>1 DEF ViewersRest, Busy, Actors
      <4> QED
        BY <1>1, <4>1, <4>2 DEF FileTypes
    <3>4. step'[e] = "read"
      <4>1. ~boot'[e]
        BY <2>1, <2>3, <3>2 DEF NoBoot, Undisturbed
      <4> QED
        BY <1>1, <2>1, <4>1 DEF FileTypes
    <3>5. Sole(d)'
      BY <1>1, <2>1, <3>2, <3>3 DEF Sole, Busy, FileTypes
    <3> QED
      BY <3>2, <3>4, <3>5 DEF Writer
  <2>6. FlagsAsAsked'
    BY <1>1, <2>1 DEF FlagsAsAsked
  <2> QED
    BY <2>2, <2>3, <2>4, <2>5, <2>6 DEF FileInv
<1> QED
  BY <1>4, <1>5, <1>6

\* An actor that opens, writes or loads keeps the invariant.
LEMMA HandlesKeep ==
  ASSUME FileInv, NEW a \in Actors, Open(a) \/ Write(a) \/ Load(a) \/ LoadFails(a) \/ Keep(a)
  PROVE  FileInv'
<1>1. FileTypes /\ NoBoot /\ ViewersRest /\ Writers /\ FlagsAsAsked
  BY DEF FileInv
<1>2. UNCHANGED <<which, present, boot, edit, alone, asked>>
  BY DEF Open, Write, Load, LoadFails, Keep
<1>3. NoBoot'
  BY <1>1, <1>2 DEF NoBoot
<1>4. a \in Editors /\ Undisturbed(a) /\ step[a] # "idle" => Writer(a)
  BY <1>1 DEF Writers
<1>5. which = "flags" /\ present /\ step[a] # "idle" => a \in Editors
  BY <1>1 DEF ViewersRest, Actors
<1>6. CASE Open(a)
  <2>1. step[a] # "idle" /\ step' = [step EXCEPT ![a] = "write"] /\ step'[a] = "write"
    BY <1>1, <1>6 DEF Open, FileTypes
  <2>2. FileTypes'
    BY <1>1, <1>6 DEF Open, FileTypes
  <2>3. a \in Editors /\ Undisturbed(a) => Writer(a)'
    <3> SUFFICES ASSUME a \in Editors, Undisturbed(a) PROVE Writer(a)'
      OBVIOUS
    <3>1. Sole(a)' /\ Writer(a)
      BY <1>2, <2>1, OthersRest
    <3>2. at'[a] = "tmp" /\ val'[a] = Merged(file', edit'[a])
      BY <1>1, <1>6, <3>1 DEF Open, Writer, FileTypes
    <3> QED
      BY <2>1, <3>1, <3>2 DEF Writer
  <2>4. Writers' /\ ViewersRest'
    BY <1>2, <2>1, <2>3, OthersRest
  <2>5. FlagsAsAsked'
    BY <1>1, <1>6 DEF Open, FlagsAsAsked
  <2> QED
    BY <1>3, <2>2, <2>4, <2>5 DEF FileInv
<1>7. CASE Write(a)
  <2>1. step[a] = "write" /\ step' = [step EXCEPT ![a] = "replace"] /\ step'[a] = "replace"
    BY <1>1, <1>7 DEF Write, FileTypes
  <2>2. FileTypes'
    BY <1>1, <1>7 DEF Write, FileTypes
  <2>3. a \in Editors /\ Undisturbed(a) => file' = file /\ tmp' = val[a] /\ Writer(a)'
    <3> SUFFICES ASSUME a \in Editors, Undisturbed(a)
                 PROVE  file' = file /\ tmp' = val[a] /\ Writer(a)'
      OBVIOUS
    <3>1. Sole(a)' /\ Writer(a)
      BY <1>2, <2>1, OthersRest
    <3>2. file' = file /\ tmp' = val[a] /\ UNCHANGED <<val, at>>
      BY <1>7, <2>1, <3>1 DEF Write, Writer
    <3> QED
      BY <1>2, <2>1, <3>1, <3>2 DEF Writer
  <2>4. Writers' /\ ViewersRest'
    BY <1>2, <2>1, <2>3, OthersRest
  <2>5. FlagsAsAsked'
    <3> SUFFICES ASSUME which = "flags", present PROVE file' = asked'
      BY <1>2 DEF FlagsAsAsked
    <3>1. a \in Editors
      BY <1>5, <2>1
    <3>2. Undisturbed(a)
      BY DEF Undisturbed
    <3> QED
      BY <1>1, <1>2, <2>3, <3>1, <3>2 DEF FlagsAsAsked
  <2> QED
    BY <1>3, <2>2, <2>4, <2>5 DEF FileInv
<1>8. CASE Load(a)
  <2>1. step[a] = "load" /\ step' = [step EXCEPT ![a] = "keep"] /\ step'[a] = "keep"
    BY <1>1, <1>8 DEF Load, FileTypes
  <2>2. Effective(file) \in Contents
    BY <1>1, EffectiveType DEF FileTypes
  <2>3. FileTypes'
    BY <1>1, <1>8, <2>2 DEF Load, FileTypes
  <2>4. a \in Editors /\ Undisturbed(a) => Writer(a)'
    <3> SUFFICES ASSUME a \in Editors, Undisturbed(a) PROVE Writer(a)'
      OBVIOUS
    <3>1. Sole(a)' /\ Writer(a)
      BY <1>2, <2>1, OthersRest
    <3>2. file' = file /\ cache' = cache /\ val'[a] = Effective(file)
      BY <1>1, <1>8 DEF Load, FileTypes
    <3>3. Effective(file)' = Effective(file)
      BY <3>2 DEF Effective, Known
    <3> QED
      BY <2>1, <3>1, <3>2, <3>3 DEF Writer
  <2>5. Writers' /\ ViewersRest'
    BY <1>2, <2>1, <2>4, OthersRest
  <2>6. FlagsAsAsked'
    BY <1>1, <1>8 DEF Load, FlagsAsAsked
  <2> QED
    BY <1>3, <2>3, <2>5, <2>6 DEF FileInv
<1>9. CASE LoadFails(a)
  <2>1. step[a] = "load" /\ step' = [step EXCEPT ![a] = "idle"]
    BY <1>9 DEF LoadFails
  <2>2. FileTypes'
    BY <1>1, <1>9 DEF LoadFails, FileTypes
  <2>3. Writers' /\ ViewersRest'
    BY <1>2, <2>1, OthersRest
  <2>4. FlagsAsAsked'
    BY <1>1, <1>9 DEF LoadFails, FlagsAsAsked
  <2> QED
    BY <1>3, <2>2, <2>3, <2>4 DEF FileInv
<1>10. CASE Keep(a)
  <2>1. step[a] = "keep" /\ step' = [step EXCEPT ![a] = "idle"]
    BY <1>10 DEF Keep
  <2>2. FileTypes'
    BY <1>1, <1>10 DEF Keep, FileTypes
  <2>3. Writers' /\ ViewersRest'
    BY <1>2, <2>1, OthersRest
  <2>4. FlagsAsAsked'
    BY <1>1, <1>10 DEF Keep, FlagsAsAsked
  <2> QED
    BY <1>3, <2>2, <2>3, <2>4 DEF FileInv
<1> QED
  BY <1>6, <1>7, <1>8, <1>9, <1>10

\* So does a replacement: it installs what the writer had in hand.
LEMMA ReplaceKeeps ==
  ASSUME FileInv, NEW a \in Actors, Replace(a) \/ ReplaceFails(a)
  PROVE  FileInv'
<1>1. FileTypes /\ NoBoot /\ ViewersRest /\ Writers /\ FlagsAsAsked
  BY DEF FileInv
<1>2. UNCHANGED <<which, present, edit, alone, val, cache>> /\ step[a] = "replace"
  BY DEF Replace, ReplaceFails
<1>3. boot' = [boot EXCEPT ![a] = FALSE]
  BY DEF Replace, ReplaceFails
<1>4. NoBoot'
  BY <1>1, <1>2, <1>3 DEF NoBoot, FileTypes
<1>5. which = "flags" /\ present => a \in Editors /\ Undisturbed(a)
  <2> SUFFICES ASSUME which = "flags", present PROVE a \in Editors /\ Undisturbed(a)
    OBVIOUS
  <2>1. a \in Editors
    BY <1>1, <1>2 DEF ViewersRest, Actors
  <2>2. Undisturbed(a)
    BY DEF Undisturbed
  <2> QED
    BY <2>1, <2>2
<1>6. a \in Editors /\ Undisturbed(a) =>
        tmp = val[a] /\ val[a] \in Contents /\ val[a] = Merged(file, edit[a]) /\ tmp # Absent
  BY <1>1, <1>2, SharedFileAssumption DEF Writers, Writer, FileTypes, Contents, OutOfRange
<1>7. CASE Replace(a)
  <2>1. step' = [step EXCEPT ![a] = Then(a)] /\ file' = tmp
    BY <1>7 DEF Replace
  <2>2. FileTypes'
    <3>1. Then(a) \in {"read", "clear", "idle"} /\ (which = "flags" => Then(a) # "clear")
      BY DEF Then
    <3>2. [asked EXCEPT ![edit[a].field] = edit[a].value] \in Contents
      BY <1>1 DEF FileTypes, Edits, Contents, OutOfRange
    <3>3. asked' \in Contents
      BY <1>1, <1>7, <3>2 DEF Replace, FileTypes
    <3>4. at' \in [Actors -> {"tmp", "file", "gone"}]
      BY <1>1, <1>7 DEF Replace, FileTypes
    <3>5. /\ step' \in [Actors -> {"idle", "read", "open", "write", "replace", "clear", "load", "keep"}]
          /\ \A b \in Actors : step'[b] = step[b] \/ step'[b] = Then(a)
      BY <1>1, <2>1, <3>1 DEF FileTypes
    <3>6. boot' \in [Actors -> BOOLEAN]
      BY <1>1, <1>3 DEF FileTypes
    <3>7. tmp' = Absent
      BY <1>7 DEF Replace
    <3> QED
      BY <1>1, <1>2, <2>1, <3>1, <3>3, <3>4, <3>5, <3>6, <3>7 DEF FileTypes
  <2>3. a \in Editors /\ Undisturbed(a) => Writer(a)'
    <3> SUFFICES ASSUME a \in Editors, Undisturbed(a) PROVE Writer(a)'
      OBVIOUS
    <3>1. Sole(a)'
      BY <1>2, <2>1, OthersRest
    <3>2. ~boot[a]
      BY <1>1 DEF NoBoot, Undisturbed
    <3>3. step'[a] \in {"clear", "idle"} /\ file' \in Contents
      BY <1>1, <1>6, <2>1, <3>2 DEF Then, FileTypes
    <3> QED
      BY <3>1, <3>3 DEF Writer
  <2>4. Writers' /\ ViewersRest'
    BY <1>2, <2>1, <2>3, OthersRest
  <2>5. FlagsAsAsked'
    <3> SUFFICES ASSUME which = "flags", present PROVE file' = asked'
      BY <1>2 DEF FlagsAsAsked
    <3>1. file' = Merged(file, edit[a]) /\ file = asked /\ file \in Contents /\ edit[a] \in Edits
      BY <1>1, <1>5, <1>6, <2>1 DEF FlagsAsAsked, FileTypes
    <3>2. file' = [file EXCEPT ![edit[a].field] = edit[a].value]
      BY <3>1, MergedType DEF Merged
    <3>3. ~boot[a]
      BY <1>1 DEF NoBoot
    <3> QED
      BY <1>7, <3>1, <3>2, <3>3 DEF Replace
  <2> QED
    BY <1>4, <2>2, <2>4, <2>5 DEF FileInv
<1>8. CASE ReplaceFails(a)
  <2>1. /\ ~(a \in Editors /\ Undisturbed(a)) /\ UNCHANGED <<file, asked, tmp>>
        /\ step' = [step EXCEPT ![a] = IF a \in Editors /\ boot[a] THEN "read" ELSE "idle"]
    BY <1>6, <1>8 DEF ReplaceFails
  <2>2. FileTypes'
    <3>1. step' \in [Actors -> {"idle", "read", "open", "write", "replace", "clear", "load", "keep"}]
      BY <1>1, <2>1 DEF FileTypes
    <3>2. \A b \in Actors : step'[b] = step[b] \/ step'[b] \in {"idle", "read"}
      BY <1>1, <2>1 DEF FileTypes
    <3>3. at' \in [Actors -> {"tmp", "file", "gone"}]
      BY <1>1, <1>8 DEF ReplaceFails, FileTypes
    <3>4. boot' \in [Actors -> BOOLEAN]
      BY <1>1, <1>3 DEF FileTypes
    <3> QED
      BY <1>1, <1>2, <2>1, <3>1, <3>2, <3>3, <3>4 DEF FileTypes
  <2>3. Writers' /\ ViewersRest'
    BY <1>2, <2>1, OthersRest
  <2>4. FlagsAsAsked'
    BY <1>1, <1>2, <2>1 DEF FlagsAsAsked
  <2> QED
    BY <1>4, <2>2, <2>3, <2>4 DEF FileInv
<1> QED
  BY <1>7, <1>8

\* So does an editor that reads, is rejected, or clears the cache.
LEMMA EditorKeeps ==
  ASSUME FileInv, NEW a \in Editors, Read(a) \/ Rejected(a) \/ Clear(a)
  PROVE  FileInv'
<1>1. FileTypes /\ NoBoot /\ ViewersRest /\ Writers /\ FlagsAsAsked
  BY DEF FileInv
<1>2. UNCHANGED <<which, present, file, tmp, boot, edit, at, alone, asked>>
  BY DEF Read, Rejected, Clear
<1>3. NoBoot' /\ FlagsAsAsked'
  BY <1>1, <1>2 DEF NoBoot, FlagsAsAsked
<1>4. a \in Actors
  BY DEF Actors
<1>5. CASE Read(a)
  <2>1. step[a] = "read" /\ step' = [step EXCEPT ![a] = "open"] /\ step'[a] = "open"
    BY <1>1, <1>4, <1>5 DEF Read, FileTypes
  <2>2. val' = [val EXCEPT ![a] = Merged(file, edit[a])] /\ Merged(file, edit[a]) \in Contents
    <3>1. file \in Contents \cup {Absent, Empty} /\ edit[a] \in Edits
      BY <1>1, <1>4 DEF FileTypes
    <3> QED
      BY <1>5, <3>1, MergedType DEF Read
  <2>3. FileTypes'
    BY <1>1, <1>4, <1>5, <2>2 DEF Read, FileTypes
  <2>4. Undisturbed(a) => Writer(a)'
    <3> SUFFICES ASSUME Undisturbed(a) PROVE Writer(a)'
      OBVIOUS
    <3>1. Sole(a)'
      BY <1>2, <1>4, <2>1, OthersRest
    <3>2. val'[a] = Merged(file', edit'[a])
      BY <1>1, <1>2, <1>4, <2>2 DEF FileTypes
    <3> QED
      BY <2>1, <3>1, <3>2 DEF Writer
  <2>5. Writers' /\ ViewersRest'
    BY <1>2, <1>4, <2>1, <2>4, OthersRest
  <2> QED
    BY <1>3, <2>3, <2>5 DEF FileInv
<1>6. CASE Rejected(a)
  <2>1. step[a] = "read" /\ step' = [step EXCEPT ![a] = "idle"]
    BY <1>6 DEF Rejected
  <2>2. FileTypes'
    BY <1>1, <1>6 DEF Rejected, FileTypes
  <2>3. Writers' /\ ViewersRest'
    BY <1>2, <1>4, <2>1, OthersRest
  <2> QED
    BY <1>3, <2>2, <2>3 DEF FileInv
<1>7. CASE Clear(a)
  <2>1. /\ step[a] = "clear" /\ step' = [step EXCEPT ![a] = "load"] /\ step'[a] = "load"
        /\ cache' = Absent
    BY <1>1, <1>4, <1>7 DEF Clear, Cleared, FileTypes
  <2>2. FileTypes'
    BY <1>1, <1>4, <1>7, <2>1 DEF Clear, FileTypes
  <2>3. Undisturbed(a) => Writer(a)'
    <3> SUFFICES ASSUME Undisturbed(a) PROVE Writer(a)'
      OBVIOUS
    <3>1. Sole(a)' /\ Writer(a)
      BY <1>2, <1>4, <2>1, OthersRest
    <3> QED
      BY <1>2, <2>1, <3>1 DEF Writer
  <2>4. Writers' /\ ViewersRest'
    BY <1>2, <1>4, <2>1, <2>3, OthersRest
  <2> QED
    BY <1>3, <2>2, <2>4 DEF FileInv
<1> QED
  BY <1>5, <1>6, <1>7

\* Every step of an editor or of a writer keeps the file.
LEMMA FileKeeps == FileInv /\ FileNext => FileInv'
  BY BeginKeeps, HandlesKeep, ReplaceKeeps, EditorKeeps DEF FileNext

\* A step that leaves the file alone keeps its invariant.
LEMMA FileStutters == FileInv /\ UNCHANGED fileVars => FileInv'
  BY DEF fileVars, FileInv, FileTypes, NoBoot, ViewersRest, Writers, Writer, Undisturbed, Sole,
         FlagsAsAsked
-----------------------------------------------------------------------------
(* The dashboard. *)

\* The inductive invariant: each part keeps its own while the other rests.
IInv == FeedInv /\ FileInv

\* The API process starts in the invariant of both parts.
LEMMA Start == Init => IInv
  BY FeedStart, FileStart DEF Init, IInv

\* Every step keeps it: each part moves while the other rests.
LEMMA Inductive == IInv /\ [Next]_vars => IInv'
<1> SUFFICES ASSUME IInv, [Next]_vars PROVE IInv'
  OBVIOUS
<1>1. CASE OnEvents /\ FeedNext
  BY <1>1, FeedKeeps, FileStutters DEF IInv, OnEvents
<1>2. CASE OnFiles /\ FileNext
  BY <1>2, FileKeeps, FeedStutters DEF IInv, OnFiles
<1>3. CASE UNCHANGED vars
  BY <1>3, FeedStutters, FileStutters DEF IInv, vars
<1> QED
  BY <1>1, <1>2, <1>3 DEF Next

\* So it always holds.
LEMMA Invariant == Spec => []IInv
  BY Start, Inductive, PTL DEF Spec

\* The watermarks, connections and files of the API process are well formed, and
\* the rows it reads stay within what the bot can have written.
THEOREM DashboardTyped == Spec => []TypeOK
<1>1. IInv => TypeOK
  BY FeedTyped, FileTyped DEF IInv, TypeOK
<1> QED
  BY <1>1, Invariant, PTL

\* _poll_once announces no row to a connection a second time: a watermark that is
\* read before a query and advanced after it never falls behind what was sent.
THEOREM RowsAreSentOnce == Spec => []NeverTwice
<1>1. IInv => NeverTwice
  BY DEF IInv, FeedInv
<1> QED
  BY <1>1, Invariant, PTL

\* When runtime.yaml was there from the start, every PATCH leaves in it what it was
\* asked for and what earlier ones were, and no reader sees it truncated.
THEOREM FlagsFollowPatches == Spec => []FlagsAsAsked
<1>1. IInv => FlagsAsAsked
  BY DEF IInv, FileInv
<1> QED
  BY <1>1, Invariant, PTL

\* An editor of the settings leaves the replacement by replacing, and ends by
\* keeping what it loaded or by failing to load the file.
LEMMA HowItEnds ==
  ASSUME FileInv, FileNext, which = "settings", NEW e \in Editors
  PROVE  /\ step[e] = "replace" /\ step'[e] = "clear" => file' = tmp
         /\ step[e] = "clear" /\ step'[e] = "idle" => FALSE
         /\ step[e] = "load" /\ step'[e] = "idle" =>
              ~Loadable(file) /\ UNCHANGED <<file, cache>>
         /\ step[e] = "keep" /\ step'[e] = "idle" =>
              file' = file /\ cache' = IF cache = Absent THEN val[e] ELSE cache
<1>1. FileTypes /\ e \in Actors
  BY DEF FileInv, Actors
<1>2. CASE \E v \in Viewers : ViewFlags(v) \/ ViewSettings(v)
  BY <1>1, <1>2, SharedFileAssumption DEF ViewFlags, ViewSettings, Begin, FileTypes, Actors
<1>3. CASE \E d \in Editors : EditBegins(d)
  BY <1>1, <1>3 DEF EditBegins, Begin, FileTypes
<1>4. CASE \E d \in Editors : Read(d) \/ Rejected(d) \/ Clear(d)
  BY <1>1, <1>4 DEF Read, Rejected, Clear, Cleared, FileTypes, Actors
<1>5. CASE \E a \in Actors : Open(a) \/ Write(a) \/ Load(a) \/ LoadFails(a)
  BY <1>1, <1>5 DEF Open, Write, Load, LoadFails, FileTypes
<1>6. CASE \E a \in Actors : Replace(a)
  BY <1>1, <1>6 DEF Replace, FileTypes
<1>7. CASE \E a \in Actors : ReplaceFails(a)
  BY <1>1, <1>7 DEF ReplaceFails, FileTypes
<1>8. CASE \E a \in Actors : Keep(a)
  BY <1>1, <1>8 DEF Keep, FileTypes
<1> QED
  BY <1>2, <1>3, <1>4, <1>5, <1>6, <1>7, <1>8 DEF FileNext

\* A PUT no other request ran beside changes its own field of settings.yaml, and
\* its answer is the settings that file and the environment make; if these are out
\* of range it fails, with the file written and nothing cached.
THEOREM LonePutAnswersTheFile == Spec => LonePutIsSeen
<1> DEFINE Lone(e) ==
      which = "settings" /\ alone[e] =>
       /\ step[e] = "replace" /\ step'[e] = "clear" =>
            \A f \in Fields : file'[f] = IF f = edit[e].field THEN edit[e].value ELSE Known(file)[f]
       /\ step[e] \in {"clear", "load", "keep"} /\ step'[e] = "idle" =>
            cache' = Effective(file') \/ (cache' = Absent /\ ~Loadable(file'))
<1>1. ASSUME IInv, [Next]_vars PROVE [\A e \in Editors : Lone(e)]_fileVars
  <2> SUFFICES ASSUME FileNext, NEW e \in Editors, which = "settings", alone[e] PROVE Lone(e)
    <3>1. FileNext \/ UNCHANGED fileVars
      BY <1>1 DEF Next, OnEvents, OnFiles, vars
    <3> QED
      BY <3>1
  <2>1. FileTypes /\ Writers /\ e \in Actors
    BY <1>1 DEF IInv, FileInv, Actors
  <2>2. step[e] # "idle" => Writer(e)
    BY <2>1 DEF Writers, Undisturbed
  <2>3. ASSUME step[e] = "replace", step'[e] = "clear"
        PROVE  \A f \in Fields : file'[f] = IF f = edit[e].field THEN edit[e].value ELSE Known(file)[f]
    <3>1. file' = val[e]
      BY <2>2, <2>3, <1>1, HowItEnds DEF Writer, IInv
    <3>2. file' = Merged(file, edit[e])
      BY <2>2, <2>3, <3>1 DEF Writer
    <3> QED
      BY <2>1, <3>2, SharedFileAssumption DEF Merged, Known, Default, FileTypes, Edits, Contents, OutOfRange
  <2>4. ASSUME step[e] \in {"clear", "load", "keep"}, step'[e] = "idle"
        PROVE  cache' = Effective(file') \/ (cache' = Absent /\ ~Loadable(file'))
    <3>1. CASE step[e] = "load"
      <4>1. ~Loadable(file) /\ UNCHANGED <<file, cache>> /\ cache = Absent
        BY <1>1, <2>2, <2>4, <3>1, HowItEnds DEF Writer, IInv
      <4> QED
        BY <4>1
    <3>2. CASE step[e] = "keep"
      <4>1. file' = file /\ cache' = val[e] /\ val[e] = Effective(file)
        BY <1>1, <2>2, <2>4, <3>2, HowItEnds DEF Writer, IInv
      <4> QED
        BY <4>1
    <3> QED
      BY <1>1, <2>4, <3>1, <3>2, HowItEnds DEF IInv
  <2> QED
    BY <2>3, <2>4
<1> QED
  BY <1>1, Invariant, PTL DEF Spec, LonePutIsSeen
=============================================================================

---------------------------- MODULE PanelProofs -----------------------------
\* What is proved of the panels that order something from the server: downloads of models,
\* dead letters, settings, consumers and the daemon's controls, each for itself and then as
\* parts of Dashboard.
EXTENDS Dashboard, TLAPS

-----------------------------------------------------------------------------
\* Downloads of models: ModelPull.

\* A request is about a download that exists, but for the start of one that was not
\* answered with an id.
Requests == [op : {"start", "poll", "cancel"}, id : Nat, stage : {"sent", "answered", "killed"},
             seen : M!PullStatuses \union {"refused"}, here : BOOLEAN]
RequestOK(w) ==
    /\ w \in Requests
    /\ w.op \in {"poll", "cancel"} => w.id \in Pulls
    /\ w.op = "poll" => w.seen # "refused"
    /\ w.op = "start" /\ w.stage = "answered" /\ w.seen # "refused" => w.id \in Pulls
WireOK == \A w \in pullWire : RequestOK(w)
HereIsOpen == \A w \in pullWire : w.here => modelsOpen

\* A download without a row has no process, and the page that is left shows none.
NoRowNoProcess == \A p \in Pulls : pullRow[p] = "none" => pullProc[p] = "none"
LeftIsEmpty == ~modelsOpen => \A p \in Pulls : activePulls[p] = "none"

PullInv ==
    M!PullTypeOK /\ WireOK /\ HereIsOpen /\ NoRowNoProcess /\ LeftIsEmpty /\ M!PullsAccounted

\* A request is made by a mounted page, and nothing was seen of it yet.
LEMMA SentOK ==
  ASSUME M!PullAssumption, NEW op \in {"start", "poll", "cancel"}, NEW p \in Pulls \union {0},
         op # "start" => p \in Pulls
  PROVE  RequestOK(M!Request(op, p))
  BY DEF M!PullAssumption, RequestOK, Requests, M!Request, M!PullStatuses

\* What the user and the interval do keeps PullInv.
LEMMA PullPageKept ==
  ASSUME M!PullAssumption, PullInv,
         M!OpenModels \/ M!LeaveModels \/ M!PressDownload
           \/ (\E p \in Pulls : M!PollTick(p) \/ M!PressCancel(p))
  PROVE  PullInv'
  <1> USE DEF PullInv
  <1>1. UNCHANGED <<M!server, lost>>
    BY DEF M!OpenModels, M!LeaveModels, M!PressDownload, M!PollTick, M!PressCancel
  <1>2. NoRowNoProcess' /\ M!RowsTellTheEnd'
    BY <1>1 DEF M!server, NoRowNoProcess, M!PullsAccounted, M!RowsTellTheEnd
  <1>3. CASE M!OpenModels
    <2>1. WireOK' /\ HereIsOpen' /\ LeftIsEmpty' /\ M!PullsAccounted'
      BY <1>2, <1>3 DEF M!OpenModels, WireOK, HereIsOpen, LeftIsEmpty, M!PullsAccounted
    <2>2. M!PullTypeOK'
      BY <1>1, <1>3 DEF M!OpenModels, M!server, M!PullTypeOK
    <2>3. QED
      BY <1>2, <2>1, <2>2
  <1>4. CASE M!LeaveModels
    <2>1. \A w \in pullWire' : \E v \in pullWire : w = [v EXCEPT !.here = FALSE]
      BY <1>4 DEF M!LeaveModels
    <2>2. ASSUME NEW w \in pullWire'
          PROVE  RequestOK(w) /\ ~w.here
      <3>1. PICK v \in pullWire : w = [v EXCEPT !.here = FALSE]
        BY <2>1
      <3>2. RequestOK(v)
        BY DEF WireOK
      <3>3. QED
        BY <3>1, <3>2 DEF RequestOK, Requests
    <2>3. WireOK' /\ HereIsOpen'
      BY <2>2 DEF WireOK, HereIsOpen
    <2>4. activePulls' = M!Empty /\ pullIntervals' = {} /\ overtaken' = {} /\ pullError' = FALSE
          /\ modelsOpen' = FALSE
      BY <1>4 DEF M!LeaveModels
    <2>5. LeftIsEmpty' /\ M!PullsAccounted'
      BY <1>2, <2>4 DEF LeftIsEmpty, M!PullsAccounted, M!Empty
    <2>6. activePulls' \in [Pulls -> M!PullStatuses]
      BY <2>4 DEF M!Empty, M!PullStatuses
    <2>7. \A w \in pullWire' : w.op \in {"start", "poll", "cancel"}
          /\ w.seen \in M!PullStatuses \union {"refused"}
      BY <2>2 DEF RequestOK, Requests
    <2>8. M!PullTypeOK'
      BY <1>1, <2>4, <2>6, <2>7 DEF M!server, M!PullTypeOK
    <2>9. QED
      BY <1>2, <2>3, <2>5, <2>8
  <1>5. CASE M!PressDownload \/ (\E p \in Pulls : M!PollTick(p) \/ M!PressCancel(p))
    <2>1. PICK r : RequestOK(r) /\ pullWire' = pullWire \union {r}
      <3>1. CASE M!PressDownload
        BY <3>1, SentOK DEF M!PressDownload
      <3>2. ASSUME NEW p \in Pulls, M!PollTick(p) \/ M!PressCancel(p)
            PROVE  \E r : RequestOK(r) /\ pullWire' = pullWire \union {r}
        <4>1. RequestOK(M!Request("poll", p)) /\ RequestOK(M!Request("cancel", p))
          BY SentOK
        <4>2. QED
          BY <3>2, <4>1 DEF M!PollTick, M!PressCancel
      <3>3. QED
        BY <1>5, <3>1, <3>2
    <2>2. modelsOpen
      <3>1. CASE M!PressDownload
        BY <3>1 DEF M!PressDownload
      <3>2. ASSUME NEW p \in Pulls, M!PollTick(p) PROVE modelsOpen
        BY <3>2 DEF M!PollTick, M!PullsAccounted
      <3>3. ASSUME NEW p \in Pulls, M!PressCancel(p) PROVE modelsOpen
        BY <3>3 DEF M!PressCancel, LeftIsEmpty
      <3>4. QED
        BY <1>5, <3>1, <3>2, <3>3
    <2>3. UNCHANGED <<modelsOpen, activePulls, pullIntervals, overtaken>>
          /\ pullError' \in BOOLEAN
      BY <1>5 DEF M!PressDownload, M!PollTick, M!PressCancel, M!page, M!PullTypeOK
    <2>4. WireOK' /\ HereIsOpen' /\ LeftIsEmpty' /\ M!PullsAccounted'
      BY <1>2, <2>1, <2>2, <2>3 DEF WireOK, HereIsOpen, LeftIsEmpty, M!PullsAccounted
    <2>5. \A w \in pullWire' : w.op \in {"start", "poll", "cancel"}
          /\ w.seen \in M!PullStatuses \union {"refused"}
      BY <2>4 DEF WireOK, RequestOK, Requests
    <2>6. M!PullTypeOK'
      BY <1>1, <2>3, <2>5 DEF M!server, M!PullTypeOK
    <2>7. QED
      BY <1>2, <2>4, <2>6
  <1>6. QED
    BY <1>3, <1>4, <1>5

\* An answer that lands keeps it, whatever the page did since.
LEMMA PullLandingKept ==
  ASSUME M!PullAssumption, PullInv, NEW w \in pullWire,
         M!StartLanded(w) \/ M!PollLanded(w) \/ M!CancelLanded(w)
  PROVE  PullInv'
  <1> USE DEF PullInv
  <1>1. UNCHANGED <<M!server, lost>> /\ pullWire' = pullWire \ {w} /\ RequestOK(w)
    BY DEF M!StartLanded, M!PollLanded, M!CancelLanded, WireOK
  <1>2. NoRowNoProcess' /\ M!RowsTellTheEnd'
    BY <1>1 DEF M!server, NoRowNoProcess, M!PullsAccounted, M!RowsTellTheEnd
  <1>3. modelsOpen' = modelsOpen
    BY DEF M!StartLanded, M!PollLanded, M!CancelLanded, M!page
  <1>4. WireOK' /\ HereIsOpen'
    BY <1>1, <1>3 DEF WireOK, HereIsOpen
  <1>5. CASE ~w.here
    <2>1. UNCHANGED M!page
      BY <1>5 DEF M!StartLanded, M!PollLanded, M!CancelLanded
    <2>2. LeftIsEmpty' /\ M!PullsAccounted' /\ M!PullTypeOK'
      BY <1>1, <1>2, <2>1 DEF M!page, M!server, LeftIsEmpty, M!PullsAccounted, M!PullTypeOK
    <2>3. QED
      BY <1>2, <1>4, <2>2
  <1>6. CASE w.here
    <2>1. modelsOpen
      BY <1>6 DEF HereIsOpen
    <2>2. /\ activePulls' \in [Pulls -> M!PullStatuses]
          /\ pullIntervals' \subseteq Pulls /\ overtaken' \subseteq Pulls
             /\ pullError' \in BOOLEAN
          /\ \A p \in Pulls : activePulls'[p] = "pulling"
               => p \in pullIntervals' \union overtaken'
      <3>1. CASE M!StartLanded(w)
        <4>1. CASE w.seen = "refused"
          BY <1>6, <3>1, <4>1 DEF M!StartLanded, M!PullTypeOK, M!PullsAccounted
        <4>2. CASE w.seen # "refused"
          <5>1. w.id \in Pulls
            BY <1>1, <3>1, <4>2 DEF M!StartLanded, RequestOK
          <5>2. /\ activePulls' = [activePulls EXCEPT ![w.id] = "pulling"]
                /\ pullIntervals' = pullIntervals \union {w.id}
                /\ UNCHANGED <<pullError, overtaken>>
            BY <1>6, <3>1, <4>2 DEF M!StartLanded
          <5>3. QED
            BY <5>1, <5>2 DEF M!PullTypeOK, M!PullsAccounted, M!PullStatuses
        <4>3. QED
          BY <4>1, <4>2
      <3>2. CASE M!PollLanded(w)
        <4>1. w.id \in Pulls /\ w.seen \in M!PullStatuses
          BY <1>1, <3>2 DEF M!PollLanded, RequestOK, Requests
        <4>2. /\ activePulls' = [activePulls EXCEPT ![w.id] = w.seen]
              /\ pullIntervals' = IF w.seen =
                   "pulling" THEN pullIntervals ELSE pullIntervals \ {w.id}
              /\ overtaken' = IF w.id \in pullIntervals THEN overtaken ELSE overtaken
                 \union {w.id}
              /\ UNCHANGED pullError
          BY <1>6, <3>2 DEF M!PollLanded
        <4>3. \A p \in Pulls : activePulls'[p] = "pulling"
                => p \in pullIntervals' \union overtaken'
          BY <4>1, <4>2 DEF M!PullTypeOK, M!PullsAccounted
        <4>4. activePulls' \in [Pulls -> M!PullStatuses]
          BY <4>1, <4>2 DEF M!PullTypeOK
        <4>5. pullIntervals' \subseteq Pulls /\ overtaken' \subseteq Pulls
              /\ pullError' \in BOOLEAN
          BY <4>1, <4>2 DEF M!PullTypeOK
        <4>6. QED
          BY <4>3, <4>4, <4>5
      <3>3. CASE M!CancelLanded(w)
        <4>1. CASE w.seen = "refused"
          BY <1>6, <3>3, <4>1 DEF M!CancelLanded, M!PullTypeOK, M!PullsAccounted
        <4>2. CASE w.seen # "refused"
          <5>1. w.id \in Pulls
            BY <1>1, <3>3 DEF M!CancelLanded, RequestOK
          <5>2. /\ activePulls' = [activePulls EXCEPT ![w.id] = "none"]
                /\ pullIntervals' = pullIntervals \ {w.id}
                /\ UNCHANGED <<pullError, overtaken>>
            BY <1>6, <3>3, <4>2 DEF M!CancelLanded
          <5>3. QED
            BY <5>1, <5>2 DEF M!PullTypeOK, M!PullsAccounted, M!PullStatuses
        <4>3. QED
          BY <4>1, <4>2
      <3>4. QED
        BY <3>1, <3>2, <3>3
    <2>3. LeftIsEmpty' /\ M!PullsAccounted'
      BY <1>2, <1>3, <2>1, <2>2 DEF LeftIsEmpty, M!PullsAccounted
    <2>4. \A v \in pullWire' : v.op \in {"start", "poll", "cancel"}
          /\ v.seen \in M!PullStatuses \union {"refused"}
      BY <1>1 DEF M!PullTypeOK
    <2>5. M!PullTypeOK'
      BY <1>1, <1>3, <2>2, <2>4 DEF M!server, M!PullTypeOK
    <2>6. QED
      BY <1>2, <1>4, <2>3, <2>5
  <1>7. QED
    BY <1>5, <1>6

\* A request that is served keeps it, and so does each half of a cancel.
LEMMA PullServedKept ==
  ASSUME M!PullAssumption, PullInv, NEW w \in pullWire,
         M!StartServed(w) \/ M!PollServed(w) \/ M!CancelKills(w) \/ M!CancelWrites(w)
  PROVE  PullInv'
  <1> USE DEF PullInv
  <1>1. RequestOK(w) /\ UNCHANGED <<restarted, M!page, lost>>
    BY DEF M!StartServed, M!PollServed, M!CancelKills, M!CancelWrites, WireOK, M!server
  <1>2. PICK r : RequestOK(r) /\ r.here = w.here /\ pullWire' = (pullWire \ {w}) \union {r}
    <2>1. CASE M!StartServed(w)
      <3>1. PICK p \in Pulls :
              \/ pullWire' = (pullWire \ {w}) \union
                                {[w EXCEPT !.id = p, !.stage = "answered", !.seen = "pulling"]}
              \/ pullWire' = M!Moved(w, "answered", "refused")
        BY <2>1 DEF M!StartServed
      <3>2. w.op = "start"
        BY <2>1 DEF M!StartServed
      <3>3. p \in Nat
        BY DEF M!PullAssumption
      <3>4. RequestOK([w EXCEPT !.id = p, !.stage = "answered", !.seen = "pulling"])
        BY <1>1, <3>2, <3>3 DEF RequestOK, Requests, M!PullStatuses
      <3>5. RequestOK([w EXCEPT !.stage = "answered", !.seen = "refused"])
        BY <1>1, <3>2 DEF RequestOK, Requests, M!PullStatuses
      <3>6. w \in Requests
        BY <1>1 DEF RequestOK
      <3>7. QED
        BY <3>1, <3>4, <3>5, <3>6 DEF M!Moved, Requests
    <2>2. CASE M!PollServed(w)
      <3>1. w.op = "poll" /\ w.id \in Pulls /\ pullWire' = M!Moved(w, "answered", pullRow[w.id])
        BY <1>1, <2>2 DEF M!PollServed, RequestOK
      <3>2. pullRow[w.id] \in M!PullStatuses /\ pullRow[w.id] # "refused"
        BY <3>1 DEF M!PullTypeOK, M!PullStatuses
      <3>3. RequestOK([w EXCEPT !.stage = "answered", !.seen = pullRow[w.id]])
        BY <1>1, <3>1, <3>2 DEF RequestOK, Requests
      <3>4. w \in Requests
        BY <1>1 DEF RequestOK
      <3>5. QED
        BY <3>1, <3>3, <3>4 DEF M!Moved, Requests
    <2>3. CASE M!CancelKills(w) \/ M!CancelWrites(w)
      <3>1. w.op = "cancel" /\ w.id \in Pulls /\ w \in Requests
        BY <1>1, <2>3 DEF M!CancelKills, M!CancelWrites, RequestOK
      <3>2. RequestOK([w EXCEPT !.stage = "answered", !.seen = "refused"])
        BY <3>1 DEF RequestOK, Requests, M!PullStatuses
      <3>3. RequestOK([w EXCEPT !.stage = "killed", !.seen = "none"])
        BY <3>1 DEF RequestOK, Requests, M!PullStatuses
      <3>4. RequestOK([w EXCEPT !.stage = "answered", !.seen = "cancelled"])
        BY <3>1 DEF RequestOK, Requests, M!PullStatuses
      <3>5. QED
        BY <2>3, <3>1, <3>2, <3>3, <3>4 DEF M!CancelKills, M!CancelWrites, M!Moved, Requests
    <2>4. QED
      BY <2>1, <2>2, <2>3
  <1>3. WireOK' /\ HereIsOpen' /\ LeftIsEmpty'
    BY <1>1, <1>2 DEF M!page, WireOK, HereIsOpen, LeftIsEmpty
  <1>4. /\ pullRow' \in [Pulls -> M!PullStatuses]
        /\ pullProc' \in [Pulls -> {"none", "runs", "ok", "bad"}]
        /\ monitors' \subseteq Pulls
        /\ NoRowNoProcess' /\ M!RowsTellTheEnd'
    <2>1. CASE M!StartServed(w)
      <3>1. PICK p \in Pulls :
              /\ M!Newest(p)
              /\ pullRow' = [pullRow EXCEPT ![p] = "pulling"]
              /\ \/ /\ pullProc' = [pullProc EXCEPT ![p] = "runs"]
                    /\ monitors' = monitors \union {p}
                 \/ UNCHANGED <<pullProc, monitors>>
        BY <2>1 DEF M!StartServed
      <3>2. pullRow[p] = "none" /\ pullProc[p] = "none"
        BY <3>1 DEF M!Newest, M!Unused, NoRowNoProcess
      <3>3. /\ pullRow' \in [Pulls -> M!PullStatuses]
            /\ pullProc' \in [Pulls -> {"none", "runs", "ok", "bad"}] /\ monitors' \subseteq Pulls
        BY <3>1 DEF M!PullTypeOK, M!PullStatuses
      <3>4. NoRowNoProcess'
        BY <3>1, <3>2 DEF NoRowNoProcess, M!PullTypeOK
      <3>5. M!RowsTellTheEnd'
        BY <1>1, <3>1, <3>2 DEF M!PullsAccounted, M!RowsTellTheEnd, M!PullTypeOK
      <3>6. QED
        BY <3>3, <3>4, <3>5
    <2>2. CASE M!PollServed(w)
      BY <2>2 DEF M!PollServed, M!server, M!PullTypeOK, NoRowNoProcess, M!PullsAccounted,
         M!RowsTellTheEnd
    <2>3. CASE M!CancelKills(w)
      <3>1. w.id \in Pulls /\ UNCHANGED <<pullRow, monitors>>
        BY <1>1, <2>3 DEF M!CancelKills, RequestOK
      <3>2. CASE pullProc[w.id] = "none"
        BY <1>1, <2>3, <3>1, <3>2
           DEF M!CancelKills, M!PullTypeOK, NoRowNoProcess, M!PullsAccounted,
           M!RowsTellTheEnd
      <3>3. CASE pullProc[w.id] # "none"
        <4>1. pullProc' = [pullProc EXCEPT ![w.id] = IF @ = "runs" THEN "bad" ELSE @]
          BY <2>3, <3>3 DEF M!CancelKills
        <4>2. pullProc' \in [Pulls -> {"none", "runs", "ok", "bad"}]
          BY <3>1, <4>1 DEF M!PullTypeOK
        <4>3. \A p \in Pulls : /\ pullProc[p] = "none" <=> pullProc'[p] = "none"
                               /\ pullProc[p] = "ok" <=> pullProc'[p] = "ok"
          BY <3>1, <3>3, <4>1 DEF M!PullTypeOK
        <4>4. QED
          BY <1>1, <3>1, <4>2, <4>3
             DEF M!PullTypeOK, NoRowNoProcess, M!PullsAccounted, M!RowsTellTheEnd
      <3>4. QED
        BY <3>2, <3>3
    <2>4. CASE M!CancelWrites(w)
      <3>1. w.id \in Pulls /\ UNCHANGED <<pullProc, monitors>>
            /\ pullRow' = [pullRow EXCEPT ![w.id] = "cancelled"]
        BY <1>1, <2>4 DEF M!CancelWrites, RequestOK
      <3>2. QED
        BY <1>1, <3>1 DEF M!PullTypeOK, M!PullStatuses, NoRowNoProcess, M!PullsAccounted,
           M!RowsTellTheEnd
    <2>5. QED
      BY <2>1, <2>2, <2>3, <2>4
  <1>5. M!PullsAccounted'
    BY <1>1, <1>4 DEF M!page, M!PullsAccounted
  <1>6. \A v \in pullWire' : v.op \in {"start", "poll", "cancel"}
        /\ v.seen \in M!PullStatuses \union {"refused"}
    BY <1>3 DEF WireOK, RequestOK, Requests
  <1>7. M!PullTypeOK'
    BY <1>1, <1>4, <1>6 DEF M!page, M!PullTypeOK
  <1>8. QED
    BY <1>3, <1>4, <1>5, <1>7

\* Processes that end, their threads, a restart and lost answers keep it.
LEMMA DaemonKept ==
  ASSUME M!PullAssumption, PullInv,
         M!Restart \/ (\E p \in Pulls : M!ProcessEnds(p) \/ M!MonitorWrites(p))
           \/ (\E w \in pullWire : M!Lost(w))
  PROVE  PullInv'
  <1> USE DEF PullInv
  <1>1. CASE M!Restart
    <2>1. UNCHANGED <<pullRow, pullProc, M!page, lost>> /\ restarted' = TRUE /\ monitors' = {}
          /\ pullWire' \subseteq pullWire
      BY <1>1 DEF M!Restart
    <2>2. NoRowNoProcess' /\ LeftIsEmpty' /\ M!PullsAccounted' /\ WireOK' /\ HereIsOpen'
      BY <2>1 DEF M!page, NoRowNoProcess, LeftIsEmpty, M!PullsAccounted, M!RowsTellTheEnd,
         WireOK, HereIsOpen
    <2>3. M!PullTypeOK'
      BY <2>1 DEF M!page, M!PullTypeOK
    <2>4. QED
      BY <2>2, <2>3
  <1>2. ASSUME NEW p \in Pulls, M!ProcessEnds(p) PROVE PullInv'
    <2>1. UNCHANGED <<pullRow, monitors, restarted, M!page, pullWire, lost>>
          /\ pullProc[p] = "runs"
      BY <1>2 DEF M!ProcessEnds
    <2>2. PICK code \in {"ok", "bad"} : pullProc' = [pullProc EXCEPT ![p] = code]
      BY <1>2 DEF M!ProcessEnds
    <2>3. NoRowNoProcess'
      BY <2>1, <2>2 DEF NoRowNoProcess, M!PullTypeOK
    <2>4. M!RowsTellTheEnd'
      BY <2>1, <2>2 DEF M!PullsAccounted, M!RowsTellTheEnd, M!PullTypeOK
    <2>5. LeftIsEmpty' /\ M!PullsAccounted' /\ WireOK' /\ HereIsOpen'
      BY <2>1, <2>4 DEF M!page, LeftIsEmpty, M!PullsAccounted, WireOK, HereIsOpen
    <2>6. M!PullTypeOK'
      BY <2>1, <2>2 DEF M!page, M!PullTypeOK
    <2>7. QED
      BY <2>3, <2>5, <2>6
  <1>3. ASSUME NEW p \in Pulls, M!MonitorWrites(p) PROVE PullInv'
    <2>1. /\ UNCHANGED <<pullProc, restarted, M!page, pullWire, lost>>
             /\ monitors' = monitors \ {p}
          /\ pullRow' =
               [pullRow EXCEPT ![p] = IF pullProc[p] = "ok" THEN "completed" ELSE "failed"]
      BY <1>3 DEF M!MonitorWrites
    <2>2. pullRow' \in [Pulls -> M!PullStatuses]
      BY <2>1 DEF M!PullTypeOK, M!PullStatuses
    <2>3. NoRowNoProcess'
      BY <2>1 DEF NoRowNoProcess, M!PullTypeOK
    <2>4. M!RowsTellTheEnd'
      BY <2>1 DEF M!PullsAccounted, M!RowsTellTheEnd, M!PullTypeOK
    <2>5. LeftIsEmpty' /\ M!PullsAccounted' /\ WireOK' /\ HereIsOpen'
      BY <2>1, <2>4 DEF M!page, LeftIsEmpty, M!PullsAccounted, WireOK, HereIsOpen
    <2>6. M!PullTypeOK'
      BY <2>1, <2>2 DEF M!page, M!PullTypeOK
    <2>7. QED
      BY <2>3, <2>5, <2>6
  <1>4. ASSUME NEW w \in pullWire, M!Lost(w) PROVE PullInv'
    <2>1. UNCHANGED <<M!server, modelsOpen, activePulls, pullIntervals, overtaken>>
          /\ pullWire' \subseteq pullWire
      BY <1>4 DEF M!Lost
    <2>2. NoRowNoProcess' /\ LeftIsEmpty' /\ M!PullsAccounted' /\ WireOK' /\ HereIsOpen'
      BY <2>1 DEF M!server, NoRowNoProcess, LeftIsEmpty, M!PullsAccounted,
         M!RowsTellTheEnd, WireOK, HereIsOpen
    <2>3. lost' \in 0..MaxLost
      <3>1. lost \in 0..MaxLost /\ lost < MaxLost /\ lost' = lost + 1
        BY <1>4 DEF M!Lost, M!PullTypeOK
      <3>2. QED
        BY <3>1 DEF M!PullAssumption
    <2>4. pullError' \in BOOLEAN
      <3>1. (pullError \/ (w.here /\ w.op # "poll")) \in BOOLEAN
        OBVIOUS
      <3>2. QED
        BY <1>4, <3>1 DEF M!Lost
    <2>5. M!PullTypeOK'
      BY <2>1, <2>3, <2>4 DEF M!server, M!PullTypeOK
    <2>6. QED
      BY <2>2, <2>5
  <1>5. QED
    BY <1>1, <1>2, <1>3, <1>4

\* A row that pulls is asked about, or is the ghost of a late answer; a thread and a process
\* have their row; completed is said of what was (ModelPull, ModelsTab).
THEOREM PullsRun == M!PullSpec => [](M!PullTypeOK /\ M!PullsAccounted)
  <1> M!PullAssumption
    BY DashboardAssumption DEF DashboardAssumption
  <1>1. M!Init => PullInv
    <2> SUFFICES ASSUME M!Init PROVE PullInv
      OBVIOUS
    <2>1. pullRow \in [Pulls -> M!PullStatuses] /\ activePulls \in [Pulls -> M!PullStatuses]
          /\ pullProc \in [Pulls -> {"none", "runs", "ok", "bad"}]
      BY DEF M!Init, M!Empty, M!PullStatuses
    <2>2. lost \in 0..MaxLost
      BY DEF M!Init, M!PullAssumption
    <2>3. M!PullTypeOK
      BY <2>1, <2>2 DEF M!Init, M!PullTypeOK
    <2>4. WireOK /\ HereIsOpen /\ NoRowNoProcess /\ LeftIsEmpty /\ M!PullsAccounted
      BY DEF M!Init, M!Empty, WireOK, HereIsOpen, NoRowNoProcess, LeftIsEmpty,
         M!PullsAccounted, M!RowsTellTheEnd
    <2>5. QED
      BY <2>3, <2>4 DEF PullInv
  <1>2. PullInv /\ [M!Next]_(M!pullVars) => PullInv'
    <2>1. ASSUME PullInv, UNCHANGED M!pullVars PROVE PullInv'
      BY <2>1 DEF M!pullVars, M!server, M!page, PullInv, M!PullTypeOK, WireOK, HereIsOpen,
         NoRowNoProcess, LeftIsEmpty, M!PullsAccounted, M!RowsTellTheEnd
    <2>2. ASSUME PullInv, M!Next PROVE PullInv'
      BY <2>2, PullPageKept, PullLandingKept, PullServedKept, DaemonKept
         DEF M!Next, M!PollAsked, M!PollAnswered
    <2>3. QED
      BY <2>1, <2>2
  <1>3. PullInv => M!PullTypeOK /\ M!PullsAccounted
    BY DEF PullInv
  <1>4. QED
    BY <1>1, <1>2, <1>3, PTL DEF M!PullSpec

-----------------------------------------------------------------------------
\* Dead letters: DeadLetterPage.

\* A call is of its kind; one of a row's button names a row.
LetterStages == {"shatter", "sent", "retrying", "done", "refused", "list sent", "list read"}
CallType ==
    [op : D!RowOps \union D!ListOps \union {"list"}, id : Entries \union {NoEntry},
     stage : LetterStages,
             seen : [open : SUBSET Entries, rescheduled : SUBSET Entries], older : BOOLEAN]
CallOK(c) ==
    /\ c \in CallType
    /\ c.op \in D!RowOps => c.id \in Entries
    /\ c.stage = "shatter" => c.op \in D!RowOps \union D!ListOps
    /\ c.stage = "list read" => c.seen.rescheduled \subseteq c.seen.open
CallsOK == \A c \in letterCalls : CallOK(c)
ButtonsOK == letterBusy \subseteq (D!RowOps \union D!ListOps) \X (Entries \union {NoEntry})
AbsentIsNew == \A e \in Entries : resolution[e] = "absent" => requeued[e] = 0

\* What will read the list again, and what has an answer to give.  An answer that is not
\* known to be older than what the page missed is the truth, or the list is read after it.
WillRead == \E d \in letterCalls : d.stage \in {"retrying", "done", "list sent"}
Coming == WillRead \/ \E d \in letterCalls : d.stage = "list read"
AnswersTrue ==
    \A c \in letterCalls : c.stage = "list read" /\ ~c.older => c.seen = D!Snapshot \/ WillRead
ListTrue == ~letterMissed => letterList = D!Snapshot \/ Coming

LetterInv ==
    /\ D!LetterTypeOK /\ CallsOK /\ ButtonsOK /\ AbsentIsNew
    /\ D!RetriedOnce /\ D!BusyIsUnderWay /\ AnswersTrue /\ ListTrue

\* The list that is read is of entries, the rescheduled ones among the open.
LEMMA SnapshotTyped ==
  ASSUME D!LetterTypeOK
  PROVE  /\ D!Snapshot \in [open : SUBSET Entries, rescheduled : SUBSET Entries]
         /\ D!Snapshot.rescheduled \subseteq D!Snapshot.open
  BY DEF D!LetterTypeOK, D!Snapshot, D!Open

\* Some calls are marked as older: nothing else of them changes.
AgedOf(cs) ==
    /\ \A r \in D!Aged(cs) : CallOK(r) /\ (r.stage = "list read" => r.older)
    /\ \A r \in D!Aged(cs) : \E c \in cs : r.op = c.op /\ r.id = c.id /\ r.stage = c.stage
    /\ \A c \in cs : \E r \in D!Aged(cs) : r.op = c.op /\ r.id = c.id /\ r.stage = c.stage

\* Calls that age are the same calls (a later write made what they saw old).
LEMMA Ageing ==
  ASSUME NEW cs \in SUBSET letterCalls, CallsOK
  PROVE  AgedOf(cs)
  <1>1. ASSUME NEW c \in cs
        PROVE  /\ CallOK(c)
               /\ [c EXCEPT !.older = TRUE].op = c.op /\ [c EXCEPT !.older = TRUE].id = c.id
               /\ [c EXCEPT !.older = TRUE].stage = c.stage /\ [c EXCEPT !.older = TRUE].older
               /\ CallOK([c EXCEPT !.older = TRUE])
    <2>1. CallOK(c)
      BY DEF CallsOK
    <2>2. QED
      BY <2>1 DEF CallOK, CallType
  <1>2. ASSUME NEW r \in D!Aged(cs)
        PROVE  /\ CallOK(r)
               /\ r.stage = "list read" => r.older
               /\ \E c \in cs : r.op = c.op /\ r.id = c.id /\ r.stage = c.stage
    <2>1. PICK c \in cs : r = IF c.stage = "list read" THEN [c EXCEPT !.older = TRUE] ELSE c
      BY DEF D!Aged
    <2>2. QED
      BY <1>1, <2>1
  <1>3. ASSUME NEW c \in cs
        PROVE  \E r \in D!Aged(cs) : r.op = c.op /\ r.id = c.id /\ r.stage = c.stage
    <2>1. (IF c.stage = "list read" THEN [c EXCEPT !.older = TRUE] ELSE c) \in D!Aged(cs)
      BY DEF D!Aged
    <2>2. QED
      BY <1>1, <2>1
  <1>4. QED
    BY <1>2, <1>3 DEF AgedOf

\* The page's buttons add a call, or none.
LEMMA LetterPressKept ==
  ASSUME D!LetterAssumption, LetterInv,
         \/ D!OpenHistory \/ D!LeaveHistory
         \/ \E e \in Entries, op \in D!RowOps : D!Press(op, e)
         \/ \E op \in D!ListOps : D!PressAll(op)
  PROVE  LetterInv'
  <1> USE DEF LetterInv
  <1>1. UNCHANGED <<D!letters, letterList, letterMissed>> /\ historyOpen' \in BOOLEAN
    BY DEF D!OpenHistory, D!LeaveHistory, D!Press, D!PressAll, D!LetterTypeOK
  <1>2. D!Snapshot' = D!Snapshot
    BY <1>1 DEF D!letters, D!Snapshot, D!Open
  <1>3. AbsentIsNew' /\ D!RetriedOnce'
    BY <1>1 DEF D!letters, AbsentIsNew, D!RetriedOnce
  <1>4. /\ letterCalls \subseteq letterCalls'
        /\ \A r \in letterCalls' \ letterCalls : CallOK(r) /\ r.stage # "list read"
        /\ letterBusy' \subseteq letterBusy \union {<<r.op, r.id>> : r \in letterCalls'}
        /\ letterBusy' \subseteq (D!RowOps \union D!ListOps) \X (Entries \union {NoEntry})
    <2>1. CASE D!OpenHistory
      <3>1. CallOK(D!Call("list", NoEntry, "list sent"))
            /\ D!Call("list", NoEntry, "list sent").stage # "list read"
        BY DEF CallOK, CallType, D!Call, LetterStages, D!NothingListed, D!RowOps, D!ListOps
      <3>2. QED
        BY <2>1, <3>1 DEF D!OpenHistory, ButtonsOK
    <2>2. CASE D!LeaveHistory
      BY <2>2 DEF D!LeaveHistory
    <2>3. ASSUME NEW e \in Entries, NEW op \in D!RowOps, D!Press(op, e)
          PROVE  /\ letterCalls \subseteq letterCalls'
                 /\ \A r \in letterCalls' \ letterCalls : CallOK(r) /\ r.stage # "list read"
                 /\ letterBusy' \subseteq letterBusy \union {<<r.op, r.id>> : r \in letterCalls'}
                 /\ letterBusy' \subseteq (D!RowOps \union D!ListOps) \X (Entries
                                                                          \union {NoEntry})
      <3> DEFINE new == D!Call(op, e, IF op = "dismiss" THEN "shatter" ELSE "sent")
      <3>1. CallOK(new) /\ new.stage # "list read" /\ new.op = op /\ new.id = e
        BY DEF CallOK, CallType, D!Call, LetterStages, D!NothingListed, D!RowOps, D!ListOps
      <3>2. letterCalls' = letterCalls \union {new}
            /\ letterBusy' \subseteq letterBusy \union {<<op, e>>}
        BY <2>3 DEF D!Press
      <3> HIDE DEF new
      <3>3. <<op, e>> \in (D!RowOps \union D!ListOps) \X (Entries \union {NoEntry})
        OBVIOUS
      <3>4. letterBusy' \subseteq (D!RowOps \union D!ListOps) \X (Entries \union {NoEntry})
        BY <3>2, <3>3 DEF ButtonsOK
      <3>5. QED
        BY <3>1, <3>2, <3>4
    <2>4. ASSUME NEW op \in D!ListOps, D!PressAll(op)
          PROVE  /\ letterCalls \subseteq letterCalls'
                 /\ \A r \in letterCalls' \ letterCalls : CallOK(r) /\ r.stage # "list read"
                 /\ letterBusy' \subseteq letterBusy \union {<<r.op, r.id>> : r \in letterCalls'}
                 /\ letterBusy' \subseteq (D!RowOps \union D!ListOps) \X (Entries
                                                                          \union {NoEntry})
      <3> DEFINE new == D!Call(op, NoEntry, IF op = "clear" THEN "shatter" ELSE "sent")
      <3>1. CallOK(new) /\ new.stage # "list read" /\ new.op = op /\ new.id = NoEntry
        BY DEF CallOK, CallType, D!Call, LetterStages, D!NothingListed, D!RowOps, D!ListOps
      <3>2. letterCalls' = letterCalls \union {new}
            /\ letterBusy' \subseteq letterBusy \union {<<op, NoEntry>>}
        BY <2>4 DEF D!PressAll
      <3> HIDE DEF new
      <3>3. <<op, NoEntry>> \in (D!RowOps \union D!ListOps) \X (Entries \union {NoEntry})
        OBVIOUS
      <3>4. letterBusy' \subseteq (D!RowOps \union D!ListOps) \X (Entries \union {NoEntry})
        BY <3>2, <3>3 DEF ButtonsOK
      <3>5. QED
        BY <3>1, <3>2, <3>4
    <2>5. QED
      BY <2>1, <2>2, <2>3, <2>4
  <1>5. CallsOK' /\ ButtonsOK'
    BY <1>4 DEF CallsOK, ButtonsOK
  <1>6. D!BusyIsUnderWay'
    <2>1. ASSUME NEW b \in letterBusy' PROVE \E c \in letterCalls' : c.op = b[1] /\ c.id = b[2]
      <3>1. CASE b \in letterBusy
        BY <1>4, <3>1 DEF D!BusyIsUnderWay
      <3>2. CASE b \in {<<r.op, r.id>> : r \in letterCalls'}
        BY <3>2
      <3>3. QED
        BY <1>4, <3>1, <3>2
    <2>2. QED
      BY <2>1 DEF D!BusyIsUnderWay
  <1>7. WillRead => WillRead'
    BY <1>4 DEF WillRead
  <1>8. AnswersTrue' /\ ListTrue'
    BY <1>1, <1>2, <1>4, <1>7 DEF AnswersTrue, ListTrue, Coming
  <1>9. D!LetterTypeOK'
    <2>1. \A b \in letterBusy' : b[1] \in D!RowOps \union D!ListOps
          /\ b[2] \in Entries \union {NoEntry}
      BY <1>4
    <2>2. \A c \in letterCalls' : c.id \in Entries \union {NoEntry}
      BY <1>5 DEF CallsOK, CallOK, CallType
    <2>3. QED
      BY <1>1, <2>1, <2>2 DEF D!LetterTypeOK, D!letters
  <1>10. QED
    BY <1>3, <1>5, <1>6, <1>8, <1>9

\* A call goes a step further.  What it changes of the letters the list is read after.
LEMMA LetterStepKept ==
  ASSUME LetterInv, NEW c \in letterCalls, NEW r, CallOK(r), r.op = c.op, r.id = c.id,
         letterCalls' = D!Without(c) \union {r},
         c.stage \in {"retrying", "done", "list sent"}
           => r.stage \in {"retrying", "done", "list sent"},
         c.stage # "list read", r.stage # "list read",
         D!Snapshot' = D!Snapshot \/ r.stage \in {"retrying", "done", "list sent"},
         UNCHANGED <<letterList, letterMissed>>,
         letterBusy' = letterBusy
           \/ (letterBusy' = letterBusy \union {<<c.op, c.id>>}
               /\ c.op \in D!RowOps \union D!ListOps)
  PROVE  CallsOK' /\ ButtonsOK' /\ D!BusyIsUnderWay' /\ AnswersTrue' /\ ListTrue'
  <1> USE DEF LetterInv
  <1>1. CallsOK'
    BY DEF CallsOK, D!Without
  <1>2. ButtonsOK'
    <2>1. c.id \in Entries \union {NoEntry}
      BY DEF D!LetterTypeOK
    <2>2. c.op \in D!RowOps \union D!ListOps
            => <<c.op, c.id>> \in (D!RowOps \union D!ListOps) \X (Entries \union {NoEntry})
      BY <2>1
    <2>3. QED
      BY <2>2 DEF ButtonsOK
  <1>3. D!BusyIsUnderWay'
    <2>1. ASSUME NEW b \in letterBusy' PROVE \E d \in letterCalls' : d.op = b[1] /\ d.id = b[2]
      <3>1. CASE b \in letterBusy
        <4>1. PICK d \in letterCalls : d.op = b[1] /\ d.id = b[2]
          BY <3>1 DEF D!BusyIsUnderWay
        <4>2. QED
          BY <4>1 DEF D!Without
      <3>2. CASE b = <<c.op, c.id>>
        BY <3>2
      <3>3. QED
        BY <3>1, <3>2
    <2>2. QED
      BY <2>1 DEF D!BusyIsUnderWay
  <1>4. WillRead => WillRead'
    BY DEF WillRead, D!Without
  <1>5. r.stage \in {"retrying", "done", "list sent"} => WillRead'
    BY DEF WillRead
  <1>6. AnswersTrue'
    BY <1>4, <1>5 DEF AnswersTrue, D!Without
  <1>7. ListTrue'
    <2>1. Coming => Coming'
      BY <1>4 DEF Coming, D!Without
    <2>2. QED
      BY <1>5, <2>1 DEF ListTrue, Coming
  <1>8. QED
    BY <1>1, <1>2, <1>3, <1>6, <1>7

\* A call on its way changes only what it is at; the type of the call it becomes.
LEMMA StepTyped ==
  ASSUME NEW c, CallOK(c), NEW s \in LetterStages \ {"shatter", "list read"}
  PROVE  /\ CallOK([c EXCEPT !.stage = s])
         /\ [c EXCEPT !.stage = s].op = c.op /\ [c EXCEPT !.stage = s].id = c.id
         /\ [c EXCEPT !.stage = s].stage = s
  BY DEF CallOK, CallType

\* A step of the server's table leaves the page's signals what they are.
LEMMA TypeKept ==
  ASSUME LetterInv, CallsOK', ButtonsOK', UNCHANGED <<historyOpen, letterList, letterMissed>>,
         resolution' \in [Entries -> {"absent", "open", "retried", "dismissed", "deleted"}],
         rescheduled' \subseteq Entries, requeued' \in [Entries -> Nat]
  PROVE  D!LetterTypeOK'
  <1>1. \A b \in letterBusy' : b[1] \in D!RowOps \union D!ListOps
        /\ b[2] \in Entries \union {NoEntry}
    BY DEF ButtonsOK
  <1>2. \A c \in letterCalls' : c.id \in Entries \union {NoEntry}
    BY DEF CallsOK, CallOK, CallType
  <1>3. QED
    BY <1>1, <1>2 DEF LetterInv, D!LetterTypeOK

\* An open entry is made a job of.
LEMMA RetriedKept ==
  ASSUME LetterInv, NEW e \in Entries, resolution[e] = "open", D!Retried(e)
  PROVE  /\ resolution' \in [Entries -> {"absent", "open", "retried", "dismissed", "deleted"}]
         /\ rescheduled' \subseteq Entries /\ requeued' \in [Entries -> Nat]
         /\ AbsentIsNew' /\ D!RetriedOnce'
  <1> USE DEF LetterInv
  <1>1. requeued[e] = 0
    BY DEF D!RetriedOnce
  <1>2. /\ requeued' = [requeued EXCEPT ![e] = 1]
           /\ resolution' = [resolution EXCEPT ![e] = "retried"]
        /\ rescheduled' = rescheduled
    BY <1>1 DEF D!Retried, D!LetterTypeOK
  <1>3. AbsentIsNew'
    BY <1>2 DEF D!LetterTypeOK, AbsentIsNew
  <1>4. D!RetriedOnce'
    BY <1>2 DEF D!LetterTypeOK, D!RetriedOnce
  <1>5. QED
    BY <1>2, <1>3, <1>4 DEF D!LetterTypeOK

\* What the server does for a call keeps LetterInv.
LEMMA LetterServedKept ==
  ASSUME D!LetterAssumption, LetterInv, NEW c \in letterCalls,
         \/ D!ShatterEnds(c) \/ D!RetryServed(c) \/ D!DismissServed(c) \/ D!RescheduleServed(c)
         \/ D!RetryAllReads(c) \/ D!RetryAllGoesOn(c) \/ D!ClearServed(c) \/ D!Refetch(c)
  PROVE  LetterInv'
  <1> USE DEF LetterInv
  <1>1. CallOK(c) /\ UNCHANGED <<historyOpen, letterList, letterMissed>>
    BY DEF CallsOK, D!ShatterEnds, D!RetryServed, D!DismissServed, D!RescheduleServed,
       D!RetryAllReads, D!RetryAllGoesOn, D!ClearServed, D!Refetch
  <1>2. ASSUME UNCHANGED D!letters
        PROVE  /\ D!Snapshot' = D!Snapshot
               /\ resolution' \in [Entries -> {"absent", "open", "retried", "dismissed",
                                               "deleted"}]
               /\ rescheduled' \subseteq Entries /\ requeued' \in [Entries -> Nat]
               /\ AbsentIsNew' /\ D!RetriedOnce'
    BY <1>2 DEF D!letters, D!Snapshot, D!Open, D!LetterTypeOK, AbsentIsNew, D!RetriedOnce
  <1>3. ASSUME NEW s \in LetterStages \ {"shatter", "list read"}
        PROVE  /\ CallOK([c EXCEPT !.stage = s])
               /\ [c EXCEPT !.stage = s].op = c.op /\ [c EXCEPT !.stage = s].id = c.id
               /\ [c EXCEPT !.stage = s].stage = s
    BY <1>1, StepTyped
  <1> DEFINE given == [c EXCEPT !.stage = "sent"]
             done == [c EXCEPT !.stage = "done"]
             refused == [c EXCEPT !.stage = "refused"]
             asked == [c EXCEPT !.stage = "list sent"]
  <1>4. /\ CallOK(given) /\ given.op = c.op /\ given.id = c.id /\ given.stage = "sent"
        /\ CallOK(done) /\ done.op = c.op /\ done.id = c.id /\ done.stage = "done"
        /\ CallOK(refused) /\ refused.op = c.op /\ refused.id = c.id /\ refused.stage = "refused"
        /\ CallOK(asked) /\ asked.op = c.op /\ asked.id = c.id /\ asked.stage = "list sent"
    BY <1>3 DEF LetterStages
  <1>5. /\ D!Step(c, "sent") = D!Without(c) \union {given}
           /\ D!Step(c, "done") = D!Without(c) \union {done}
        /\ D!Step(c, "refused") = D!Without(c) \union {refused}
           /\ D!Step(c, "list sent") = D!Without(c) \union {asked}
    BY DEF D!Step
  <1> HIDE DEF given, done, refused, asked
  <1>6. CASE D!ShatterEnds(c)
    <2>1. c.stage = "shatter" /\ letterCalls' = D!Without(c) \union {given} /\ UNCHANGED D!letters
      BY <1>5, <1>6 DEF D!ShatterEnds
    <2>2. letterBusy' = letterBusy
          \/ (letterBusy' = letterBusy \union {<<c.op, c.id>>}
              /\ c.op \in D!RowOps \union D!ListOps)
      BY <1>1, <1>6 DEF D!ShatterEnds, CallOK
    <2>3. CallsOK' /\ ButtonsOK' /\ D!BusyIsUnderWay' /\ AnswersTrue' /\ ListTrue'
      BY <1>1, <1>2, <1>4, <2>1, <2>2, LetterStepKept
    <2>4. QED
      BY <1>1, <1>2, <2>1, <2>3, TypeKept
  <1>7. CASE D!Refetch(c)
    <2>1. c.stage = "done" /\ letterCalls' = D!Without(c) \union {asked} /\ UNCHANGED D!letters
          /\ letterBusy' = letterBusy
      BY <1>5, <1>7 DEF D!Refetch
    <2>2. CallsOK' /\ ButtonsOK' /\ D!BusyIsUnderWay' /\ AnswersTrue' /\ ListTrue'
      BY <1>1, <1>2, <1>4, <2>1, LetterStepKept
    <2>3. QED
      BY <1>1, <1>2, <2>1, <2>2, TypeKept
  <1>8. CASE D!RetryServed(c)
    <2>1. c.stage = "sent" /\ c.id \in Entries /\ letterBusy' = letterBusy
      BY <1>1, <1>8 DEF D!RetryServed, CallOK, D!RowOps
    <2>2. CASE resolution[c.id] = "open"
      <3>1. D!Retried(c.id) /\ letterCalls' = D!Without(c) \union {done}
        BY <1>5, <1>8, <2>2 DEF D!RetryServed
      <3>2. CallsOK' /\ ButtonsOK' /\ D!BusyIsUnderWay' /\ AnswersTrue' /\ ListTrue'
        BY <1>1, <1>4, <2>1, <3>1, LetterStepKept
      <3>3. QED
        BY <1>1, <2>1, <2>2, <3>1, <3>2, RetriedKept, TypeKept
    <2>3. CASE resolution[c.id] # "open"
      <3>1. UNCHANGED D!letters /\ letterCalls' = D!Without(c) \union {refused}
        BY <1>5, <1>8, <2>3 DEF D!RetryServed
      <3>2. CallsOK' /\ ButtonsOK' /\ D!BusyIsUnderWay' /\ AnswersTrue' /\ ListTrue'
        BY <1>1, <1>2, <1>4, <2>1, <3>1, LetterStepKept
      <3>3. QED
        BY <1>1, <1>2, <3>1, <3>2, TypeKept
    <2>4. QED
      BY <2>2, <2>3
  <1>9. CASE D!DismissServed(c)
    <2>1. c.stage = "sent" /\ c.id \in Entries /\ letterBusy' = letterBusy
          /\ UNCHANGED <<rescheduled, requeued>>
      BY <1>1, <1>9 DEF D!DismissServed, CallOK, D!RowOps
    <2>2. CASE D!Exists(c.id)
      <3>1. resolution' = [resolution EXCEPT ![c.id] = "dismissed"]
            /\ letterCalls' = D!Without(c) \union {done}
        BY <1>5, <1>9, <2>2 DEF D!DismissServed
      <3>2. CallsOK' /\ ButtonsOK' /\ D!BusyIsUnderWay' /\ AnswersTrue' /\ ListTrue'
        BY <1>1, <1>4, <2>1, <3>1, LetterStepKept
      <3>3. AbsentIsNew' /\ D!RetriedOnce'
        BY <2>1, <3>1 DEF D!LetterTypeOK, AbsentIsNew, D!RetriedOnce
      <3>4. resolution' \in [Entries -> {"absent", "open", "retried", "dismissed", "deleted"}]
        BY <3>1 DEF D!LetterTypeOK
      <3>5. D!LetterTypeOK'
        BY <1>1, <2>1, <3>2, <3>4, TypeKept DEF D!LetterTypeOK
      <3>6. QED
        BY <3>2, <3>3, <3>5
    <2>3. CASE ~D!Exists(c.id)
      <3>1. UNCHANGED D!letters /\ letterCalls' = D!Without(c) \union {refused}
        BY <1>5, <1>9, <2>1, <2>3 DEF D!DismissServed, D!letters
      <3>2. CallsOK' /\ ButtonsOK' /\ D!BusyIsUnderWay' /\ AnswersTrue' /\ ListTrue'
        BY <1>1, <1>2, <1>4, <2>1, <3>1, LetterStepKept
      <3>3. QED
        BY <1>1, <1>2, <3>1, <3>2, TypeKept
    <2>4. QED
      BY <2>2, <2>3
  <1>10. CASE D!RescheduleServed(c)
    <2>1. /\ c.stage = "sent" /\ c.id \in Entries /\ letterBusy' = letterBusy
             /\ UNCHANGED <<resolution, requeued>>
          /\ \/ rescheduled' = rescheduled \union {c.id}
                /\ letterCalls' = D!Without(c) \union {done}
             \/ UNCHANGED rescheduled /\ letterCalls' = D!Without(c) \union {refused}
      BY <1>1, <1>5, <1>10 DEF D!RescheduleServed, CallOK, D!RowOps
    <2>2. CallsOK' /\ ButtonsOK' /\ D!BusyIsUnderWay' /\ AnswersTrue' /\ ListTrue'
      <3>1. CASE rescheduled' = rescheduled /\ letterCalls' = D!Without(c) \union {refused}
        <4>1. D!Snapshot' = D!Snapshot
          BY <2>1, <3>1, <1>2 DEF D!letters
        <4>2. QED
          BY <1>1, <1>4, <2>1, <3>1, <4>1, LetterStepKept
      <3>2. CASE letterCalls' = D!Without(c) \union {done}
        BY <1>1, <1>4, <2>1, <3>2, LetterStepKept
      <3>3. QED
        BY <2>1, <3>1, <3>2
    <2>3. AbsentIsNew' /\ D!RetriedOnce'
      BY <2>1 DEF AbsentIsNew, D!RetriedOnce
    <2>4. D!LetterTypeOK'
      <3>1. /\ resolution' \in [Entries -> {"absent", "open", "retried", "dismissed", "deleted"}]
            /\ rescheduled' \subseteq Entries /\ requeued' \in [Entries -> Nat]
        BY <2>1 DEF D!LetterTypeOK
      <3>2. QED
        BY <1>1, <2>2, <3>1, TypeKept
    <2>5. QED
      BY <2>2, <2>3, <2>4
  <1>11. CASE D!RetryAllReads(c)
    <2> DEFINE r == [c EXCEPT !.stage = "retrying", !.seen = D!Snapshot]
    <2>1. CallOK(r) /\ r.op = c.op /\ r.id = c.id /\ r.stage = "retrying"
      BY <1>1, SnapshotTyped DEF CallOK, CallType, LetterStages
    <2>2. c.stage = "sent" /\ letterCalls' = D!Without(c) \union {r} /\ UNCHANGED D!letters
          /\ letterBusy' = letterBusy
      BY <1>11 DEF D!RetryAllReads
    <2> HIDE DEF r
    <2>3. CallsOK' /\ ButtonsOK' /\ D!BusyIsUnderWay' /\ AnswersTrue' /\ ListTrue'
      BY <1>1, <1>2, <2>1, <2>2, LetterStepKept
    <2>4. QED
      BY <1>1, <1>2, <2>2, <2>3, TypeKept
  <1>12. CASE D!RetryAllGoesOn(c)
    <2>1. c.stage = "retrying" /\ letterBusy' = letterBusy
      BY <1>12 DEF D!RetryAllGoesOn
    <2>2. CASE c.seen.open = {}
      <3>1. UNCHANGED D!letters /\ letterCalls' = D!Without(c) \union {done}
        BY <1>5, <1>12, <2>2 DEF D!RetryAllGoesOn
      <3>2. CallsOK' /\ ButtonsOK' /\ D!BusyIsUnderWay' /\ AnswersTrue' /\ ListTrue'
        BY <1>1, <1>2, <1>4, <2>1, <3>1, LetterStepKept
      <3>3. QED
        BY <1>1, <1>2, <3>1, <3>2, TypeKept
    <2>3. CASE c.seen.open # {}
      <3>1. PICK e \in c.seen.open :
              /\ letterCalls' = D!Without(c) \union {[c EXCEPT !.seen.open = @ \ {e}]}
              /\ IF resolution[e] = "open" THEN D!Retried(e) ELSE UNCHANGED D!letters
        BY <1>12, <2>3 DEF D!RetryAllGoesOn
      <3>2. e \in Entries
        BY <1>1 DEF CallOK, CallType
      <3> DEFINE r == [c EXCEPT !.seen.open = @ \ {e}]
      <3>3. CallOK(r) /\ r.op = c.op /\ r.id = c.id /\ r.stage = "retrying"
        BY <1>1, <2>1 DEF CallOK, CallType
      <3> HIDE DEF r
      <3>4. letterCalls' = D!Without(c) \union {r}
        BY <3>1 DEF r
      <3>5. CallsOK' /\ ButtonsOK' /\ D!BusyIsUnderWay' /\ AnswersTrue' /\ ListTrue'
        BY <1>1, <2>1, <3>3, <3>4, LetterStepKept
      <3>6. /\ resolution' \in [Entries -> {"absent", "open", "retried", "dismissed", "deleted"}]
            /\ rescheduled' \subseteq Entries /\ requeued' \in [Entries -> Nat]
            /\ AbsentIsNew' /\ D!RetriedOnce'
        BY <1>2, <3>1, <3>2, RetriedKept
      <3>7. QED
        BY <1>1, <3>5, <3>6, TypeKept
    <2>4. QED
      BY <2>2, <2>3
  <1>13. CASE D!ClearServed(c)
    <2>1. /\ c.stage = "sent" /\ letterBusy' = letterBusy
             /\ letterCalls' = D!Without(c) \union {done}
          /\ UNCHANGED <<rescheduled, requeued>>
          /\ resolution' = [e \in Entries |->
                             IF resolution[e] \in {"retried",
                                                   "dismissed"} THEN "deleted" ELSE resolution[e]]
      BY <1>5, <1>13 DEF D!ClearServed
    <2>2. CallsOK' /\ ButtonsOK' /\ D!BusyIsUnderWay' /\ AnswersTrue' /\ ListTrue'
      BY <1>1, <1>4, <2>1, LetterStepKept
    <2>3. AbsentIsNew' /\ D!RetriedOnce'
      BY <2>1 DEF AbsentIsNew, D!RetriedOnce
    <2>4. resolution' \in [Entries -> {"absent", "open", "retried", "dismissed", "deleted"}]
      BY <2>1 DEF D!LetterTypeOK
    <2>5. D!LetterTypeOK'
      BY <1>1, <2>1, <2>2, <2>4, TypeKept DEF D!LetterTypeOK
    <2>6. QED
      BY <2>2, <2>3, <2>5
  <1>14. QED
    BY <1>6, <1>7, <1>8, <1>9, <1>10, <1>11, <1>12, <1>13

\* A call that is over gives its button back.
LEMMA EndKept ==
  ASSUME LetterInv, NEW c \in letterCalls,
         letterBusy' \subseteq letterBusy \ {<<c.op, c.id>>},
         \A d \in D!Without(c) : \E r \in letterCalls' : r.op = d.op /\ r.id = d.id
  PROVE  ButtonsOK' /\ D!BusyIsUnderWay'
  <1>1. ButtonsOK'
    BY DEF LetterInv, ButtonsOK
  <1>2. ASSUME NEW b \in letterBusy' PROVE \E d \in letterCalls' : d.op = b[1] /\ d.id = b[2]
    <2>1. PICK d \in letterCalls : d.op = b[1] /\ d.id = b[2]
      BY DEF LetterInv, D!BusyIsUnderWay
    <2>2. b = <<b[1], b[2]>>
      BY DEF LetterInv, ButtonsOK
    <2>3. d # c
      BY <2>1, <2>2
    <2>4. QED
      BY <2>1, <2>3 DEF D!Without
  <1>3. QED
    BY <1>1, <1>2 DEF D!BusyIsUnderWay

\* What the page does with an answer, or with none, keeps LetterInv.
LEMMA LetterPageKept ==
  ASSUME D!LetterAssumption, LetterInv, NEW c \in letterCalls,
         D!Refused(c) \/ D!ListRead(c) \/ D!ListLanded(c) \/ D!Lost(c)
  PROVE  LetterInv'
  <1> USE DEF LetterInv
  <1>1. CallOK(c) /\ UNCHANGED <<D!letters, historyOpen>>
    BY DEF CallsOK, D!Refused, D!ListRead, D!ListLanded, D!Lost
  <1>2. D!Snapshot' = D!Snapshot /\ AbsentIsNew' /\ D!RetriedOnce'
    BY <1>1 DEF D!letters, D!Snapshot, D!Open, AbsentIsNew, D!RetriedOnce
  <1>3. AgedOf(D!Without(c))
    <2>1. D!Without(c) \in SUBSET letterCalls
      BY DEF D!Without
    <2>2. QED
      BY <2>1, Ageing
  <1>4. CASE D!Refused(c)
    <2>1. c.stage = "refused" /\ letterCalls' = D!Without(c)
          /\ letterBusy' = letterBusy \ {<<c.op, c.id>>} /\ UNCHANGED <<letterList, letterMissed>>
      BY <1>4 DEF D!Refused
    <2>2. ButtonsOK' /\ D!BusyIsUnderWay'
      BY <2>1, EndKept
    <2>3. CallsOK'
      BY <2>1 DEF CallsOK, D!Without
    <2>4. (WillRead => WillRead') /\ (Coming => Coming')
      BY <2>1 DEF WillRead, Coming, D!Without
    <2>5. AnswersTrue' /\ ListTrue'
      BY <1>2, <2>1, <2>4 DEF AnswersTrue, ListTrue, D!Without
    <2>6. D!LetterTypeOK'
      BY <1>1, <2>1, <2>2, <2>3, TypeKept DEF D!letters, D!LetterTypeOK
    <2>7. QED
      BY <1>2, <2>2, <2>3, <2>5, <2>6
  <1>5. CASE D!ListRead(c)
    <2> DEFINE r == [c EXCEPT !.stage = "list read", !.seen = D!Snapshot]
    <2>1. CallOK(r) /\ r.op = c.op /\ r.id = c.id /\ r.stage = "list read" /\ r.seen = D!Snapshot
      BY <1>1, SnapshotTyped DEF CallOK, CallType, LetterStages
    <2>2. letterCalls' = D!Aged(D!Without(c)) \union {r}
          /\ UNCHANGED <<letterList, letterBusy, letterMissed>>
      BY <1>5 DEF D!ListRead
    <2> HIDE DEF r
    <2>3. CallsOK' /\ ButtonsOK'
      BY <1>3, <2>1, <2>2 DEF AgedOf, CallsOK, ButtonsOK
    <2>4. D!BusyIsUnderWay'
      <3>1. ASSUME NEW b \in letterBusy' PROVE \E d \in letterCalls' : d.op = b[1] /\ d.id = b[2]
        <4>1. PICK d \in letterCalls : d.op = b[1] /\ d.id = b[2]
          BY <2>2 DEF D!BusyIsUnderWay
        <4>2. CASE d = c
          BY <2>1, <2>2, <4>1, <4>2
        <4>3. CASE d \in D!Without(c)
          <5>1. PICK q \in D!Aged(D!Without(c)) : q.op = d.op /\ q.id = d.id
            BY <1>3, <4>3 DEF AgedOf
          <5>2. q \in letterCalls'
            BY <2>2
          <5>3. QED
            BY <4>1, <5>1, <5>2
        <4>4. QED
          BY <4>2, <4>3 DEF D!Without
      <3>2. QED
        BY <3>1 DEF D!BusyIsUnderWay
    <2>5. AnswersTrue'
      BY <1>2, <1>3, <2>1, <2>2 DEF AgedOf, AnswersTrue
    <2>6. Coming'
      BY <2>1, <2>2 DEF Coming
    <2>7. D!LetterTypeOK'
      BY <1>1, <2>2, <2>3, TypeKept DEF D!letters, D!LetterTypeOK
    <2>8. QED
      BY <1>2, <2>3, <2>4, <2>5, <2>6, <2>7 DEF ListTrue
  <1>6. CASE D!ListLanded(c)
    <2>1. /\ c.stage = "list read" /\ letterList' = c.seen /\ letterCalls' = D!Without(c)
             /\ letterMissed' = c.older
          /\ letterBusy' \subseteq letterBusy \ {<<c.op, c.id>>}
      BY <1>6 DEF D!ListLanded
    <2>2. ButtonsOK' /\ D!BusyIsUnderWay'
      BY <2>1, EndKept
    <2>3. CallsOK'
      BY <2>1 DEF CallsOK, D!Without
    <2>4. WillRead => WillRead'
      BY <2>1 DEF WillRead, D!Without
    <2>5. AnswersTrue'
      BY <1>2, <2>1, <2>4 DEF AnswersTrue, D!Without
    <2>6. ListTrue'
      BY <1>2, <2>1, <2>4 DEF AnswersTrue, ListTrue, Coming
    <2>7. D!LetterTypeOK'
      <3>1. \A b \in letterBusy' : b[1] \in D!RowOps \union D!ListOps
            /\ b[2] \in Entries \union {NoEntry}
        BY <2>2 DEF ButtonsOK
      <3>2. \A d \in letterCalls' : d.id \in Entries \union {NoEntry}
        BY <2>3 DEF CallsOK, CallOK, CallType
      <3>3. /\ letterMissed' \in BOOLEAN /\ letterList'.open \subseteq Entries
               /\ letterList'.rescheduled \subseteq letterList'.open
        BY <1>1, <2>1 DEF CallOK, CallType
      <3>4. QED
        BY <1>1, <3>1, <3>2, <3>3 DEF D!letters, D!LetterTypeOK
    <2>8. QED
      BY <1>2, <2>2, <2>3, <2>5, <2>6, <2>7
  <1>7. CASE D!Lost(c)
    <2>1. /\ letterBusy' = letterBusy \ {<<c.op, c.id>>} /\ letterCalls' = D!Aged(D!Without(c))
             /\ letterList' = letterList
          /\ c.stage \notin {"shatter", "retrying"}
          /\ letterMissed' = (letterMissed \/ c.stage \notin {"sent", "refused"})
      BY <1>7 DEF D!Lost
    <2>2. ButtonsOK' /\ D!BusyIsUnderWay'
      BY <1>3, <2>1, EndKept DEF AgedOf
    <2>3. CallsOK'
      BY <1>3, <2>1 DEF AgedOf, CallsOK
    <2>4. AnswersTrue'
      BY <1>3, <2>1 DEF AgedOf, AnswersTrue
    <2>5. ListTrue'
      <3> SUFFICES ASSUME ~letterMissed', letterList' # D!Snapshot' PROVE Coming'
        BY DEF ListTrue
      <3>1. ~letterMissed /\ c.stage \in {"sent", "refused"} /\ letterList # D!Snapshot
        BY <1>2, <2>1
      <3>2. PICK d \in letterCalls : d.stage \in {"retrying", "done", "list sent", "list read"}
        BY <3>1 DEF ListTrue, Coming, WillRead
      <3>3. d \in D!Without(c)
        BY <3>1, <3>2 DEF D!Without
      <3>4. PICK r \in letterCalls' : r.stage = d.stage
        BY <1>3, <2>1, <3>3 DEF AgedOf
      <3>5. QED
        BY <3>2, <3>4 DEF Coming, WillRead
    <2>6. D!LetterTypeOK'
      <3>1. \A b \in letterBusy' : b[1] \in D!RowOps \union D!ListOps
            /\ b[2] \in Entries \union {NoEntry}
        BY <2>2 DEF ButtonsOK
      <3>2. \A d \in letterCalls' : d.id \in Entries \union {NoEntry}
        BY <2>3 DEF CallsOK, CallOK, CallType
      <3>3. letterMissed' \in BOOLEAN
        <4>1. (letterMissed \/ c.stage \notin {"sent", "refused"}) \in BOOLEAN
          OBVIOUS
        <4>2. QED
          BY <2>1, <4>1
      <3>4. QED
        BY <1>1, <2>1, <3>1, <3>2, <3>3 DEF D!letters, D!LetterTypeOK
    <2>7. QED
      BY <1>2, <2>2, <2>3, <2>4, <2>5, <2>6
  <1>8. QED
    BY <1>4, <1>5, <1>6, <1>7

\* What others do to an entry keeps LetterInv.
LEMMA OthersKept ==
  ASSUME D!LetterAssumption, LetterInv, NEW e \in Entries, D!OthersChange(e)
  PROVE  LetterInv'
  <1> USE DEF LetterInv
  <1>1. /\ resolution[e] \in {"absent", "open"} /\ letterMissed' = TRUE
           /\ letterCalls' = D!Aged(letterCalls)
        /\ resolution' = [resolution EXCEPT ![e] = IF @ = "absent" THEN "open" ELSE "dismissed"]
        /\ UNCHANGED <<rescheduled, requeued, historyOpen, letterList, letterBusy>>
    BY DEF D!OthersChange
  <1>2. AgedOf(letterCalls)
    <2>1. letterCalls \in SUBSET letterCalls
      OBVIOUS
    <2>2. QED
      BY <2>1, Ageing
  <1>3. CallsOK' /\ ButtonsOK' /\ AnswersTrue' /\ ListTrue'
    BY <1>1, <1>2 DEF AgedOf, CallsOK, ButtonsOK, AnswersTrue, ListTrue
  <1>4. D!BusyIsUnderWay'
    <2>1. ASSUME NEW b \in letterBusy' PROVE \E d \in letterCalls' : d.op = b[1] /\ d.id = b[2]
      <3>1. PICK d \in letterCalls : d.op = b[1] /\ d.id = b[2]
        BY <1>1 DEF D!BusyIsUnderWay
      <3>2. QED
        <4>1. PICK q \in D!Aged(letterCalls) : q.op = d.op /\ q.id = d.id
          BY <1>2 DEF AgedOf
        <4>2. q \in letterCalls'
          BY <1>1
        <4>3. QED
          BY <3>1, <4>1, <4>2
    <2>2. QED
      BY <2>1 DEF D!BusyIsUnderWay
  <1>5. AbsentIsNew' /\ D!RetriedOnce'
    <2>1. requeued[e] = 0
      BY <1>1 DEF AbsentIsNew, D!RetriedOnce
    <2>2. QED
      BY <1>1, <2>1 DEF D!LetterTypeOK, AbsentIsNew, D!RetriedOnce
  <1>6. D!LetterTypeOK'
    <2>1. \A b \in letterBusy' : b[1] \in D!RowOps \union D!ListOps
          /\ b[2] \in Entries \union {NoEntry}
      BY <1>3 DEF ButtonsOK
    <2>2. \A d \in letterCalls' : d.id \in Entries \union {NoEntry}
      BY <1>3 DEF CallsOK, CallOK, CallType
    <2>3. resolution' \in [Entries -> {"absent", "open", "retried", "dismissed", "deleted"}]
      BY <1>1 DEF D!LetterTypeOK
    <2>4. QED
      BY <1>1, <2>1, <2>2, <2>3 DEF D!LetterTypeOK
  <1>7. QED
    BY <1>3, <1>4, <1>5, <1>6

\* An entry is re-queued once, a list tells the table unless a read was overtaken, and no button
\* stays disabled without its call (DLQEntry, HistoryPage, api/dlq).
THEOREM LettersRun == D!LetterSpec => [](D!LetterTypeOK /\ D!LettersHandled)
  <1> D!LetterAssumption
    BY DashboardAssumption DEF DashboardAssumption
  <1>1. D!Init => LetterInv
    <2> SUFFICES ASSUME D!Init PROVE LetterInv
      OBVIOUS
    <2>1. D!LetterTypeOK
      BY DEF D!Init, D!LetterTypeOK, D!NothingListed
    <2>2. CallsOK /\ ButtonsOK /\ AbsentIsNew /\ D!RetriedOnce /\ D!BusyIsUnderWay
          /\ AnswersTrue /\ ListTrue
      BY DEF D!Init, CallsOK, ButtonsOK, AbsentIsNew, D!RetriedOnce, D!BusyIsUnderWay,
         AnswersTrue, ListTrue
    <2>3. QED
      BY <2>1, <2>2 DEF LetterInv
  <1>2. LetterInv /\ [D!Next]_(D!letterVars) => LetterInv'
    <2>1. ASSUME LetterInv, UNCHANGED D!letterVars PROVE LetterInv'
      <3>1. D!Snapshot' = D!Snapshot
        BY <2>1 DEF D!letterVars, D!letters, D!Snapshot, D!Open
      <3>2. D!LetterTypeOK' /\ CallsOK' /\ ButtonsOK' /\ AbsentIsNew' /\ D!RetriedOnce'
            /\ D!BusyIsUnderWay'
        BY <2>1 DEF D!letterVars, D!letters, LetterInv, D!LetterTypeOK, CallsOK, ButtonsOK,
           AbsentIsNew, D!RetriedOnce, D!BusyIsUnderWay
      <3>3. AnswersTrue' /\ ListTrue'
        BY <2>1, <3>1 DEF D!letterVars, D!letters, LetterInv, AnswersTrue, ListTrue,
           Coming, WillRead
      <3>4. QED
        BY <3>2, <3>3 DEF LetterInv
    <2>2. ASSUME LetterInv, D!Next PROVE LetterInv'
      BY <2>2, LetterPressKept, LetterServedKept, LetterPageKept, OthersKept DEF D!Next
    <2>3. QED
      BY <2>1, <2>2
  <1>3. LetterInv => D!LetterTypeOK /\ D!LettersHandled
    BY DEF LetterInv, D!LettersHandled, D!PageTruthful, ListTrue, Coming, WillRead
  <1>4. QED
    BY <1>1, <1>2, <1>3, PTL DEF D!LetterSpec

-----------------------------------------------------------------------------
\* Settings: SettingsForm.

SaveType ==
    [key : N!Keys, value : Values \union Options \union {Text}, stage : {"sent", "stored"},
     older : BOOLEAN]
PollType ==
    [stage : {"sent", "read"}, seen : [N!Keys -> Values \union Options \union {Missing, Text}],
             older : BOOLEAN]
SaveOK(s) == s \in SaveType /\ (s.key \in OptionKeys => s.value \in Options)
SavesOK == \A s \in saves : SaveOK(s)
PollsOK == \A p \in settingsPolls : p \in PollType
TypedOK == \A t \in typed : t \in NumberKeys \X (Values \union {Blank})

\* An answer that is not known to be older tells what the table holds; and a key that the
\* form does not show has an answer on its way.
SavedTrue == \A s \in saves : s.stage = "stored" /\ ~s.older => s.value = stored[s.key]
ReadTrue == \A p \in settingsPolls : p.stage = "read" /\ ~p.older => p.seen = stored
Shown ==
    ~untold => \A k \in N!Keys : settings[k] = stored[k] \/ \E s \in saves : s.stage = "stored"
      /\ s.key = k

FormInv ==
    N!FormTypeOK /\ SavesOK /\ PollsOK /\ TypedOK /\ N!KindsKept /\ SavedTrue /\ ReadTrue /\ Shown

\* r is what became of s, older or not.
From(r, s) == r = s \/ r = [s EXCEPT !.older = TRUE]
AgedFrom(new, old) ==
    /\ \A r \in new : \E s \in old : From(r, s)
    /\ \A s \in old : \E r \in new : From(r, s)

\* A save that aged is the save it was.
LEMMA SaveFrom ==
  ASSUME NEW s, SaveOK(s), NEW r, From(r, s)
  PROVE  /\ SaveOK(r) /\ r.key = s.key /\ r.value = s.value /\ r.stage = s.stage
         /\ s.older => r.older
  BY DEF SaveOK, SaveType, From

\* A read that aged is the read it was.
LEMMA PollFrom ==
  ASSUME NEW p \in PollType, NEW r, From(r, p)
  PROVE  r \in PollType /\ r.seen = p.seen /\ r.stage = p.stage /\ (p.older => r.older)
  BY DEF PollType, From

\* The user types, leaves a field, chooses an option; the page is drawn again.
LEMMA UserKept ==
  ASSUME N!SettingsAssumption, FormInv,
         \/ \E k \in NumberKeys,
            input \in Values \union {Blank} : N!TypeNumber(k, input) \/ N!BlurNumber(k, input)
         \/ \E k \in OptionKeys, v \in Options : N!Choose(k, v)
         \/ N!Redrawn
  PROVE  FormInv'
  <1> USE DEF FormInv
  <1>1. UNCHANGED <<stored, settings, settingsPolls, untold>>
    BY DEF N!TypeNumber, N!BlurNumber, N!Choose, N!Redrawn
  <1>2. TypedOK'
    <2>1. ASSUME NEW k \in NumberKeys, NEW input \in Values \union {Blank}, N!TypeNumber(k, input)
          PROVE  TypedOK'
      <3>1. typed' = {<<k, input>>} /\ <<k, input>> \in NumberKeys \X (Values \union {Blank})
        BY <2>1 DEF N!TypeNumber
      <3>2. QED
        BY <3>1 DEF TypedOK
    <2>2. ASSUME ~ \E k \in NumberKeys, input \in Values \union {Blank} : N!TypeNumber(k, input)
          PROVE  typed' \subseteq typed
      BY <2>2 DEF N!BlurNumber, N!Choose, N!Redrawn
    <2>3. QED
      BY <2>1, <2>2 DEF TypedOK
  <1>3. saves \subseteq saves' /\ \A r \in saves' \ saves : SaveOK(r) /\ r.stage = "sent"
    <2>1. ASSUME NEW k \in NumberKeys, NEW input \in Values \union {Blank}, N!BlurNumber(k, input)
          PROVE  saves \subseteq saves' /\ \A r \in saves' \ saves : SaveOK(r) /\ r.stage = "sent"
      <3> DEFINE r == [key |-> k, value |-> N!Parsed(k, input), stage |-> "sent", older |-> FALSE]
      <3>1. N!Parsed(k, input) \in Values \union {Text}
        BY DEF N!Parsed, N!SettingsAssumption
      <3>2. k \in N!Keys /\ k \notin OptionKeys
        BY DEF N!Keys, N!SettingsAssumption
      <3>3. SaveOK(r) /\ r.stage = "sent"
        BY <3>1, <3>2 DEF SaveOK, SaveType
      <3>4. saves' = saves \/ saves' = saves \union {r}
        BY <2>1 DEF N!BlurNumber
      <3> HIDE DEF r
      <3>5. QED
        BY <3>3, <3>4
    <2>2. ASSUME NEW k \in OptionKeys, NEW v \in Options, N!Choose(k, v)
          PROVE  saves \subseteq saves' /\ \A r \in saves' \ saves : SaveOK(r) /\ r.stage = "sent"
      <3> DEFINE r == [key |-> k, value |-> v, stage |-> "sent", older |-> FALSE]
      <3>1. SaveOK(r) /\ r.stage = "sent"
        BY DEF SaveOK, SaveType, N!Keys
      <3>2. saves' = saves \union {r}
        BY <2>2 DEF N!Choose
      <3> HIDE DEF r
      <3>3. QED
        BY <3>1, <3>2
    <2>3. CASE N!Redrawn \/ \E k \in NumberKeys,
               input \in Values \union {Blank} : N!TypeNumber(k, input)
      BY <2>3 DEF N!Redrawn, N!TypeNumber
    <2>4. QED
      BY <2>1, <2>2, <2>3
  <1>4. SavesOK' /\ PollsOK' /\ N!KindsKept'
    BY <1>1, <1>3 DEF SavesOK, PollsOK, N!KindsKept
  <1>5. SavedTrue' /\ ReadTrue' /\ Shown'
    BY <1>1, <1>3 DEF SavedTrue, ReadTrue, Shown
  <1>6. N!FormTypeOK'
    BY <1>1, <1>2, <1>4 DEF N!FormTypeOK, SavesOK, PollsOK, TypedOK, SaveOK, SaveType,
       PollType
  <1>7. QED
    BY <1>2, <1>4, <1>5, <1>6

\* The endpoint, and another client: the table changes, and the answers under way that told
\* something else are older.
LEMMA TableKept ==
  ASSUME N!SettingsAssumption, FormInv,
         (\E s \in saves : N!SaveServed(s))
           \/ (\E k \in N!Keys, v \in Values \union Options : N!OthersSave(k, v))
  PROVE  FormInv'
  <1> USE DEF FormInv
  <1>1. UNCHANGED <<settings, typed>>
    BY DEF N!SaveServed, N!OthersSave
  <1>2. TypedOK'
    BY <1>1 DEF TypedOK
  <1>3. ASSUME NEW s \in saves, N!SaveServed(s), ~N!Accepts(s.key, s.value) PROVE FormInv'
    <2>1. s.stage = "sent" /\ saves' = saves \ {s} /\ UNCHANGED <<stored, settingsPolls, untold>>
      BY <1>3 DEF N!SaveServed
    <2>2. SavesOK' /\ PollsOK' /\ N!KindsKept' /\ SavedTrue' /\ ReadTrue'
      BY <2>1 DEF SavesOK, PollsOK, N!KindsKept, SavedTrue, ReadTrue
    <2>3. Shown'
      BY <1>1, <2>1 DEF Shown
    <2>4. N!FormTypeOK'
      BY <1>1, <2>1 DEF N!FormTypeOK
    <2>5. QED
      BY <1>2, <2>2, <2>3, <2>4
  <1>4. ASSUME NEW k \in N!Keys, NEW v, v \in N!Kind(k), NEW keep, NEW new, keep \subseteq saves,
               \A r \in saves \ keep : r.stage = "sent",
               stored' = [stored EXCEPT ![k] = v],
               AgedFrom(settingsPolls', settingsPolls),
               \A p \in settingsPolls' : p.stage = "read" => p.older,
               saves' = new \/ \E r : /\ saves' = new \union {r} /\ SaveOK(r)
                                      /\ r.key = k /\ r.value = v /\ r.stage = "stored",
               AgedFrom(new, keep),
               \A r \in new : r.stage = "stored" /\ r.key = k => r.older,
               untold' = TRUE
                 \/ (untold' = untold /\ \E r \in saves' : r.stage = "stored" /\ r.key = k)
        PROVE  FormInv'
    <2>1. v \in Values \union Options
      BY <1>4 DEF N!Kind
    <2>2. stored' \in [N!Keys -> Values \union Options \union {Text}] /\ N!KindsKept'
      BY <1>4, <2>1 DEF N!FormTypeOK, N!KindsKept, N!Kind
    <2>3. \A r \in new : SaveOK(r) /\ (r.stage = "stored" /\ ~r.older => r.value = stored'[r.key])
      <3> SUFFICES ASSUME NEW r \in new
                   PROVE  SaveOK(r)
                          /\ (r.stage = "stored" /\ ~r.older => r.value = stored'[r.key])
        OBVIOUS
      <3>1. PICK q \in keep : From(r, q)
        BY <1>4 DEF AgedFrom
      <3>2. SaveOK(q) /\ q \in saves
        BY <1>4 DEF SavesOK
      <3>3. SaveOK(r) /\ r.key = q.key /\ r.value = q.value /\ r.stage = q.stage
            /\ (q.older => r.older)
        BY <3>1, <3>2, SaveFrom
      <3>4. ASSUME r.stage = "stored", ~r.older PROVE r.value = stored'[r.key]
        <4>1. r.key # k /\ r.key \in N!Keys
          BY <1>4, <3>3, <3>4 DEF SaveOK, SaveType
        <4>2. stored'[r.key] = stored[r.key]
          BY <1>4, <4>1 DEF N!FormTypeOK
        <4>3. q.value = stored[q.key]
          BY <3>2, <3>3, <3>4 DEF SavedTrue
        <4>4. QED
          BY <3>3, <4>2, <4>3
      <3>5. QED
        BY <3>3, <3>4
    <2>4. stored'[k] = v
      BY <1>4 DEF N!FormTypeOK
    <2>5. SavesOK' /\ SavedTrue'
      BY <1>4, <2>3, <2>4 DEF SavesOK, SavedTrue
    <2>6. PollsOK'
      <3> SUFFICES ASSUME NEW p \in settingsPolls' PROVE p \in PollType
        BY DEF PollsOK
      <3>1. PICK q \in settingsPolls : From(p, q)
        BY <1>4 DEF AgedFrom
      <3>2. QED
        BY <3>1, PollFrom DEF PollsOK
    <2>7. ReadTrue'
      BY <1>4 DEF ReadTrue
    <2>8. Shown'
      <3> SUFFICES ASSUME ~untold', NEW j \in N!Keys
                   PROVE  settings'[j] = stored'[j] \/ \E s \in saves' : s.stage = "stored"
                          /\ s.key = j
        BY DEF Shown
      <3>1. CASE j = k
        BY <1>4, <3>1
      <3>2. CASE j # k
        <4>1. stored'[j] = stored[j] /\ settings'[j] = settings[j]
          BY <1>1, <1>4, <3>2 DEF N!FormTypeOK
        <4>2. ~untold
          BY <1>4
        <4>3. ASSUME NEW s \in saves, s.stage = "stored", s.key = j
              PROVE  \E r \in saves' : r.stage = "stored" /\ r.key = j
          <5>1. s \in keep
            BY <1>4, <4>3
          <5>2. PICK r \in new : From(r, s)
            BY <1>4, <5>1 DEF AgedFrom
          <5>3. r.stage = "stored" /\ r.key = j
            BY <4>3, <5>2, SaveFrom DEF SavesOK
          <5>4. r \in saves'
            BY <1>4
          <5>5. QED
            BY <5>3, <5>4
        <4>4. QED
          BY <4>1, <4>2, <4>3 DEF Shown
      <3>3. QED
        BY <3>1, <3>2
    <2>9. untold' \in BOOLEAN
          /\ settings' \in [N!Keys -> Values \union Options \union {Missing, Text}]
      BY <1>1, <1>4 DEF N!FormTypeOK
    <2>10. N!FormTypeOK'
      BY <1>2, <2>2, <2>5, <2>6, <2>9
         DEF N!FormTypeOK, SavesOK, PollsOK, TypedOK, SaveOK, SaveType, PollType
    <2>11. QED
      BY <1>2, <2>2, <2>5, <2>6, <2>7, <2>8, <2>10
  <1>5. ASSUME NEW s \in saves, N!SaveServed(s), N!Accepts(s.key, s.value) PROVE FormInv'
    <2> DEFINE keep == saves \ {s}
               new == {IF o.stage = "stored"
                       /\ o.key = s.key THEN [o EXCEPT !.older = TRUE] ELSE o : o \in keep}
               r == [s EXCEPT !.stage = "stored"]
    <2>1. /\ s.stage = "sent" /\ untold' = untold
          /\ stored' = [stored EXCEPT ![s.key] = s.value]
          /\ saves' = new \union {r}
          /\ settingsPolls' =
               {IF p.stage = "read" THEN [p EXCEPT !.older = TRUE] ELSE p : p \in settingsPolls}
      BY <1>5 DEF N!SaveServed, N!Age
    <2>2. SaveOK(s)
      BY DEF SavesOK
    <2>3. s.key \in N!Keys /\ s.value \in N!Kind(s.key)
      BY <1>5, <2>2 DEF SaveOK, SaveType, N!Accepts, N!Kind, N!Keys
    <2>4. SaveOK(r) /\ r.key = s.key /\ r.value = s.value /\ r.stage = "stored"
      BY <2>2 DEF SaveOK, SaveType
    <2>5. AgedFrom(settingsPolls', settingsPolls)
      BY <2>1 DEF AgedFrom, From
    <2>6. \A p \in settingsPolls' : p.stage = "read" => p.older
      BY <2>1 DEF PollsOK, PollType
    <2>7. AgedFrom(new, keep)
      BY DEF AgedFrom, From
    <2>8. \A o \in new : o.stage = "stored" /\ o.key = s.key => o.older
      BY DEF SavesOK, SaveOK, SaveType
    <2>9. keep \subseteq saves /\ \A o \in saves \ keep : o.stage = "sent"
      BY <2>1
    <2>10. \E o \in saves' : o.stage = "stored" /\ o.key = s.key
      BY <2>1, <2>4
    <2> HIDE DEF keep, new, r
    <2>11. QED
      <3>1. saves' = new \/ \E o : /\ saves' = new \union {o} /\ SaveOK(o)
                                   /\ o.key = s.key /\ o.value = s.value /\ o.stage = "stored"
        BY <2>1, <2>4
      <3>2. untold' = TRUE
            \/ (untold' = untold /\ \E o \in saves' : o.stage = "stored" /\ o.key = s.key)
        BY <2>1, <2>10
      <3>3. stored' = [stored EXCEPT ![s.key] = s.value]
        BY <2>1
      <3>4. QED
        BY <1>4, <2>3, <2>5, <2>6, <2>7, <2>8, <2>9, <3>1, <3>2, <3>3
  <1>6. ASSUME NEW k \in N!Keys, NEW v \in Values \union Options, N!OthersSave(k, v)
        PROVE  FormInv'
    <2> DEFINE new == {IF o.stage = "stored"
                       /\ o.key = k THEN [o EXCEPT !.older = TRUE] ELSE o : o \in saves}
    <2>1. /\ v \in N!Kind(k) /\ untold' = TRUE
          /\ stored' = [stored EXCEPT ![k] = v]
          /\ saves' = new
          /\ settingsPolls' =
               {IF p.stage = "read" THEN [p EXCEPT !.older = TRUE] ELSE p : p \in settingsPolls}
      BY <1>6 DEF N!OthersSave, N!Age
    <2>2. AgedFrom(settingsPolls', settingsPolls)
      BY <2>1 DEF AgedFrom, From
    <2>3. \A p \in settingsPolls' : p.stage = "read" => p.older
      BY <2>1 DEF PollsOK, PollType
    <2>4. AgedFrom(new, saves)
      BY DEF AgedFrom, From
    <2>5. \A o \in new : o.stage = "stored" /\ o.key = k => o.older
      BY DEF SavesOK, SaveOK, SaveType
    <2> HIDE DEF new
    <2>6. QED
      BY <1>4, <2>1, <2>2, <2>3, <2>4, <2>5
  <1>7. QED
    BY <1>3, <1>5, <1>6

\* An answer that lands in the form keeps FormInv.
LEMMA SaveLandingKept ==
  ASSUME N!SettingsAssumption, FormInv,
         (\E s \in saves : N!SaveLanded(s))
           \/ (\E p \in settingsPolls : N!PollLanded(p) \/ N!PollLost(p))
  PROVE  FormInv'
  <1> USE DEF FormInv
  <1>1. stored' = stored /\ saves' \subseteq saves /\ settingsPolls' \subseteq settingsPolls
        /\ typed' \subseteq typed
    BY DEF N!SaveLanded, N!PollLanded, N!PollLost
  <1>2. SavesOK' /\ PollsOK' /\ TypedOK' /\ N!KindsKept' /\ SavedTrue' /\ ReadTrue'
    BY <1>1 DEF SavesOK, PollsOK, TypedOK, N!KindsKept, SavedTrue, ReadTrue
  <1>3. /\ settings' \in [N!Keys -> Values \union Options \union {Missing, Text}]
        /\ untold' \in BOOLEAN
        /\ Shown'
    <2>1. ASSUME NEW s \in saves, N!SaveLanded(s)
          PROVE  settings' \in [N!Keys -> Values \union Options \union {Missing, Text}]
                 /\ untold' \in BOOLEAN /\ Shown'
      <3>1. s.key \in N!Keys /\ s.value \in Values \union Options \union {Text}
        BY DEF SavesOK, SaveOK, SaveType
      <3>2. /\ settings' = [settings EXCEPT ![s.key] = s.value] /\ saves' = saves \ {s}
               /\ s.stage = "stored"
            /\ untold' = (untold \/ s.older)
        BY <2>1 DEF N!SaveLanded
      <3>3. settings' \in [N!Keys -> Values \union Options \union {Missing, Text}]
        BY <3>1, <3>2 DEF N!FormTypeOK
      <3>4. untold' \in BOOLEAN
        <4>1. (untold \/ s.older) \in BOOLEAN
          OBVIOUS
        <4>2. QED
          BY <3>2, <4>1
      <3>5. Shown'
        <4> SUFFICES ASSUME ~untold', NEW j \in N!Keys
                     PROVE  settings'[j] = stored'[j] \/ \E q \in saves' : q.stage = "stored"
                            /\ q.key = j
          BY DEF Shown
        <4>1. ~untold /\ ~s.older
          BY <3>2
        <4>2. CASE j = s.key
          BY <1>1, <3>2, <4>1, <4>2 DEF SavedTrue, N!FormTypeOK
        <4>3. CASE j # s.key
          <5>1. settings'[j] = settings[j]
            BY <3>1, <3>2, <4>3 DEF N!FormTypeOK
          <5>2. settings[j] = stored[j] \/ \E q \in saves : q.stage = "stored" /\ q.key = j
            BY <4>1 DEF Shown
          <5>3. QED
            BY <1>1, <3>2, <4>3, <5>1, <5>2
        <4>4. QED
          BY <4>2, <4>3
      <3>6. QED
        BY <3>3, <3>4, <3>5
    <2>2. ASSUME NEW p \in settingsPolls, N!PollLanded(p)
          PROVE  settings' \in [N!Keys -> Values \union Options \union {Missing, Text}]
                 /\ untold' \in BOOLEAN /\ Shown'
      <3>1. p.stage = "read" /\ settings' = p.seen /\ untold' = p.older
        BY <2>2 DEF N!PollLanded
      <3>2. p \in PollType
        BY DEF PollsOK
      <3>3. Shown'
        BY <1>1, <3>1 DEF Shown, ReadTrue
      <3>4. QED
        BY <3>1, <3>2, <3>3 DEF PollType
    <2>3. ASSUME NEW p \in settingsPolls, N!PollLost(p)
          PROVE  settings' \in [N!Keys -> Values \union Options \union {Missing, Text}]
                 /\ untold' \in BOOLEAN /\ Shown'
      BY <2>3 DEF N!PollLost, N!FormTypeOK, Shown
    <2>4. QED
      BY <2>1, <2>2, <2>3
  <1>4. N!FormTypeOK'
    BY <1>1, <1>3 DEF N!FormTypeOK
  <1>5. QED
    BY <1>2, <1>3, <1>4

\* A request that is lost, and a read, keep FormInv.
LEMMA WireKept ==
  ASSUME N!SettingsAssumption, FormInv,
         (\E s \in saves : N!SaveLost(s)) \/ N!PollSettings
           \/ (\E p \in settingsPolls : N!PollRead(p))
  PROVE  FormInv'
  <1> USE DEF FormInv
  <1>1. UNCHANGED <<stored, settings, typed>>
    BY DEF N!SaveLost, N!PollSettings, N!PollRead
  <1>2. N!KindsKept' /\ TypedOK'
    BY <1>1 DEF N!KindsKept, TypedOK
  <1>3. ASSUME NEW old \in SUBSET settingsPolls, NEW new, AgedFrom(new, old)
        PROVE  \A r \in new : r \in PollType /\ (r.stage = "read" /\ ~r.older => r.seen = stored)
    <2> SUFFICES ASSUME NEW r \in new
                 PROVE  r \in PollType /\ (r.stage = "read" /\ ~r.older => r.seen = stored)
      OBVIOUS
    <2>1. PICK q \in old : From(r, q)
      BY <1>3 DEF AgedFrom
    <2>2. q \in PollType /\ (q.stage = "read" /\ ~q.older => q.seen = stored)
      BY DEF PollsOK, ReadTrue
    <2>3. QED
      BY <2>1, <2>2, PollFrom
  <1>4. ASSUME NEW s \in saves, N!SaveLost(s) PROVE FormInv'
    <2>1. /\ saves' = saves \ {s} /\ untold' = (untold \/ s.stage = "stored")
          /\ settingsPolls' =
               {IF p.stage = "read" THEN [p EXCEPT !.older = TRUE] ELSE p : p \in settingsPolls}
      BY <1>4 DEF N!SaveLost, N!Age
    <2>2. AgedFrom(settingsPolls', settingsPolls)
      BY <2>1 DEF AgedFrom, From
    <2>3. PollsOK' /\ ReadTrue'
      BY <1>1, <1>3, <2>2 DEF PollsOK, ReadTrue
    <2>4. SavesOK' /\ SavedTrue' /\ Shown'
      BY <1>1, <2>1 DEF SavesOK, SavedTrue, Shown
    <2>5. untold' \in BOOLEAN
      <3>1. (untold \/ s.stage = "stored") \in BOOLEAN
        OBVIOUS
      <3>2. QED
        BY <2>1, <3>1
    <2>6. N!FormTypeOK'
      BY <1>1, <2>1, <2>3, <2>5 DEF N!FormTypeOK, PollsOK, PollType
    <2>7. QED
      BY <1>2, <2>3, <2>4, <2>6
  <1>5. CASE N!PollSettings
    <2>1. settingsPolls' = settingsPolls \union {N!Poll("sent", settings)}
          /\ UNCHANGED <<saves, untold>>
      BY <1>5 DEF N!PollSettings
    <2>2. N!Poll("sent", settings) \in PollType /\ N!Poll("sent", settings).stage = "sent"
      BY DEF N!Poll, PollType, N!FormTypeOK
    <2>3. PollsOK' /\ ReadTrue'
      BY <1>1, <2>1, <2>2 DEF PollsOK, ReadTrue
    <2>4. SavesOK' /\ SavedTrue' /\ Shown'
      BY <1>1, <2>1 DEF SavesOK, SavedTrue, Shown
    <2>5. N!FormTypeOK'
      BY <1>1, <2>1, <2>3 DEF N!FormTypeOK, PollsOK, PollType
    <2>6. QED
      BY <1>2, <2>3, <2>4, <2>5
  <1>6. ASSUME NEW p \in settingsPolls, N!PollRead(p) PROVE FormInv'
    <2> DEFINE new == {IF q.stage =
                         "read" THEN [q EXCEPT !.older = TRUE] ELSE q : q \in settingsPolls \ {p}}
    <2>1. /\ settingsPolls' = new \union {N!Poll("read", stored)} /\ untold' = untold
          /\ saves' = {IF s.stage = "stored"
                       /\ stored[s.key] # s.value THEN [s EXCEPT !.older = TRUE] ELSE s
                         : s \in saves}
      BY <1>6 DEF N!PollRead, N!Age
    <2>2. AgedFrom(saves', saves)
      BY <2>1 DEF AgedFrom, From
    <2>3. AgedFrom(new, settingsPolls \ {p}) /\ settingsPolls \ {p} \in SUBSET settingsPolls
      BY DEF AgedFrom, From
    <2> HIDE DEF new
    <2>4. N!Poll("read", stored) \in PollType /\ N!Poll("read", stored).seen = stored
      BY DEF N!Poll, PollType, N!FormTypeOK
    <2>5. PollsOK' /\ ReadTrue'
      BY <1>1, <1>3, <2>1, <2>3, <2>4 DEF PollsOK, ReadTrue
    <2>6. SavesOK' /\ SavedTrue'
      <3> SUFFICES ASSUME NEW r \in saves'
                   PROVE  SaveOK(r)
                          /\ (r.stage = "stored" /\ ~r.older => r.value = stored'[r.key])
        BY DEF SavesOK, SavedTrue
      <3>1. PICK q \in saves : From(r, q)
        BY <2>2 DEF AgedFrom
      <3>2. SaveOK(q)
        BY DEF SavesOK
      <3>3. QED
        BY <1>1, <3>1, <3>2, SaveFrom DEF SavedTrue
    <2>7. Shown'
      <3> SUFFICES ASSUME ~untold', NEW j \in N!Keys
                   PROVE  settings'[j] = stored'[j] \/ \E q \in saves' : q.stage = "stored"
                          /\ q.key = j
        BY DEF Shown
      <3>1. ASSUME NEW s \in saves, s.stage = "stored", s.key = j
            PROVE  \E q \in saves' : q.stage = "stored" /\ q.key = j
        <4>1. PICK q \in saves' : From(q, s)
          BY <2>2 DEF AgedFrom
        <4>2. SaveOK(s)
          BY DEF SavesOK
        <4>3. QED
          BY <3>1, <4>1, <4>2, SaveFrom
      <3>2. QED
        BY <1>1, <2>1, <3>1 DEF Shown
    <2>8. N!FormTypeOK'
      BY <1>1, <1>2, <2>1, <2>5, <2>6
         DEF N!FormTypeOK, SavesOK, SaveOK, SaveType, PollsOK, PollType
    <2>9. QED
      BY <1>2, <2>5, <2>6, <2>7, <2>8
  <1>7. QED
    BY <1>4, <1>5, <1>6

\* A number stays a number in the table and in the form, and the form shows the table once
\* nothing is under way, but for answers that came out of order (SettingsForm, saveSetting).
THEOREM Saving == N!FormSpec => [](N!FormTypeOK /\ N!SettingsSound)
  <1> N!SettingsAssumption
    BY DashboardAssumption DEF DashboardAssumption
  <1>1. N!Init => FormInv
    <2> SUFFICES ASSUME N!Init PROVE FormInv
      OBVIOUS
    <2>1. PICK n \in Values,
               o \in Options : stored = [k \in N!Keys |-> IF k \in NumberKeys THEN n ELSE o]
      BY DEF N!Init
    <2>2. stored \in [N!Keys -> Values \union Options \union {Text}] /\ N!KindsKept
      BY <2>1 DEF N!KindsKept, N!Kind
    <2>3. settings \in [N!Keys -> Values \union Options \union {Missing, Text}]
      BY DEF N!Init
    <2>4. SavesOK /\ PollsOK /\ TypedOK /\ SavedTrue /\ ReadTrue /\ Shown
      BY DEF N!Init, SavesOK, PollsOK, TypedOK, SavedTrue, ReadTrue, Shown
    <2>5. N!FormTypeOK
      BY <2>2, <2>3 DEF N!Init, N!FormTypeOK
    <2>6. QED
      BY <2>2, <2>4, <2>5 DEF FormInv
  <1>2. FormInv /\ [N!Next]_(N!formVars) => FormInv'
    <2>1. ASSUME FormInv, UNCHANGED N!formVars PROVE FormInv'
      BY <2>1 DEF N!formVars, FormInv, N!FormTypeOK, SavesOK, PollsOK, TypedOK,
         N!KindsKept, SavedTrue, ReadTrue, Shown
    <2>2. ASSUME FormInv, N!Next PROVE FormInv'
      BY <2>2, UserKept, TableKept, SaveLandingKept, WireKept DEF N!Next
    <2>3. QED
      BY <2>1, <2>2
  <1>3. FormInv => N!FormTypeOK /\ N!SettingsSound
    <2> SUFFICES ASSUME FormInv PROVE N!FormTypeOK /\ N!SettingsSound
      OBVIOUS
    <2>1. ASSUME saves = {}, ~untold PROVE settings = stored
      <3>1. \A k \in N!Keys : settings[k] = stored[k]
        BY <2>1 DEF FormInv, Shown
      <3>2. settings = [k \in N!Keys |-> settings[k]] /\ stored = [k \in N!Keys |-> stored[k]]
        BY DEF FormInv, N!FormTypeOK
      <3>3. QED
        BY <3>1, <3>2
    <2>2. QED
      BY <2>1 DEF FormInv, N!SettingsSound, N!FormTruthful
  <1>4. QED
    BY <1>1, <1>2, <1>3, PTL DEF N!FormSpec

-----------------------------------------------------------------------------
\* Consumers: Consumers.

\* An order is of its kind, and until two crossed there is one on the row.
OrderType == [who : {"row", "scan", "other"}, op : C!RowOps \union {"scan"},
              pc : {"read", "backup", "patch", "row", "unlink", "done", "refused", "found",
                    "nothing"},
              policy : C!Policies, force : BOOLEAN]
OrdersOK == consumerOrders \subseteq OrderType /\ consumerCrossed \in BOOLEAN /\ cut \in BOOLEAN
OneOnRow ==
    ~consumerCrossed => \A o, q \in consumerOrders : o.op \in C!RowOps /\ q.op \in C!RowOps
      => o = q

\* What that order has done when it stands before its next step.
StepsKnown ==
    ~consumerCrossed => \A o \in consumerOrders :
        /\ C!At(o, "include", "patch") => bak = "ollama"
        /\ C!At(o, "include", "row") => file = "queue" /\ bak = "ollama"
        /\ C!At(o, "revert", "unlink") => file = "ollama" /\ bak = "ollama"
        /\ C!At(o, "revert", "row") => file = "ollama"

\* The row tells of the file, or the order that changed the file is about to write it.
TellsFile ==
    (consumerStatus \in C!Routed => file = "queue")
      /\ (consumerStatus = "discovered" => file = "ollama")
TellsOrWill ==
    ~consumerCrossed /\ ~cut
      => TellsFile \/ \E o \in consumerOrders : o.op \in C!RowOps /\ o.pc \in {"row", "unlink"}

ConsumersInv ==
    C!ConsumersTypeOK /\ OrdersOK /\ OneOnRow /\ StepsKnown /\ C!WayBack /\ TellsOrWill

\* A new order, of the row, of the scan or of another page.
LEMMA OrderKept ==
  ASSUME ConsumersInv, NEW who \in {"row", "scan", "other"}, NEW op \in C!RowOps \union {"scan"},
         NEW pol \in C!Policies, NEW force \in BOOLEAN, C!Order(who, op, pol, force),
         UNCHANGED <<C!row, consumerShown, consumerList, cut>>
  PROVE  ConsumersInv'
  <1> USE DEF ConsumersInv
  <1> DEFINE new == [who |-> who, op |-> op, pc |-> "read", policy |-> pol, force |-> force]
  <1>1. /\ consumerOrders' = consumerOrders \union {new}
        /\ consumerCrossed' =
             (consumerCrossed \/ (op \in C!RowOps /\ \E o \in consumerOrders : o.op \in C!RowOps))
    BY DEF C!Order
  <1>2. new \in OrderType /\ new.op = op /\ new.pc = "read"
    BY DEF OrderType
  <1> HIDE DEF new
  <1>3. consumerCrossed' \in BOOLEAN
    <2>1. (consumerCrossed
           \/ (op \in C!RowOps /\ \E o \in consumerOrders : o.op \in C!RowOps)) \in BOOLEAN
      OBVIOUS
    <2>2. QED
      BY <1>1, <2>1
  <1>4. OrdersOK'
    BY <1>1, <1>2, <1>3 DEF OrdersOK
  <1>5. ~consumerCrossed'
          => ~consumerCrossed /\ ~(op \in C!RowOps /\ \E o \in consumerOrders : o.op \in C!RowOps)
    BY <1>1
  <1>6. OneOnRow'
    BY <1>1, <1>2, <1>5 DEF OneOnRow
  <1>7. StepsKnown'
    BY <1>1, <1>2, <1>5 DEF StepsKnown, C!At, C!row
  <1>8. C!WayBack' /\ C!ConsumersTypeOK'
    BY <1>5 DEF C!WayBack, C!ConsumersTypeOK, C!row
  <1>9. TellsOrWill'
    BY <1>1, <1>5 DEF TellsOrWill, TellsFile, C!row
  <1>10. QED
    BY <1>4, <1>6, <1>7, <1>8, <1>9

\* What the user presses keeps ConsumersInv.
LEMMA ConsumerPressKept ==
  ASSUME ConsumersInv,
         \/ \E pol \in C!Policies : C!PressInclude(pol) \/ C!ConfirmInclude(pol)
         \/ C!CancelInclude
         \/ \E op \in {"ignore", "revert"} : C!PressIgnoreOrRevert(op)
         \/ C!PressScan
         \/ \E op \in C!RowOps : C!OthersOrder(op)
  PROVE  ConsumersInv'
  <1> DEFINE Ordered == \E who \in {"row", "scan", "other"}, op \in C!RowOps \union {"scan"},
                           pol \in C!Policies, force \in BOOLEAN : C!Order(who, op, pol, force)
  <1>1. UNCHANGED <<C!row, consumerShown, consumerList, cut>>
    BY DEF C!PressInclude, C!ConfirmInclude, C!CancelInclude, C!PressIgnoreOrRevert,
       C!PressScan, C!OthersOrder, C!pageRow
  <1>2. Ordered \/ UNCHANGED <<consumerOrders, consumerCrossed>>
    <2>1. {"include", "ignore", "revert"} = C!RowOps /\ "deferred" \in C!Policies
          /\ "immediate" \in C!Policies
      BY DEF C!RowOps, C!Policies
    <2>2. ASSUME NEW pol \in C!Policies, C!PressInclude(pol) \/ C!ConfirmInclude(pol)
          PROVE  Ordered \/ UNCHANGED <<consumerOrders, consumerCrossed>>
      BY <2>1, <2>2 DEF C!PressInclude, C!ConfirmInclude
    <2>3. CASE C!CancelInclude
      BY <2>3 DEF C!CancelInclude
    <2>4. ASSUME NEW op \in {"ignore", "revert"}, C!PressIgnoreOrRevert(op) PROVE Ordered
      BY <2>1, <2>4 DEF C!PressIgnoreOrRevert
    <2>5. CASE C!PressScan
      BY <2>1, <2>5 DEF C!PressScan
    <2>6. ASSUME NEW op \in C!RowOps, C!OthersOrder(op) PROVE Ordered
      BY <2>1, <2>6 DEF C!OthersOrder
    <2>7. QED
      BY <2>2, <2>3, <2>4, <2>5, <2>6
  <1>3. CASE Ordered
    BY <1>1, <1>3, OrderKept
  <1>4. CASE UNCHANGED <<consumerOrders, consumerCrossed>>
    BY <1>1, <1>4 DEF ConsumersInv, OrdersOK, OneOnRow, StepsKnown, C!WayBack, TellsOrWill,
       TellsFile, C!ConsumersTypeOK, C!row
  <1>5. QED
    BY <1>2, <1>3, <1>4


Pcs == {"read", "backup", "patch", "row", "unlink", "done", "refused", "found", "nothing"}

\* An order goes to its next step: what must be known of it there.
LEMMA MoveKept ==
  ASSUME ConsumersInv, NEW o \in consumerOrders, NEW pc \in Pcs, C!Goto(o, pc),
         UNCHANGED <<streaming, C!pageRow, consumerList, consumerCrossed>>,
         file' \in {"ollama", "queue"}, bak' \in {"none", "ollama", "queue"},
           consumerStatus' \in C!Statuses,
         cut' \in BOOLEAN, ~cut' => ~cut,
         UNCHANGED <<file, bak, consumerStatus>> \/ o.op \in C!RowOps,
         C!WayBack',
         ~consumerCrossed =>
           /\ o.op = "include" /\ pc = "patch" => bak' = "ollama"
           /\ o.op = "include" /\ pc = "row" => file' = "queue" /\ bak' = "ollama"
           /\ o.op = "revert" /\ pc = "unlink" => file' = "ollama" /\ bak' = "ollama"
           /\ o.op = "revert" /\ pc = "row" => file' = "ollama"
           /\ ~cut' => \/ TellsFile'
                       \/ o.op \in C!RowOps /\ pc \in {"row", "unlink"}
                       \/ /\ UNCHANGED <<file, consumerStatus>>
                          /\ o.op \in C!RowOps => o.pc \notin {"row", "unlink"}
  PROVE  ConsumersInv'
  <1> USE DEF ConsumersInv
  <1> DEFINE next == [o EXCEPT !.pc = pc]
  <1>1. o \in OrderType
    BY DEF OrdersOK
  <1>2. next \in OrderType /\ next.pc = pc /\ next.op = o.op
    BY <1>1 DEF OrderType, Pcs
  <1>3. consumerOrders' = (consumerOrders \ {o}) \union {next}
    BY DEF C!Goto
  <1> HIDE DEF next
  <1>4. OrdersOK'
    BY <1>2, <1>3 DEF OrdersOK
  <1>5. OneOnRow'
    BY <1>2, <1>3 DEF OneOnRow
  <1>6. C!ConsumersTypeOK'
    BY DEF C!ConsumersTypeOK, C!pageRow
  <1>7. StepsKnown'
    <2> SUFFICES ASSUME ~consumerCrossed, NEW q \in consumerOrders'
                 PROVE  /\ C!At(q, "include", "patch") => bak' = "ollama"
                        /\ C!At(q, "include", "row") => file' = "queue" /\ bak' = "ollama"
                        /\ C!At(q, "revert", "unlink") => file' = "ollama" /\ bak' = "ollama"
                        /\ C!At(q, "revert", "row") => file' = "ollama"
      BY DEF StepsKnown
    <2>1. CASE q = next
      BY <1>2, <2>1 DEF C!At
    <2>2. CASE q # next
      <3>1. q \in consumerOrders /\ q # o
        BY <1>3, <2>2
      <3>2. CASE o.op \in C!RowOps
        <4>1. q.op \notin C!RowOps
          BY <3>1, <3>2 DEF OneOnRow
        <4>2. QED
          BY <4>1 DEF C!At, C!RowOps
      <3>3. CASE UNCHANGED <<file, bak, consumerStatus>>
        BY <3>1, <3>3 DEF StepsKnown, C!At
      <3>4. QED
        BY <3>2, <3>3
    <2>3. QED
      BY <2>1, <2>2
  <1>8. TellsOrWill'
    <2> SUFFICES ASSUME ~consumerCrossed, ~cut'
                 PROVE  TellsFile' \/ \E q \in consumerOrders' : q.op \in C!RowOps
                        /\ q.pc \in {"row", "unlink"}
      BY DEF TellsOrWill
    <2>1. CASE o.op \in C!RowOps /\ pc \in {"row", "unlink"}
      BY <1>2, <1>3, <2>1
    <2>2. CASE UNCHANGED <<file, consumerStatus>>
               /\ (o.op \in C!RowOps => o.pc \notin {"row", "unlink"})
      BY <1>3, <2>2 DEF TellsOrWill, TellsFile
    <2>3. QED
      BY <2>1, <2>2
  <1>9. QED
    BY <1>4, <1>5, <1>6, <1>7, <1>8

\* Each step of a handler.
LEMMA ConsumerStepKept ==
  ASSUME ConsumersInv, NEW o \in consumerOrders,
         \/ C!IncludeRead(o) \/ C!Backup(o) \/ C!Patch(o) \/ C!WriteRow(o) \/ C!Restore(o)
            \/ C!Unlink(o)
         \/ C!Scan(o) \/ C!StepFails(o)
  PROVE  ConsumersInv'
  <1> USE DEF ConsumersInv
  <1>1. /\ file \in {"ollama", "queue"} /\ bak \in {"none", "ollama", "queue"}
           /\ consumerStatus \in C!Statuses
        /\ consumerCrossed \in BOOLEAN /\ cut \in BOOLEAN /\ o \in OrderType
        /\ ~consumerCrossed => bak # "queue" /\ (file = "queue" => bak = "ollama")
        /\ ~consumerCrossed => /\ C!At(o, "include", "patch") => bak = "ollama"
                               /\ C!At(o, "include", "row") => file = "queue" /\ bak = "ollama"
                               /\ C!At(o, "revert", "unlink") => file = "ollama" /\ bak = "ollama"
                               /\ C!At(o, "revert", "row") => file = "ollama"
    BY DEF C!ConsumersTypeOK, OrdersOK, C!WayBack, StepsKnown
  <1>2. {"read", "backup", "patch", "row", "unlink", "done", "refused", "found", "nothing"} = Pcs
    BY DEF Pcs
  <1>3. CASE C!IncludeRead(o) \/ C!Scan(o)
    <2>1. PICK pc \in {"refused", "backup", "nothing", "found"} : C!Goto(o, pc)
      BY <1>3 DEF C!IncludeRead, C!Scan
    <2>2. UNCHANGED <<C!row, C!pageRow, consumerList, consumerCrossed, cut>> /\ o.pc = "read"
      BY <1>3 DEF C!IncludeRead, C!Scan, C!At
    <2>3. C!WayBack'
      BY <2>2 DEF C!WayBack, C!row
    <2>4. pc \in Pcs
      BY DEF Pcs
    <2>5. QED
      BY <1>1, <2>1, <2>2, <2>3, <2>4, MoveKept DEF C!row
  <1>4. CASE C!Backup(o)
    <2>1. /\ C!At(o, "include", "backup") /\ C!Goto(o, "patch")
             /\ bak' = IF bak = "none" THEN file ELSE bak
          /\ UNCHANGED <<file, consumerStatus, streaming, C!pageRow, consumerList,
                         consumerCrossed, cut>>
      BY <1>4 DEF C!Backup
    <2>2. ~consumerCrossed => bak' = "ollama"
      BY <1>1, <2>1
    <2>3. C!WayBack' /\ bak' \in {"none", "ollama", "queue"}
      BY <1>1, <2>1, <2>2 DEF C!WayBack
    <2>4. "patch" \in Pcs /\ o.op = "include" /\ o.pc = "backup" /\ o.op \in C!RowOps
      BY <2>1 DEF Pcs, C!At, C!RowOps
    <2>5. QED
      BY <1>1, <2>1, <2>2, <2>3, <2>4, MoveKept
  <1>5. CASE C!Patch(o)
    <2>1. /\ C!At(o, "include", "patch") /\ C!Goto(o, "row") /\ file' = "queue"
          /\ UNCHANGED <<bak, consumerStatus, streaming, C!pageRow, consumerList,
                         consumerCrossed, cut>>
      BY <1>5 DEF C!Patch
    <2>2. C!WayBack'
      BY <1>1, <2>1 DEF C!WayBack
    <2>3. "row" \in Pcs /\ o.op = "include" /\ o.op \in C!RowOps
      BY <2>1 DEF Pcs, C!At, C!RowOps
    <2>4. QED
      BY <1>1, <2>1, <2>2, <2>3, MoveKept
  <1>6. CASE C!WriteRow(o)
    <2>1. /\ o.op \in C!RowOps /\ o.pc = (IF o.op = "ignore" THEN "read" ELSE "row")
             /\ C!Goto(o, "done")
          /\ consumerStatus' = CASE o.op = "ignore" -> "ignored"
                         [] o.op = "revert" -> "discovered"
                         [] OTHER -> IF o.policy =
                           "deferred" THEN "pending_restart" ELSE "patched"
          /\ UNCHANGED <<file, bak, streaming, C!pageRow, consumerList, consumerCrossed, cut>>
      BY <1>6 DEF C!WriteRow
    <2>2. C!WayBack' /\ "done" \in Pcs
      BY <2>1 DEF C!WayBack, Pcs
    <2>3. /\ o.op = "ignore" => consumerStatus' = "ignored"
          /\ o.op = "revert" => consumerStatus' = "discovered"
          /\ o.op = "include" => consumerStatus' \in C!Routed
      BY <2>1 DEF C!Routed
    <2>4. o.op \in {"include", "ignore", "revert"}
      BY <2>1 DEF C!RowOps
    <2>5. consumerStatus' \in C!Statuses
      BY <2>3, <2>4 DEF C!Statuses, C!Routed
    <2>6. ~consumerCrossed => TellsFile'
      BY <1>1, <2>1, <2>3, <2>4 DEF TellsFile, C!Routed, C!At
    <2>7. QED
      BY <1>1, <2>1, <2>2, <2>5, <2>6, MoveKept
  <1>7. CASE C!Restore(o)
    <2>1. /\ C!At(o, "revert", "read")
             /\ UNCHANGED <<bak, consumerStatus, streaming, C!pageRow, consumerList,
                            consumerCrossed, cut>>
          /\ \/ bak = "none" /\ C!Goto(o, "row") /\ file' = file
             \/ bak # "none" /\ C!Goto(o, "unlink") /\ file' = bak
      BY <1>7 DEF C!Restore
    <2>2. C!WayBack' /\ file' \in {"ollama", "queue"} /\ (~consumerCrossed => file' = "ollama")
      BY <1>1, <2>1 DEF C!WayBack
    <2>3. "row" \in Pcs /\ "unlink" \in Pcs /\ o.op = "revert" /\ o.op \in C!RowOps
      BY <2>1 DEF Pcs, C!At, C!RowOps
    <2>4. CASE bak = "none" /\ C!Goto(o, "row")
      BY <1>1, <2>1, <2>2, <2>3, <2>4, MoveKept
    <2>5. CASE bak # "none" /\ C!Goto(o, "unlink")
      BY <1>1, <2>1, <2>2, <2>3, <2>5, MoveKept
    <2>6. QED
      BY <2>1, <2>4, <2>5
  <1>8. CASE C!Unlink(o)
    <2>1. /\ C!At(o, "revert", "unlink") /\ C!Goto(o, "row") /\ bak' = "none"
          /\ UNCHANGED <<file, consumerStatus, streaming, C!pageRow, consumerList,
                         consumerCrossed, cut>>
      BY <1>8 DEF C!Unlink
    <2>2. C!WayBack'
      BY <1>1, <2>1 DEF C!WayBack
    <2>3. "row" \in Pcs /\ o.op = "revert" /\ o.op \in C!RowOps
      BY <2>1 DEF Pcs, C!At, C!RowOps
    <2>4. QED
      BY <1>1, <2>1, <2>2, <2>3, MoveKept
  <1>9. CASE C!StepFails(o)
    <2>1. C!Goto(o, "refused") /\ cut' = TRUE
          /\ UNCHANGED <<C!row, C!pageRow, consumerList, consumerCrossed>>
      BY <1>9 DEF C!StepFails
    <2>2. C!WayBack' /\ "refused" \in Pcs
      BY <2>1 DEF C!WayBack, Pcs, C!row
    <2>3. QED
      BY <1>1, <2>1, <2>2, MoveKept DEF C!row
  <1>10. QED
    BY <1>3, <1>4, <1>5, <1>6, <1>7, <1>8, <1>9

\* Answers come to the page, and the page is opened again.
LEMMA ConsumerPageKept ==
  ASSUME ConsumersInv,
         (\E o \in consumerOrders : C!OrderLands(o)) \/ C!ListServed \/ C!ListLands \/ C!Reopen
  PROVE  ConsumersInv'
  <1> USE DEF ConsumersInv
  <1>1. UNCHANGED <<C!row, consumerCrossed, cut>> /\ consumerOrders' \subseteq consumerOrders
    BY DEF C!OrderLands, C!ListServed, C!ListLands, C!Reopen
  <1>2. \A o \in consumerOrders \ consumerOrders' : o.pc \notin {"row", "unlink"}
    BY DEF C!OrderLands, C!ListServed, C!ListLands, C!Reopen
  <1>3. OrdersOK' /\ OneOnRow' /\ StepsKnown' /\ C!WayBack'
    BY <1>1 DEF OrdersOK, OneOnRow, StepsKnown, C!WayBack, C!row
  <1>4. TellsOrWill'
    BY <1>1, <1>2 DEF TellsOrWill, TellsFile, C!row
  <1>5. consumerShown' \in C!Statuses \union {"none", "scanned"}
        /\ consumerList' \in C!Statuses \union {"none", "asked"}
    <2>1. ASSUME NEW o \in consumerOrders, C!OrderLands(o)
          PROVE  consumerShown' \in C!Statuses \union {"none", "scanned"}
                 /\ consumerList' \in C!Statuses \union {"none", "asked"}
      BY <2>1 DEF C!OrderLands, C!ConsumersTypeOK
    <2>2. CASE C!ListServed \/ C!ListLands \/ C!Reopen
      BY <2>2 DEF C!ListServed, C!ListLands, C!Reopen, C!ConsumersTypeOK
    <2>3. QED
      BY <2>1, <2>2
  <1>6. C!ConsumersTypeOK'
    BY <1>1, <1>5 DEF C!ConsumersTypeOK, C!row
  <1>7. QED
    BY <1>3, <1>4, <1>6

\* The backup leads back to where the consumer was, and the row tells where its file points,
\* but for orders that crossed or were cut short (api/consumers, ConsumerRow).
THEOREM Routing == C!ConsumersSpec => [](C!ConsumersTypeOK /\ C!ConsumersSound)
  <1>1. C!Init => ConsumersInv
    BY DEF C!Init, ConsumersInv, C!ConsumersTypeOK, OrdersOK, OneOnRow, StepsKnown,
       C!WayBack, TellsOrWill, TellsFile, C!Statuses, C!Routed
  <1>2. ConsumersInv /\ [C!Next]_(C!consumersVars) => ConsumersInv'
    <2>1. ASSUME ConsumersInv, UNCHANGED C!consumersVars PROVE ConsumersInv'
      BY <2>1 DEF C!consumersVars, C!row, C!pageRow, ConsumersInv, C!ConsumersTypeOK,
         OrdersOK, OneOnRow, StepsKnown, C!WayBack, TellsOrWill, TellsFile
    <2>2. ASSUME ConsumersInv, C!Next PROVE ConsumersInv'
      BY <2>2, ConsumerPressKept, ConsumerStepKept, ConsumerPageKept DEF C!Next
    <2>3. QED
      BY <2>1, <2>2
  <1>3. ConsumersInv => C!ConsumersTypeOK /\ C!ConsumersSound
    BY DEF ConsumersInv, C!ConsumersSound, C!RowTellsFile, TellsOrWill, TellsFile
  <1>4. QED
    BY <1>1, <1>2, <1>3, PTL DEF C!ConsumersSpec

-----------------------------------------------------------------------------
\* The daemon's controls: DaemonControls.

\* The order on its way; its fields are updated one at a time.
PostOK == post \in [op : {"none", "pause", "resume"}, pc : {"none", "sent", "done", "failed"}]

\* A pause that nobody replaced.
Standing == paused /\ ~trampled

\* ... and of which the page has been told, or is about to be.
Told == Standing /\ ~late

\* PauseHolds, with the cycle that would undo it: none that has read an earlier
\* state is unaccounted for.
CycleOK == cycle \in {"over", "begun", "raced"}

HoldsInv == Standing => state = "paused_manual" /\ cycle # "begun"

\* PauseShown, with what is under way: the answer that will say it is paused, or the
\* landing that will flip the button; no answer says anything else.
ShownInv ==
    /\ Told /\ polling \in O!States => polling = "paused_manual"
    /\ Told => \/ O!IsPaused(stateShown) \/ stateShown = "unknown" \/ polling = "paused_manual"
               \/ post.op = "pause" /\ post.pc = "done"
    /\ paused /\ post.pc = "done" => post.op = "pause"

ControlsInv == PostOK /\ CycleOK /\ HoldsInv /\ ShownInv

\* A pause lasts until it is resumed or a writer that is named replaces it, and who
\* paused sees it paused once nothing is under way.
THEOREM PauseSound == O!ControlsSpec => []O!ControlsSound
  <1>1. O!Init => ControlsInv
    BY DEF O!Init, O!NoPost, ControlsInv, PostOK, CycleOK, HoldsInv, ShownInv, Standing,
       Told
  <1>2. ControlsInv /\ [O!Next]_(O!controlsVars) => ControlsInv'
    <2> SUFFICES ASSUME ControlsInv, [O!Next]_(O!controlsVars) PROVE ControlsInv'
      OBVIOUS
    <2> USE DEF ControlsInv, PostOK, CycleOK, HoldsInv, ShownInv, Standing, Told, O!page,
       O!orders
    <2>1. CASE O!CycleReads
      BY <2>1 DEF O!CycleReads
    <2>2. ASSUME NEW s \in O!Own, O!CycleWrites(s) PROVE ControlsInv'
      <3>1. cycle' = "over" /\ UNCHANGED <<post, stateShown, polling, late, paused>>
        BY <2>2 DEF O!CycleWrites, O!Write
      <3>2. (paused' /\ ~trampled') => Standing /\ ~(cycle = "raced" /\ state = "paused_manual")
        BY <2>2, Zenon DEF O!CycleWrites, O!Write, Standing
      <3>3. Standing => state = "paused_manual" /\ cycle = "raced"
        <4>1. cycle \in {"begun", "raced"}
          BY <2>2 DEF O!CycleWrites, CycleOK
        <4>2. QED
          BY <4>1
      <3>5. ~(paused' /\ ~trampled')
        BY <3>2, <3>3
      <3>4. QED
        BY <3>1, <3>5
    <2>3. CASE O!ProxyClaims
      BY <2>3 DEF O!ProxyClaims, O!Write
    <2>4. CASE O!ProxyReleases
      BY <2>4 DEF O!ProxyReleases, O!Write
    <2>5. CASE O!OthersRestart
      BY <2>5 DEF O!OthersRestart, O!Write
    <2>6. ASSUME NEW op \in {"pause", "resume"}, O!Press(op) PROVE ControlsInv'
      BY <2>6 DEF O!Press, O!NoPost
    <2>7. CASE O!PostServed
      <3>1. /\ post.pc = "sent" /\ UNCHANGED <<claimed, stateShown, polling>>
            /\ post' \in [op : {"none", "pause", "resume"}, pc : {"done", "failed"}]
            /\ post'.op = post.op /\ CycleOK'
        BY <2>7 DEF O!PostServed
      <3>2. CASE UNCHANGED <<state, cycle, paused, trampled, late>> /\ post'.pc = "failed"
        BY <3>1, <3>2
      <3>3. CASE post.op = "pause"
                 /\ ~(UNCHANGED <<state, cycle, paused, trampled, late>> /\ post'.pc = "failed")
        <4>1. state' = "paused_manual" /\ cycle' # "begun"
          BY <2>7, <3>3 DEF O!PostServed
        <4>2. ~late' => post'.pc = "done" /\ polling \notin O!States
          BY <2>7, <3>3 DEF O!PostServed
        <4>3. QED
          BY <3>1, <3>3, <4>1, <4>2
      <3>4. CASE post.op # "pause"
                 /\ ~(UNCHANGED <<state, cycle, paused, trampled, late>> /\ post'.pc = "failed")
        <4>1. ~paused'
          BY <2>7, <3>4 DEF O!PostServed
        <4>2. QED
          BY <3>1, <4>1
      <3>5. QED
        BY <3>2, <3>3, <3>4
    <2>8. CASE O!PostLands
      <3>1. post'.op = "none" /\ post' \in [op : {"none"}, pc : {"none"}]
        BY <2>8 DEF O!PostLands, O!NoPost
      <3>2. UNCHANGED <<state, cycle, claimed, polling, late, paused, trampled>>
        BY <2>8 DEF O!PostLands
      <3>3. \/ stateShown' = stateShown /\ (post.pc # "done" \/ stateShown = "unknown")
            \/ post.op = "pause" /\ stateShown' = "paused"
            \/ post.op # "pause" /\ post.pc = "done"
        BY <2>8 DEF O!PostLands
      <3>4. CASE stateShown' = stateShown /\ (post.pc # "done" \/ stateShown = "unknown")
        BY <3>1, <3>2, <3>4 DEF O!IsPaused
      <3>5. CASE post.op = "pause" /\ stateShown' = "paused"
        BY <3>1, <3>2, <3>5 DEF O!IsPaused
      <3>6. CASE post.op # "pause" /\ post.pc = "done"
        <4>1. ~paused
          BY <2>8, <3>6 DEF O!PostLands, O!NoPost
        <4>2. QED
          BY <3>1, <3>2, <4>1
      <3>7. QED
        BY <3>3, <3>4, <3>5, <3>6
    <2>9. CASE O!Poll
      BY <2>9 DEF O!Poll, O!States, O!Own
    <2>10. CASE O!PollServed
      BY <2>10 DEF O!PollServed
    <2>11. CASE O!PollLands
      BY <2>11 DEF O!PollLands, O!States, O!Own, O!IsPaused
    <2>12. CASE UNCHANGED O!controlsVars
      BY <2>12 DEF O!controlsVars
    <2>13. QED
      BY <2>1, <2>2, <2>3, <2>4, <2>5, <2>6, <2>7, <2>8, <2>9, <2>10, <2>11, <2>12
         DEF O!Next
  <1>3. ControlsInv => O!ControlsSound
    BY DEF ControlsInv, PostOK, CycleOK, HoldsInv, ShownInv, Standing, Told,
       O!ControlsSound, O!PauseHolds, O!PauseShown, O!NoPost, O!States, O!Own
  <1>4. QED
    BY <1>1, <1>2, <1>3, PTL DEF O!ControlsSpec

\* What the controls, the poll and the writers of the daemon's row leave in their variables.
THEOREM ControlsTyped == O!ControlsSpec => []O!ControlsTypeOK
  <1>1. O!Init => O!ControlsTypeOK
    <2> SUFFICES ASSUME O!Init PROVE O!ControlsTypeOK
      OBVIOUS
    <2>1. /\ state \in O!States /\ stateShown \in O!States \union {"unknown", "paused"}
          /\ polling \in O!States \union {"none", "asked"}
      BY DEF O!Init, O!States, O!Own
    <2>2. QED
      BY <2>1 DEF O!Init, O!NoPost, O!ControlsTypeOK
  <1>2. O!ControlsTypeOK /\ [O!Next]_(O!controlsVars) => O!ControlsTypeOK'
    <2> SUFFICES ASSUME O!ControlsTypeOK, [O!Next]_(O!controlsVars) PROVE O!ControlsTypeOK'
      OBVIOUS
    <2> USE DEF O!ControlsTypeOK, O!page, O!orders
    <2>1. CASE O!CycleReads
      BY <2>1 DEF O!CycleReads
    <2>2. ASSUME NEW s \in O!Own, O!CycleWrites(s) PROVE O!ControlsTypeOK'
      BY <2>2 DEF O!CycleWrites, O!Write, O!States
    <2>3. CASE O!ProxyClaims \/ O!ProxyReleases \/ O!OthersRestart
      <3>1. PICK s \in O!States, excused \in BOOLEAN :
              O!Write(s, excused) /\ claimed' \in BOOLEAN /\ cycle' = cycle
        BY <2>3 DEF O!ProxyClaims, O!ProxyReleases, O!OthersRestart, O!States, O!Own
      <3>2. QED
        BY <3>1 DEF O!Write
    <2>4. ASSUME NEW op \in {"pause", "resume"}, O!Press(op) PROVE O!ControlsTypeOK'
      BY <2>4 DEF O!Press
    <2>5. CASE O!PostServed
      <3>1. /\ post' \in [op : {"none", "pause", "resume"},
                          pc : {"none", "sent", "done", "failed"}]
            /\ state' \in O!States /\ cycle' \in {"over", "begun", "raced"}
        BY <2>5 DEF O!PostServed, O!States, O!Own
      <3>2. paused' \in BOOLEAN /\ trampled' \in BOOLEAN /\ late' \in BOOLEAN
        BY <2>5 DEF O!PostServed
      <3>3. QED
        BY <2>5, <3>1, <3>2 DEF O!PostServed
    <2>6. CASE O!PostLands
      <3>1. stateShown' \in O!States \union {"unknown", "paused"}
        BY <2>6 DEF O!PostLands, O!States, O!Own
      <3>2. QED
        BY <2>6, <3>1 DEF O!PostLands, O!NoPost
    <2>7. CASE O!Poll \/ O!PollServed \/ O!PollLands
      BY <2>7 DEF O!Poll, O!PollServed, O!PollLands
    <2>8. CASE UNCHANGED O!controlsVars
      BY <2>8 DEF O!controlsVars
    <2>9. QED
      BY <2>1, <2>2, <2>3, <2>4, <2>5, <2>6, <2>7, <2>8 DEF O!Next
  <1>3. QED
    BY <1>1, <1>2, PTL DEF O!ControlsSpec

-----------------------------------------------------------------------------
\* A behaviour of the page is one of each of its widgets: a step that follows another widget
\* leaves the variables of this one alone.
LEMMA PageFollowsPulls == Spec => M!PullSpec
  <1>1. Init => M!Init
    BY DEF Init
  <1>2. [Next]_vars => [M!Next]_(M!pullVars)
    <2>1. ASSUME Next PROVE M!Next \/ UNCHANGED M!pullVars
      BY <2>1 DEF Next, Follows, Others, M!pullVars, M!server, M!page, pullsVars
    <2>2. ASSUME UNCHANGED vars PROVE UNCHANGED M!pullVars
      BY <2>2 DEF vars, M!pullVars, M!server, M!page, pullsVars
    <2>3. QED
      BY <2>1, <2>2
  <1>3. QED
    BY <1>1, <1>2, PTL DEF Spec, M!PullSpec

\* The same of the dead letters.
LEMMA PageFollowsLetters == Spec => D!LetterSpec
  <1>1. Init => D!Init
    BY DEF Init
  <1>2. [Next]_vars => [D!Next]_(D!letterVars)
    <2>1. ASSUME Next PROVE D!Next \/ UNCHANGED D!letterVars
      BY <2>1 DEF Next, Follows, Others, D!letterVars, D!letters, lettersVars
    <2>2. ASSUME UNCHANGED vars PROVE UNCHANGED D!letterVars
      BY <2>2 DEF vars, D!letterVars, D!letters, lettersVars
    <2>3. QED
      BY <2>1, <2>2
  <1>3. QED
    BY <1>1, <1>2, PTL DEF Spec, D!LetterSpec

\* The same of the settings.
LEMMA PageFollowsSettings == Spec => N!FormSpec
  <1>1. Init => N!Init
    BY DEF Init
  <1>2. [Next]_vars => [N!Next]_(N!formVars)
    <2>1. ASSUME Next PROVE N!Next \/ UNCHANGED N!formVars
      BY <2>1 DEF Next, Follows, Others, N!formVars, settingsVars
    <2>2. ASSUME UNCHANGED vars PROVE UNCHANGED N!formVars
      BY <2>2 DEF vars, N!formVars, settingsVars
    <2>3. QED
      BY <2>1, <2>2
  <1>3. QED
    BY <1>1, <1>2, PTL DEF Spec, N!FormSpec

\* The same of the consumers.
LEMMA PageFollowsConsumers == Spec => C!ConsumersSpec
  <1>1. Init => C!Init
    BY DEF Init
  <1>2. [Next]_vars => [C!Next]_(C!consumersVars)
    <2>1. ASSUME Next PROVE C!Next \/ UNCHANGED C!consumersVars
      BY <2>1 DEF Next, Follows, Others, C!consumersVars, C!row, C!pageRow, consumersVars
    <2>2. ASSUME UNCHANGED vars PROVE UNCHANGED C!consumersVars
      BY <2>2 DEF vars, C!consumersVars, C!row, C!pageRow, consumersVars
    <2>3. QED
      BY <2>1, <2>2
  <1>3. QED
    BY <1>1, <1>2, PTL DEF Spec, C!ConsumersSpec

\* The same of the daemon's controls.
LEMMA PageFollowsControls == Spec => O!ControlsSpec
  <1>1. Init => O!Init
    BY DEF Init
  <1>2. [Next]_vars => [O!Next]_(O!controlsVars)
    <2>1. ASSUME Next PROVE O!Next \/ UNCHANGED O!controlsVars
      BY <2>1 DEF Next, Follows, Others, O!controlsVars, controlsVars
    <2>2. ASSUME UNCHANGED vars PROVE UNCHANGED O!controlsVars
      BY <2>2 DEF vars, O!controlsVars, controlsVars
    <2>3. QED
      BY <2>1, <2>2
  <1>3. QED
    BY <1>1, <1>2, PTL DEF Spec, O!ControlsSpec

-----------------------------------------------------------------------------
\* PullsAccounted for every number of downloads: a row that pulls is asked about or is a late
\* answer's ghost; completed is said only of what was.
THEOREM PullsHold == Spec => []PullsAccounted
  <1>1. Spec => []M!PullsAccounted
    BY PageFollowsPulls, PullsRun, PTL
  <1>2. M!PullsAccounted => PullsAccounted
    BY DEF PullsAccounted
  <1>3. QED
    BY <1>1, <1>2, PTL

\* LettersHandled for every set of entries, in any interleaving of calls: one job of an entry, a
\* truthful list, no button left disabled.
THEOREM LettersHold == Spec => []LettersHandled
  <1>1. Spec => []D!LettersHandled
    BY PageFollowsLetters, LettersRun, PTL
  <1>2. D!LettersHandled => LettersHandled
    BY DEF LettersHandled
  <1>3. QED
    BY <1>1, <1>2, PTL

\* SettingsSound for every set of settings: numbers stay numbers and the form shows the table.
THEOREM SettingsHold == Spec => []SettingsSound
  <1>1. Spec => []N!SettingsSound
    BY PageFollowsSettings, Saving, PTL
  <1>2. N!SettingsSound => SettingsSound
    BY DEF SettingsSound
  <1>3. QED
    BY <1>1, <1>2, PTL

\* ConsumersSound for every number of orders: the backup leads back, and the row tells where the
\* file points unless orders crossed.
THEOREM ConsumersHold == Spec => []ConsumersSound
  <1>1. Spec => []C!ConsumersSound
    BY PageFollowsConsumers, Routing, PTL
  <1>2. C!ConsumersSound => ConsumersSound
    BY DEF ConsumersSound
  <1>3. QED
    BY <1>1, <1>2, PTL

\* ControlsSound: a manual pause holds and is shown, but for the named writers.
THEOREM ControlsHold == Spec => []ControlsSound
  <1>1. Spec => []O!ControlsSound
    BY PageFollowsControls, PauseSound, PTL
  <1>2. O!ControlsSound => ControlsSound
    BY DEF ControlsSound
  <1>3. QED
    BY <1>1, <1>2, PTL

=============================================================================

------------------------- MODULE VoicePanelsProofs -------------------------
(***************************************************************************)
(* The microphone and the transcript, for any number of panels, recordings *)
(* and chunks.                                                             *)
(*                                                                         *)
(* MicrophoneIsHeld needs to know why no second microphone can be taken    *)
(* while one is live: a start takes one only when it is the current one of *)
(* its panel (StartFits), a recording that runs is replaced only from a    *)
(* status in which it does not tick (HookFits), and a press of Record that *)
(* waits for the model finds every microphone off, for none is live before *)
(* the model is ready (WorkerFits).  TranscriptIsTheRecording needs that   *)
(* the committed segments and the pass in progress fit together, and that  *)
(* no pass is in progress while a finished text is shown (TextFits).       *)
(***************************************************************************)
EXTENDS VoicePanels, SequenceTheorems, TLAPS

Kinds == {"none", "dictate", "upload"}
Statuses == {"idle", "recording", "processing", "ready", "error", "decoding", "transcribing"}
Pcs == {"none", "preparing", "prepared", "asking", "adding", "decoding", "done"}
PassKinds == {"warmup", "partial", "final", "file"}

Owners == Starts \cup {0}
Passes == [kind : PassKinds, start : Owners, from : Nat, to : Nat]
Words == Owners \X Nat
Hooks ==
    [kind : Kinds, status : Statuses, loadError : BOOLEAN, start : Owners, chunks : Nat,
     processing : BOOLEAN, sent : Passes, sentCommit : BOOLEAN, pendingFinal : BOOLEAN,
     committed : Seq(Words), segmentStart : Nat, transcript : Seq(Words), held : Owners,
     ticking : BOOLEAN, own : BOOLEAN, edited : Owners]
StartStates == [pc : Pcs, panel : Panels \cup {0}, current : BOOLEAN]
Workers == [warmed : BOOLEAN, ready : BOOLEAN, jobs : Seq(Passes)]

Types ==
    /\ lowMemory \in BOOLEAN
    /\ locked \in BOOLEAN
    /\ mounted \in Panels \cup {0}
    /\ hook \in [Panels -> Hooks]
    /\ starts \in [Starts -> StartStates]
    /\ mics \subseteq Starts
    /\ escaped \subseteq Starts
    /\ worker \in Workers

\* The microphones MicrophoneIsHeld speaks of.
Live == mics \ escaped

Capturing(s) == starts[s].pc \in {"asking", "adding"}

WorkerFits ==
    /\ Live # {} => worker.ready
    /\ \A s \in Starts :
         /\ starts[s].pc = "preparing" => ~worker.ready
         /\ starts[s].pc = "prepared" => worker.ready /\ Live = {}
         /\ starts[s].panel = mounted /\ Capturing(s) => worker.ready

\* What startRecording leaves in the refs until the recording runs.
Begun(h, s) ==
    /\ h.start = s /\ h.chunks = 0
    /\ h.transcript = <<>> /\ h.committed = <<>> /\ h.segmentStart = 0
    /\ ~h.processing /\ ~h.pendingFinal /\ ~h.ticking

PanelFits(s) ==
    /\ starts[s].pc # "none" =>
         starts[s].panel \in Panels /\ hook[starts[s].panel].kind # "none"
    /\ starts[s].pc \in {"preparing", "prepared", "asking", "adding"} =>
         hook[starts[s].panel].kind = "dictate"
    /\ starts[s].pc = "decoding" => hook[starts[s].panel].kind = "upload"

StartFits(s) ==
    /\ starts[s].current => starts[s].pc \in {"asking", "adding", "decoding"}
    /\ s \in mics => starts[s].pc \in {"adding", "done"}
    /\ s \notin escaped =>
         /\ starts[s].pc \in {"preparing", "prepared"} =>
              mounted = starts[s].panel /\ ~locked
         /\ starts[s].current /\ Capturing(s) => mounted = starts[s].panel /\ ~locked
    /\ starts[s].pc \in {"preparing", "prepared"} => ~hook[starts[s].panel].ticking
    /\ starts[s].current /\ Capturing(s) => Begun(hook[starts[s].panel], s)

\* Two starts of one panel.
PairFits(s, r) ==
    s # r /\ starts[s].panel = starts[r].panel =>
      /\ ~(starts[s].current /\ starts[r].current)
      /\ starts[s].pc = "preparing" => ~Capturing(r)

MicFits(s) ==
    /\ ~locked
    /\ mounted = starts[s].panel
    /\ hook[mounted].held = s
    /\ starts[s].pc = "adding" => starts[s].current
    /\ starts[s].pc = "done" => hook[mounted].ticking

\* The pass in progress is the one the segment in progress asks for, or the final one.
SentFits(h) ==
    \/ \E n \in h.segmentStart..h.chunks : h.sent = Pass("partial", h.start, h.segmentStart, n)
    \/ h.sent = Pass("final", h.start, 0, h.chunks)

TextFits(h) ==
    /\ h.segmentStart <= h.chunks
    /\ \E n \in 0..h.chunks : h.transcript = Text(h.start, 0, n)
    /\ h.committed = Text(h.start, 0, h.segmentStart)
    /\ h.processing => SentFits(h)
    /\ h.status = "ready" => h.transcript = Text(h.start, 0, h.chunks)

\* A recording that runs shows so, and has not asked for its final pass.
RunFits(h) ==
    /\ h.kind # "dictate" => h.held = 0 /\ ~h.ticking
    /\ h.ticking => h.status \in {"recording", "error"}
    /\ h.pendingFinal => ~h.ticking
    /\ h.processing /\ h.sent.kind = "final" => ~h.ticking
    /\ h.status = "ready" => ~h.processing

HookFits(h) ==
    /\ RunFits(h)
    /\ h.kind = "dictate" /\ h.own => TextFits(h)

VoiceInv ==
    /\ Types
    /\ WorkerFits
    /\ \A s \in Starts : PanelFits(s)
    /\ \A s \in Starts : StartFits(s)
    /\ \A s, r \in Starts : PairFits(s, r)
    /\ \A s \in Live : MicFits(s)
    /\ \A p \in Panels : HookFits(hook[p])

---------------------------------------------------------------------------
\* Texts, passes and the hook.

LEMMA TextIsWords ==
    ASSUME NEW s \in Owners, NEW from \in Nat, NEW to \in Nat
    PROVE  Text(s, from, to) \in Seq(Words)
<1>1. CASE from <= to
  <2>1. to - from \in Nat
    BY <1>1
  <2>2. \A i \in 1..(to - from) : <<s, from + i>> \in Words
    BY DEF Words
  <2> QED
    BY <2>1, <2>2 DEF Text
<1>2. CASE ~(from <= to)
  <2>1. 1..(to - from) = 1..0
    BY <1>2
  <2> QED
    BY <2>1 DEF Text
<1> QED
  BY <1>1, <1>2

LEMMA TextIsEmpty ==
    ASSUME NEW s \in Owners
    PROVE  Text(s, 0, 0) = <<>>
<1>1. Text(s, 0, 0) \in Seq(Words)
  BY TextIsWords
<1>2. DOMAIN Text(s, 0, 0) = 1..0
  BY DEF Text
<1> QED
  BY <1>1, <1>2

\* Two passes that meet make one.
LEMMA TextsJoin ==
    ASSUME NEW s \in Owners, NEW n \in Nat, NEW m \in Nat, n <= m
    PROVE  Text(s, 0, n) \o Text(s, n, m) = Text(s, 0, m)
<1> DEFINE a == Text(s, 0, n)
           b == Text(s, n, m)
           c == Text(s, 0, m)
<1>1. a \in Seq(Words) /\ b \in Seq(Words) /\ c \in Seq(Words)
  BY TextIsWords
<1>2. n - 0 = n /\ m - 0 = m /\ m - n \in Nat
  OBVIOUS
<1>3. Len(a) = n /\ \A i \in 1..n : a[i] = <<s, i>>
  BY <1>1, <1>2 DEF Text
<1>4. Len(b) = m - n /\ \A i \in 1..(m - n) : b[i] = <<s, n + i>>
  BY <1>1, <1>2 DEF Text
<1>5. Len(c) = m /\ \A i \in 1..m : c[i] = <<s, i>>
  BY <1>1, <1>2 DEF Text
<1> HIDE DEF a, b, c
<1>6. a \o b \in Seq(Words) /\ Len(a \o b) = m
  <2>1. a \o b \in Seq(Words) /\ Len(a \o b) = Len(a) + Len(b)
    BY <1>1, ConcatProperties
  <2>2. n + (m - n) = m
    OBVIOUS
  <2> QED
    BY <1>3, <1>4, <2>1, <2>2
<1>7. \A i \in 1..m : (a \o b)[i] = c[i]
  <2> TAKE i \in 1..m
  <2>1. CASE i <= n
    <3>1. (a \o b)[i] = a[i] /\ i \in 1..n
      BY <1>1, <1>3, <1>4, <2>1
    <3> QED
      BY <1>3, <1>5, <3>1
  <2>2. CASE ~(i <= n)
    <3>1. (a \o b)[i] = b[i - n] /\ i - n \in 1..(m - n) /\ n + (i - n) = i
      BY <1>1, <1>3, <1>4, <2>2
    <3> QED
      BY <1>4, <1>5, <3>1
  <2> QED
    BY <2>1, <2>2
<1>8. a \o b = c
  BY <1>1, <1>5, <1>6, <1>7
<1> QED
  BY <1>8 DEF a, b, c


LEMMA PassType ==
    ASSUME NEW kind \in PassKinds, NEW s \in Owners, NEW from \in Nat, NEW to \in Nat
    PROVE  /\ Pass(kind, s, from, to) \in Passes
           /\ Pass(kind, s, from, to).kind = kind
           /\ Pass(kind, s, from, to).start = s
           /\ Pass(kind, s, from, to).from = from
           /\ Pass(kind, s, from, to).to = to
BY DEF Pass, Passes

LEMMA WarmupType == Warmup \in Passes /\ Warmup.kind = "warmup"
BY DEF Warmup, Passes, PassKinds, Owners

LEMMA WithoutType ==
    ASSUME NEW q \in Seq(Passes), NEW i \in 1..Len(q)
    PROVE  Without(q, i) \in Seq(Passes)
<1>1. SubSeq(q, 1, i - 1) \in Seq(Passes)
  <2>1. \A j \in 1..(i - 1) : q[j] \in Passes
    OBVIOUS
  <2> QED
    BY <2>1, SubSeqProperties
<1>2. SubSeq(q, i + 1, Len(q)) \in Seq(Passes)
  <2>1. \A j \in (i + 1)..Len(q) : q[j] \in Passes
    OBVIOUS
  <2> QED
    BY <2>1, SubSeqProperties
<1> QED
  BY <1>1, <1>2 DEF Without

\* The fields of a fresh hook, and that it fits.
LEMMA FreshFits ==
    ASSUME NEW kind \in Kinds
    PROVE  /\ Fresh(kind) \in Hooks
           /\ Fresh(kind).kind = kind /\ Fresh(kind).held = 0 /\ ~Fresh(kind).ticking
           /\ HookFits(Fresh(kind))
<1> DEFINE h == Fresh(kind)
<1>1. /\ h.kind = kind /\ h.status = "idle" /\ h.start = 0 /\ h.chunks = 0
      /\ h.processing = FALSE /\ h.pendingFinal = FALSE /\ h.committed = <<>>
      /\ h.segmentStart = 0 /\ h.transcript = <<>> /\ h.held = 0 /\ h.ticking = FALSE
  BY DEF Fresh
<1>2. h \in Hooks
  <2>1. <<>> \in Seq(Words) /\ 0 \in Owners /\ "idle" \in Statuses
    BY DEF Owners, Statuses
  <2> QED
    BY <2>1, WarmupType DEF Fresh, Hooks
<1>3. Text(0, 0, 0) = <<>>
  BY TextIsEmpty DEF Owners
<1> HIDE DEF h
<1>4. HookFits(h)
  <2>1. RunFits(h)
    BY <1>1 DEF RunFits
  <2>2. TextFits(h)
    BY <1>1, <1>3 DEF TextFits
  <2> QED
    BY <2>1, <2>2 DEF HookFits
<1> QED
  BY <1>1, <1>2, <1>4 DEF h

LEMMA ResetHookFits ==
    ASSUME NEW h \in Hooks, NEW e \in Owners
    PROVE  /\ ResetHook(h, e) \in Hooks
           /\ ResetHook(h, e).kind = h.kind /\ ResetHook(h, e).held = 0 /\ ~ResetHook(h, e).ticking
           /\ HookFits(ResetHook(h, e))
<1>1. h.kind \in Kinds /\ h.loadError \in BOOLEAN
  BY DEF Hooks
<1>2. PICK f \in Hooks : f = Fresh(h.kind)
  BY <1>1, FreshFits
<1>3. f.kind = h.kind /\ f.held = 0 /\ ~f.ticking /\ HookFits(f)
  BY <1>1, <1>2, FreshFits
<1>4. PICK g : g = [f EXCEPT !.loadError = h.loadError, !.edited = e]
  OBVIOUS
<1>5. ResetHook(h, e) = g
  BY <1>2, <1>4 DEF ResetHook
<1>6. g \in Hooks
  BY <1>1, <1>4 DEF Hooks
<1>7. /\ g.kind = f.kind /\ g.status = f.status /\ g.start = f.start /\ g.chunks = f.chunks
      /\ g.processing = f.processing /\ g.sent = f.sent /\ g.pendingFinal = f.pendingFinal
      /\ g.committed = f.committed /\ g.segmentStart = f.segmentStart
      /\ g.transcript = f.transcript /\ g.held = f.held /\ g.ticking = f.ticking
      /\ g.own = f.own
  BY <1>4 DEF Hooks
<1>8. HookFits(g)
  BY <1>3, <1>7 DEF HookFits, RunFits, TextFits, SentFits
<1> QED
  BY <1>3, <1>5, <1>6, <1>7, <1>8

LEMMA TeardownFits ==
    ASSUME NEW h \in Hooks, HookFits(h)
    PROVE  /\ TeardownCapture(h) \in Hooks
           /\ TeardownCapture(h).kind = h.kind
           /\ TeardownCapture(h).held = 0 /\ ~TeardownCapture(h).ticking
           /\ HookFits(TeardownCapture(h))
           /\ \A s : Begun(h, s) => Begun(TeardownCapture(h), s)
<1>1. PICK g : g = TeardownCapture(h)
  OBVIOUS
<1>2. g \in Hooks
  BY <1>1 DEF Hooks, TeardownCapture, Owners
<1>3. /\ g.kind = h.kind /\ g.status = h.status /\ g.start = h.start /\ g.chunks = h.chunks
      /\ g.processing = h.processing /\ g.sent = h.sent /\ g.pendingFinal = h.pendingFinal
      /\ g.committed = h.committed /\ g.segmentStart = h.segmentStart
      /\ g.transcript = h.transcript /\ g.held = 0 /\ g.ticking = FALSE /\ g.own = h.own
  BY <1>1 DEF Hooks, TeardownCapture
<1>4. HookFits(g)
  BY <1>3 DEF HookFits, RunFits, TextFits, SentFits
<1> QED
  BY <1>1, <1>2, <1>3, <1>4 DEF Begun

\* transcribe(final), of a recording that has stopped.
LEMMA FinalizeFits ==
    ASSUME NEW h \in Hooks, HookFits(h), ~h.ticking, h.status # "ready"
    PROVE  /\ Finalize(h) \in Hooks
           /\ Finalize(h).kind = h.kind /\ Finalize(h).held = h.held
           /\ Finalize(h).ticking = h.ticking
           /\ HookFits(Finalize(h))
           /\ \A s : Begun(h, s) => Begun(Finalize(h), s)
<1>1. /\ h.start \in Owners /\ h.chunks \in Nat /\ h.segmentStart \in Nat
      /\ "ready" \in Statuses /\ "final" \in PassKinds
  BY DEF Hooks, Statuses, PassKinds
<1>2. CASE h.processing
  <2>1. PICK g : g = [h EXCEPT !.pendingFinal = TRUE]
    OBVIOUS
  <2>2. g = Finalize(h) /\ g \in Hooks
    BY <1>2, <2>1 DEF Finalize, Hooks
  <2>3. /\ g.kind = h.kind /\ g.status = h.status /\ g.start = h.start /\ g.chunks = h.chunks
        /\ g.processing = h.processing /\ g.sent = h.sent
        /\ g.committed = h.committed /\ g.segmentStart = h.segmentStart
        /\ g.transcript = h.transcript /\ g.held = h.held /\ g.ticking = h.ticking
        /\ g.own = h.own
    BY <2>1 DEF Hooks
  <2>4. HookFits(g)
    BY <2>3 DEF HookFits, RunFits, TextFits, SentFits
  <2> QED
    BY <1>2, <2>2, <2>3, <2>4 DEF Begun
<1>3. CASE ~h.processing /\ h.chunks = 0
  <2>1. PICK g : g = [h EXCEPT !.status = "ready"]
    OBVIOUS
  <2>2. g = Finalize(h) /\ g \in Hooks
    BY <1>1, <1>3, <2>1 DEF Finalize, Hooks
  <2>3. /\ g.kind = h.kind /\ g.status = "ready" /\ g.start = h.start /\ g.chunks = h.chunks
        /\ g.processing = h.processing /\ g.sent = h.sent /\ g.pendingFinal = h.pendingFinal
        /\ g.committed = h.committed /\ g.segmentStart = h.segmentStart
        /\ g.transcript = h.transcript /\ g.held = h.held /\ g.ticking = h.ticking
        /\ g.own = h.own
    BY <2>1 DEF Hooks
  <2>4. RunFits(g)
    BY <1>3, <2>3 DEF HookFits, RunFits
  <2>5. TextFits(h) => TextFits(g)
    BY <1>3, <2>3 DEF TextFits
  <2> QED
    BY <2>2, <2>3, <2>4, <2>5 DEF HookFits, Begun
<1>4. CASE ~h.processing /\ h.chunks # 0
  <2>1. PICK job \in Passes : job = Pass("final", h.start, 0, h.chunks) /\ job.kind = "final"
    BY <1>1, PassType
  <2>2. PICK g : g = [h EXCEPT !.processing = TRUE, !.sentCommit = FALSE, !.sent = job]
    OBVIOUS
  <2>3. g = Finalize(h) /\ g \in Hooks
    BY <1>4, <2>1, <2>2 DEF Finalize, Hooks
  <2>4. /\ g.kind = h.kind /\ g.status = h.status /\ g.start = h.start /\ g.chunks = h.chunks
        /\ g.processing = TRUE /\ g.sent = job /\ g.pendingFinal = h.pendingFinal
        /\ g.committed = h.committed /\ g.segmentStart = h.segmentStart
        /\ g.transcript = h.transcript /\ g.held = h.held /\ g.ticking = h.ticking
        /\ g.own = h.own
    BY <2>2 DEF Hooks
  <2>5. RunFits(g)
    BY <2>4 DEF HookFits, RunFits
  <2>6. TextFits(h) => TextFits(g)
    BY <2>1, <2>4 DEF TextFits, SentFits
  <2> QED
    BY <1>4, <2>3, <2>4, <2>5, <2>6 DEF HookFits, Begun
<1> QED
  BY <1>2, <1>3, <1>4 DEF Hooks


\* What startRecording makes of the hook, whatever was shown before.
BegunHook(h, s) ==
    [h EXCEPT !.start = s, !.chunks = 0, !.processing = FALSE, !.sent = Warmup,
              !.sentCommit = FALSE, !.pendingFinal = FALSE, !.committed = <<>>,
              !.segmentStart = 0, !.transcript = <<>>, !.own = TRUE]

LEMMA BegunHookFits ==
    ASSUME NEW h \in Hooks, HookFits(h), ~h.ticking, NEW s \in Starts
    PROVE  /\ BegunHook(h, s) \in Hooks
           /\ BegunHook(h, s).kind = h.kind /\ ~BegunHook(h, s).ticking
           /\ HookFits(BegunHook(h, s))
           /\ Begun(BegunHook(h, s), s)
<1>1. PICK g : g = BegunHook(h, s)
  OBVIOUS
<1>2. g \in Hooks
  <2>1. s \in Owners /\ Warmup \in Passes /\ <<>> \in Seq(Words)
    BY WarmupType DEF Owners
  <2> QED
    BY <1>1, <2>1 DEF Hooks, BegunHook
<1>3. /\ g.kind = h.kind /\ g.status = h.status /\ g.start = s /\ g.chunks = 0
      /\ g.processing = FALSE /\ g.pendingFinal = FALSE /\ g.committed = <<>>
      /\ g.segmentStart = 0 /\ g.transcript = <<>> /\ g.held = h.held
      /\ g.ticking = h.ticking
  BY <1>1 DEF Hooks, BegunHook
<1>4. Text(s, 0, 0) = <<>>
  BY TextIsEmpty DEF Owners
<1>5. RunFits(g)
  BY <1>3 DEF HookFits, RunFits
<1>6. TextFits(g)
  BY <1>3, <1>4 DEF TextFits
<1> QED
  BY <1>1, <1>2, <1>3, <1>5, <1>6 DEF HookFits, Begun

LEMMA FailedFits ==
    ASSUME NEW h \in Hooks, HookFits(h)
    PROVE  /\ Failed(h) \in Hooks /\ HookFits(Failed(h))
           /\ Failed(h).kind = h.kind /\ Failed(h).held = h.held
           /\ Failed(h).ticking = h.ticking
<1>1. PICK g : g = Failed(h)
  OBVIOUS
<1>2. g \in Hooks
  BY <1>1 DEF Hooks, Failed, Statuses
<1>3. /\ g.kind = h.kind /\ g.status = "error" /\ g.start = h.start /\ g.chunks = h.chunks
      /\ g.processing = FALSE /\ g.pendingFinal = h.pendingFinal
      /\ g.committed = h.committed /\ g.segmentStart = h.segmentStart
      /\ g.transcript = h.transcript /\ g.held = h.held /\ g.ticking = h.ticking
      /\ g.own = h.own
  BY <1>1 DEF Hooks, Failed
<1>4. HookFits(g)
  BY <1>3 DEF HookFits, RunFits, TextFits
<1> QED
  BY <1>1, <1>2, <1>3, <1>4

LEMMA LoadErrorFits ==
    ASSUME NEW h \in Hooks, HookFits(h)
    PROVE  LET g == [h EXCEPT !.loadError = TRUE] IN
           /\ g \in Hooks /\ HookFits(g)
           /\ g.kind = h.kind /\ g.held = h.held /\ g.ticking = h.ticking
           /\ \A s : Begun(h, s) => Begun(g, s)
<1>1. PICK g : g = [h EXCEPT !.loadError = TRUE]
  OBVIOUS
<1>2. g \in Hooks
  BY <1>1 DEF Hooks
<1>3. /\ g.kind = h.kind /\ g.status = h.status /\ g.start = h.start /\ g.chunks = h.chunks
      /\ g.processing = h.processing /\ g.sent = h.sent /\ g.pendingFinal = h.pendingFinal
      /\ g.committed = h.committed /\ g.segmentStart = h.segmentStart
      /\ g.transcript = h.transcript /\ g.held = h.held /\ g.ticking = h.ticking
      /\ g.own = h.own
  BY <1>1 DEF Hooks
<1>4. HookFits(g)
  BY <1>3 DEF HookFits, RunFits, TextFits, SentFits
<1> QED
  BY <1>1, <1>2, <1>3, <1>4 DEF Begun

\* A partial pass: the committed segments and the answer are a beginning of the recording.
LEMMA PartialFits ==
    ASSUME NEW h \in Hooks, HookFits(h), NEW job \in Passes, h.processing,
           h.kind = "dictate" => h.sent.kind # "final"
    PROVE  LET text == Text(job.start, job.from, job.to)
               part == Partial([h EXCEPT !.own = @ /\ job = h.sent], text)
           IN /\ part \in Hooks /\ HookFits(part)
              /\ part.kind = h.kind /\ part.held = h.held /\ part.ticking = h.ticking
              /\ part.status = h.status /\ part.pendingFinal = h.pendingFinal
              /\ part.status # "ready"
<1>1. PICK text \in Seq(Words) : text = Text(job.start, job.from, job.to)
  BY TextIsWords DEF Passes
<1>2. PICK m : m = [h EXCEPT !.own = @ /\ job = h.sent]
  OBVIOUS
<1>3. m \in Hooks
  BY <1>2 DEF Hooks
<1>4. /\ m.kind = h.kind /\ m.status = h.status /\ m.start = h.start /\ m.chunks = h.chunks
      /\ m.sent = h.sent /\ m.sentCommit = h.sentCommit /\ m.pendingFinal = h.pendingFinal
      /\ m.committed = h.committed /\ m.segmentStart = h.segmentStart
      /\ m.held = h.held /\ m.ticking = h.ticking /\ m.own = (h.own /\ job = h.sent)
  BY <1>2 DEF Hooks
<1>5. PICK part : part = Partial(m, text)
  OBVIOUS
<1>6. /\ h.committed \o text \in Seq(Words)
      /\ m.sent.to \in Nat
  BY <1>1, <1>4, ConcatProperties DEF Hooks, Passes
<1>7. part \in Hooks
  <2>1. CASE m.sentCommit
    BY <1>3, <1>4, <1>5, <1>6, <2>1 DEF Hooks, Partial, NextSegment
  <2>2. CASE ~m.sentCommit
    BY <1>3, <1>4, <1>5, <1>6, <2>2 DEF Hooks, Partial
  <2> QED
    BY <2>1, <2>2
<1>8. /\ part.kind = h.kind /\ part.status = h.status /\ part.start = h.start
      /\ part.chunks = h.chunks /\ part.processing = FALSE
      /\ part.pendingFinal = h.pendingFinal /\ part.transcript = h.committed \o text
      /\ part.held = h.held /\ part.ticking = h.ticking /\ part.own = m.own
      /\ \/ part.committed = h.committed \o text /\ part.segmentStart = h.sent.to
         \/ part.committed = h.committed /\ part.segmentStart = h.segmentStart
  <2>1. CASE m.sentCommit
    BY <1>3, <1>4, <1>5, <2>1 DEF Hooks, Partial, NextSegment
  <2>2. CASE ~m.sentCommit
    BY <1>3, <1>4, <1>5, <2>2 DEF Hooks, Partial
  <2> QED
    BY <2>1, <2>2
<1>9. RunFits(part) /\ part.status # "ready"
  BY <1>8 DEF HookFits, RunFits
<1>10. ASSUME part.kind = "dictate", part.own PROVE TextFits(part)
  <2>1. h.kind = "dictate" /\ h.own /\ job = h.sent /\ TextFits(h)
    BY <1>4, <1>8, <1>10 DEF HookFits
  <2>2. /\ h.start \in Owners /\ h.chunks \in Nat /\ h.segmentStart \in Nat
        /\ "partial" \in PassKinds /\ "final" \in PassKinds
    BY DEF Hooks, PassKinds
  <2>3. PICK n \in h.segmentStart..h.chunks :
            h.sent = Pass("partial", h.start, h.segmentStart, n)
    BY <2>1, <2>2, PassType DEF TextFits, SentFits
  <2>4. /\ job.start = h.start /\ job.from = h.segmentStart /\ job.to = n /\ n \in Nat
    BY <2>1, <2>2, <2>3, PassType
  <2>5. h.committed \o text = Text(h.start, 0, n)
    <3>1. h.segmentStart <= n /\ h.committed = Text(h.start, 0, h.segmentStart)
      BY <2>1, <2>2 DEF TextFits
    <3>2. text = Text(h.start, h.segmentStart, n)
      BY <1>1, <2>4
    <3>3. Text(h.start, 0, h.segmentStart) \o Text(h.start, h.segmentStart, n)
             = Text(h.start, 0, n)
      BY <2>2, <2>4, <3>1, TextsJoin
    <3> QED
      BY <3>1, <3>2, <3>3
  <2>6. n \in 0..h.chunks /\ h.sent.to = n
    BY <2>1, <2>2, <2>4
  <2>7. /\ part.segmentStart <= part.chunks
        /\ part.committed = Text(part.start, 0, part.segmentStart)
    <3>1. /\ h.segmentStart <= h.chunks
          /\ h.committed = Text(h.start, 0, h.segmentStart)
      BY <2>1 DEF TextFits
    <3>2. CASE part.committed = h.committed /\ part.segmentStart = h.segmentStart
      BY <1>8, <3>1, <3>2
    <3>3. CASE part.committed = h.committed \o text /\ part.segmentStart = h.sent.to
      BY <1>8, <2>2, <2>5, <2>6, <3>3
    <3> QED
      BY <1>8, <3>2, <3>3
  <2> QED
    BY <1>8, <1>9, <2>5, <2>6, <2>7 DEF TextFits
<1>11. HookFits(part)
  BY <1>9, <1>10 DEF HookFits
<1>12. part = Partial([h EXCEPT !.own = @ /\ job = h.sent], Text(job.start, job.from, job.to))
  BY <1>1, <1>2, <1>5
<1> QED
  BY <1>7, <1>8, <1>9, <1>11, <1>12


\* The answer to a pass, taken by a hook that has one in progress.
LEMMA AnsweredFits ==
    ASSUME NEW h \in Hooks, HookFits(h), NEW job \in Passes, h.processing
    PROVE  /\ Answered(h, job) \in Hooks /\ HookFits(Answered(h, job))
           /\ Answered(h, job).kind = h.kind /\ Answered(h, job).held = h.held
           /\ Answered(h, job).ticking = h.ticking
<1>1. PICK text \in Seq(Words) : text = Text(job.start, job.from, job.to)
  BY TextIsWords DEF Passes
<1>2. PICK m : m = [h EXCEPT !.own = @ /\ job = h.sent]
  OBVIOUS
<1>3. m \in Hooks /\ "ready" \in Statuses
  BY <1>2 DEF Hooks, Statuses
<1>4. /\ m.kind = h.kind /\ m.status = h.status /\ m.start = h.start /\ m.chunks = h.chunks
      /\ m.pendingFinal = h.pendingFinal /\ m.held = h.held /\ m.ticking = h.ticking
      /\ m.own = (h.own /\ job = h.sent)
  BY <1>2 DEF Hooks
<1>5. CASE h.kind = "upload"
  <2>1. PICK g : g = [m EXCEPT !.processing = FALSE, !.transcript = text, !.status = "ready"]
    OBVIOUS
  <2>2. Answered(h, job) = g
    BY <1>1, <1>2, <1>5, <2>1 DEF Answered
  <2>3. g \in Hooks
    BY <1>3, <2>1 DEF Hooks
  <2>4. /\ g.kind = h.kind /\ g.held = h.held /\ g.ticking = h.ticking
        /\ g.processing = FALSE
    BY <1>3, <1>4, <2>1 DEF Hooks
  <2>5. HookFits(g)
    BY <1>5, <2>4 DEF HookFits, RunFits
  <2> QED
    BY <2>2, <2>3, <2>4, <2>5
<1>6. CASE h.kind = "dictate" /\ h.sent.kind = "final"
  <2>1. PICK g : g = [m EXCEPT !.processing = FALSE, !.transcript = text, !.status = "ready",
                               !.committed = <<>>, !.segmentStart = 0]
    OBVIOUS
  <2>2. Answered(h, job) = g
    BY <1>1, <1>2, <1>6, <2>1 DEF Answered
  <2>3. g \in Hooks
    <3>1. <<>> \in Seq(Words) /\ 0 \in Nat
      OBVIOUS
    <3> QED
      BY <1>3, <2>1, <3>1 DEF Hooks
  <2>4. /\ g.kind = h.kind /\ g.held = h.held /\ g.ticking = h.ticking
        /\ g.processing = FALSE /\ g.transcript = text /\ g.status = "ready"
        /\ g.committed = <<>> /\ g.segmentStart = 0 /\ g.start = h.start
        /\ g.chunks = h.chunks /\ g.own = m.own
    BY <1>3, <1>4, <2>1 DEF Hooks
  <2>5. RunFits(g)
    BY <1>6, <2>4 DEF HookFits, RunFits
  <2>6. ASSUME g.own PROVE TextFits(g)
    <3>1. TextFits(h) /\ job = h.sent
      BY <1>4, <1>6, <2>4, <2>6 DEF HookFits
    <3>2. /\ h.start \in Owners /\ h.chunks \in Nat /\ h.segmentStart \in Nat
          /\ "partial" \in PassKinds /\ "final" \in PassKinds
      BY DEF Hooks, PassKinds
    <3>3. h.sent = Pass("final", h.start, 0, h.chunks)
      BY <1>6, <3>1, <3>2, PassType DEF TextFits, SentFits
    <3>4. text = Text(h.start, 0, h.chunks)
      BY <1>1, <3>1, <3>2, <3>3, PassType
    <3>5. Text(h.start, 0, 0) = <<>>
      BY <3>2, TextIsEmpty
    <3> QED
      BY <2>4, <3>2, <3>4, <3>5 DEF TextFits
  <2> QED
    BY <2>2, <2>3, <2>4, <2>5, <2>6 DEF HookFits
<1>7. CASE h.kind # "upload" /\ ~(h.kind = "dictate" /\ h.sent.kind = "final")
  <2>1. PICK part \in Hooks : part = Partial(m, text)
    BY <1>1, <1>2, <1>7, PartialFits
  <2>2. /\ HookFits(part) /\ part.kind = h.kind /\ part.held = h.held
        /\ part.ticking = h.ticking /\ part.status = h.status
        /\ part.pendingFinal = h.pendingFinal /\ part.status # "ready"
    BY <1>1, <1>2, <1>7, <2>1, PartialFits
  <2>3. CASE ~h.pendingFinal
    <3>1. Answered(h, job) = part
      BY <1>1, <1>2, <1>7, <2>1, <2>3 DEF Answered, PendingFinal
    <3> QED
      BY <2>1, <2>2, <3>1
  <2>4. CASE h.pendingFinal
    <3>1. PICK g : g = [part EXCEPT !.pendingFinal = FALSE]
      OBVIOUS
    <3>2. Answered(h, job) = Finalize(g)
      BY <1>1, <1>2, <1>7, <2>1, <2>4, <3>1 DEF Answered, PendingFinal
    <3>3. g \in Hooks
      BY <2>1, <3>1 DEF Hooks
    <3>4. /\ g.kind = part.kind /\ g.status = part.status /\ g.start = part.start
          /\ g.chunks = part.chunks /\ g.processing = part.processing /\ g.sent = part.sent
          /\ g.pendingFinal = FALSE /\ g.committed = part.committed
          /\ g.segmentStart = part.segmentStart /\ g.transcript = part.transcript
          /\ g.held = part.held /\ g.ticking = part.ticking /\ g.own = part.own
      BY <2>1, <3>1 DEF Hooks
    <3>5. HookFits(g)
      BY <2>2, <3>4 DEF HookFits, RunFits, TextFits, SentFits
    <3>6. ~g.ticking
      BY <2>2, <2>4, <3>4 DEF HookFits, RunFits
    <3> QED
      BY <2>2, <3>2, <3>3, <3>4, <3>5, <3>6, FinalizeFits
  <2> QED
    BY <2>3, <2>4 DEF Hooks
<1> QED
  BY <1>5, <1>6, <1>7

LEMMA FinalJobsType ==
    ASSUME NEW h \in Hooks
    PROVE  FinalJobs(h) \in Seq(Passes)
<1>1. Pass("final", h.start, 0, h.chunks) \in Passes
  BY PassType DEF Hooks, PassKinds
<1> QED
  BY <1>1 DEF FinalJobs

LEMMA AnsweredJobsType ==
    ASSUME NEW h \in Hooks, HookFits(h), NEW job \in Passes, h.processing
    PROVE  AnsweredJobs(h, job) \in Seq(Passes)
<1>1. CASE h.kind = "dictate" /\ h.sent.kind = "partial" /\ PendingFinal(h)
  <2>1. <<>> \in Seq(Words) /\ h.committed \o <<>> \in Seq(Words) /\ h.sent.to \in Nat
    BY ConcatProperties DEF Hooks, Passes
  <2>2. Partial(h, <<>>) \in Hooks
    <3>1. CASE h.sentCommit
      BY <2>1, <3>1 DEF Hooks, Partial, NextSegment
    <3>2. CASE ~h.sentCommit
      BY <2>1, <3>2 DEF Hooks, Partial
    <3> QED
      BY <3>1, <3>2
  <2> QED
    BY <1>1, <2>2, FinalJobsType DEF AnsweredJobs
<1>2. CASE ~(h.kind = "dictate" /\ h.sent.kind = "partial" /\ PendingFinal(h))
  BY <1>2 DEF AnsweredJobs
<1> QED
  BY <1>1, <1>2


LEMMA WorkerType ==
    ASSUME Types
    PROVE  /\ \A force \in BOOLEAN :
                /\ EnsureModelLoaded(force) \in Workers
                /\ EnsureModelLoaded(force).ready => worker.ready
           /\ EnsureModelLoaded(FALSE).ready = worker.ready
           /\ ~lowMemory => /\ WarmUpWorker(worker, FALSE) \in Workers
                            /\ WarmUpWorker(worker, FALSE).ready = worker.ready
           /\ WorkerOnUnmount \in Workers
           /\ WorkerOnUnmount.ready => worker.ready
<1>1. worker \in Workers /\ lowMemory \in BOOLEAN
  BY DEF Types
<1>2. Cold \in Workers /\ Cold.ready = FALSE /\ <<>> \in Seq(Passes)
  BY DEF Cold, Workers
<1>3. ASSUME NEW w \in Workers, NEW force \in BOOLEAN
      PROVE  WarmUpWorker(w, force) \in Workers /\ WarmUpWorker(w, force).ready = w.ready
  <2>1. w.jobs \in Seq(Passes) /\ Append(w.jobs, Warmup) \in Seq(Passes)
    BY WarmupType DEF Workers
  <2> QED
    BY <2>1 DEF WarmUpWorker, Workers
<1>4. ASSUME NEW force \in BOOLEAN
      PROVE  /\ EnsureModelLoaded(force) \in Workers
             /\ EnsureModelLoaded(force).ready => worker.ready
  BY <1>1, <1>2, <1>3 DEF EnsureModelLoaded
<1>5. EnsureModelLoaded(FALSE).ready = worker.ready
  BY <1>1, <1>3 DEF EnsureModelLoaded
<1> QED
  BY <1>1, <1>2, <1>3, <1>4, <1>5 DEF WorkerOnUnmount

---------------------------------------------------------------------------
\* Most steps only bring starts to an end, turn microphones off and change hooks in ways that
\* keep what holds of them.

Engaged(s) ==
    \/ starts[s].pc \in {"preparing", "prepared"}
    \/ starts[s].current /\ Capturing(s)

StartsEnd ==
    \A s \in Starts :
        /\ starts'[s].panel = starts[s].panel
        /\ \/ starts'[s].pc = starts[s].pc
           \/ starts[s].pc # "none" /\ starts'[s].pc = "done"
        /\ starts'[s].current => starts[s].current /\ starts'[s].pc = starts[s].pc

HooksKeep ==
    /\ \A p \in Panels :
         /\ HookFits(hook'[p])
         /\ hook'[p].ticking => hook[p].ticking
         /\ hook[p].kind # "none" => hook'[p].kind = hook[p].kind
    /\ \A s \in Starts :
         starts'[s].current /\ Capturing(s) /\ Begun(hook[starts[s].panel], s) =>
           Begun(hook'[starts[s].panel], s)

MicsEnd ==
    /\ mics' \subseteq mics
    /\ escaped \subseteq escaped'
    /\ \A s \in Live' :
         /\ starts'[s] = starts[s]
         /\ hook'[mounted].held = hook[mounted].held
         /\ hook'[mounted].ticking = hook[mounted].ticking

PageKeeps ==
    /\ \/ locked' = locked /\ mounted' = mounted
       \/ Live' = {} /\ \A s \in Starts \ escaped' : ~Engaged(s)'
    /\ \/ mounted' = mounted
       \/ \A s \in Starts : Capturing(s) => starts[s].panel # mounted'
    /\ worker'.ready => worker.ready
    /\ \/ worker'.ready = worker.ready
       \/ Live' = {} /\ \A s \in Starts :
            /\ starts[s].pc # "prepared"
            /\ Capturing(s) => starts[s].panel # mounted'

LEMMA EndingKeeps ==
    ASSUME VoiceInv, Types', StartsEnd, HooksKeep, MicsEnd, PageKeeps
    PROVE  VoiceInv'
<1>1. Types /\ Live' \subseteq Live /\ Live \subseteq Starts
  BY DEF VoiceInv, Types, MicsEnd, Live
<1>2. WorkerFits'
  <2>1. Live' # {} => worker'.ready
    BY <1>1 DEF VoiceInv, WorkerFits, PageKeeps
  <2>2. ASSUME NEW s \in Starts
        PROVE  /\ starts'[s].pc = "preparing" => ~worker'.ready
               /\ starts'[s].pc = "prepared" => worker'.ready /\ Live' = {}
               /\ starts'[s].panel = mounted' /\ Capturing(s)' => worker'.ready
    <3>1. /\ starts[s].pc = "preparing" => ~worker.ready
          /\ starts[s].pc = "prepared" => worker.ready /\ Live = {}
          /\ starts[s].panel = mounted /\ Capturing(s) => worker.ready
      BY DEF VoiceInv, WorkerFits
    <3>2. /\ starts'[s].panel = starts[s].panel
          /\ \/ starts'[s].pc = starts[s].pc
             \/ starts'[s].pc = "done"
      BY DEF StartsEnd
    <3> QED
      BY <1>1, <3>1, <3>2 DEF PageKeeps, Capturing
  <2> QED
    BY <2>1, <2>2 DEF WorkerFits
<1>3. ASSUME NEW s \in Starts PROVE PanelFits(s)'
  <2>1. /\ starts'[s].panel = starts[s].panel
        /\ \/ starts'[s].pc = starts[s].pc
           \/ starts[s].pc # "none" /\ starts'[s].pc = "done"
    BY DEF StartsEnd
  <2>2. PanelFits(s)
    BY DEF VoiceInv
  <2>3. starts[s].pc # "none" =>
          /\ starts[s].panel \in Panels
          /\ hook'[starts[s].panel].kind = hook[starts[s].panel].kind
    BY <2>2 DEF PanelFits, HooksKeep
  <2> QED
    BY <2>1, <2>2, <2>3 DEF PanelFits
<1>4. ASSUME NEW s \in Starts PROVE StartFits(s)'
  <2>1. /\ starts'[s].panel = starts[s].panel
        /\ \/ starts'[s].pc = starts[s].pc
           \/ starts[s].pc # "none" /\ starts'[s].pc = "done"
        /\ starts'[s].current => starts[s].current /\ starts'[s].pc = starts[s].pc
    BY DEF StartsEnd
  <2>2. StartFits(s) /\ PanelFits(s)
    BY DEF VoiceInv
  <2>3. /\ starts'[s].current => starts'[s].pc \in {"asking", "adding", "decoding"}
        /\ s \in mics' => starts'[s].pc \in {"adding", "done"}
    BY <2>1, <2>2 DEF StartFits, MicsEnd
  <2>4. s \notin escaped' =>
         /\ starts'[s].pc \in {"preparing", "prepared"} => mounted' = starts'[s].panel /\ ~locked'
         /\ starts'[s].current /\ Capturing(s)' => mounted' = starts'[s].panel /\ ~locked'
    <3>1. CASE locked' = locked /\ mounted' = mounted
      BY <2>1, <2>2, <3>1 DEF StartFits, Capturing, MicsEnd
    <3>2. CASE \A r \in Starts \ escaped' : ~Engaged(r)'
      BY <3>2 DEF Engaged
    <3> QED
      BY <3>1, <3>2 DEF PageKeeps
  <2>5. starts'[s].pc \in {"preparing", "prepared"} => ~hook'[starts'[s].panel].ticking
    BY <2>1, <2>2 DEF StartFits, PanelFits, HooksKeep
  <2>6. starts'[s].current /\ Capturing(s)' => Begun(hook'[starts'[s].panel], s)
    BY <2>1, <2>2 DEF StartFits, HooksKeep, Capturing
  <2> QED
    BY <2>3, <2>4, <2>5, <2>6 DEF StartFits, Begun
<1>5. ASSUME NEW s \in Starts, NEW r \in Starts PROVE PairFits(s, r)'
  <2>1. PairFits(s, r)
    BY DEF VoiceInv
  <2> QED
    BY <2>1 DEF PairFits, StartsEnd, Capturing
<1>6. ASSUME NEW s \in Live' PROVE MicFits(s)'
  <2>1. s \in Live /\ s \in Starts /\ MicFits(s)
    BY <1>1, <1>6 DEF VoiceInv
  <2>2. locked' = locked /\ mounted' = mounted
    BY <1>6 DEF PageKeeps
  <2> QED
    BY <1>6, <2>1, <2>2 DEF MicFits, MicsEnd
<1>7. \A p \in Panels : HookFits(hook[p])'
  BY DEF HooksKeep
<1> QED
  BY <1>2, <1>3, <1>4, <1>5, <1>6, <1>7 DEF VoiceInv


LEMMA LiveHolds ==
    ASSUME VoiceInv, NEW s \in Live
    PROVE  /\ s \in Starts /\ mounted \in Panels /\ ~locked /\ worker.ready
           /\ mounted = starts[s].panel /\ starts[s].pc \in {"adding", "done"}
           /\ hook[mounted].held = s /\ hook[mounted].kind = "dictate"
<1>1. s \in Starts /\ s # 0 /\ s \in mics /\ worker.ready
  BY DEF VoiceInv, Types, Live, Starts, WorkerFits
<1>2. MicFits(s) /\ StartFits(s) /\ PanelFits(s)
  BY <1>1 DEF VoiceInv
<1>3. starts[s].pc \in {"adding", "done"} /\ mounted \in Panels
  BY <1>1, <1>2 DEF MicFits, StartFits, PanelFits
<1>4. HookFits(hook[mounted])
  BY <1>3 DEF VoiceInv
<1> QED
  BY <1>1, <1>2, <1>3, <1>4 DEF MicFits, HookFits, RunFits

\* The teardown of the panel on screen turns the last microphone off.
LEMMA TeardownSilences ==
    ASSUME VoiceInv, mics' = MicsAfterTeardown(hook[mounted]), escaped \subseteq escaped'
    PROVE  Live' = {} /\ MicsEnd
<1>1. Live' \subseteq Live
  BY DEF Live, MicsAfterTeardown
<1>2. Live' = {}
  BY <1>1, LiveHolds DEF Live, MicsAfterTeardown
<1> QED
  BY <1>2 DEF MicsEnd, MicsAfterTeardown

LEMMA HookIsFit ==
    ASSUME VoiceInv, NEW p \in Panels
    PROVE  hook[p] \in Hooks /\ HookFits(hook[p])
BY DEF VoiceInv, Types

LEMMA PanelOfStart ==
    ASSUME VoiceInv, NEW s \in Starts, starts[s].pc # "none"
    PROVE  starts[s].panel \in Panels /\ hook[starts[s].panel].kind # "none"
BY DEF VoiceInv, PanelFits

LEMMA OpenKeeps ==
    ASSUME VoiceInv, NEW p \in Panels, NEW kind \in {"dictate", "upload"}, Open(p, kind)
    PROVE  VoiceInv'
<1>1. Types /\ p # 0 /\ kind \in Kinds /\ mounted = 0
  BY VoiceAssumption DEF VoiceInv, Types, Kinds, Open
<1>2. /\ Fresh(kind) \in Hooks /\ Fresh(kind).kind = kind /\ ~Fresh(kind).ticking
      /\ HookFits(Fresh(kind))
  BY <1>1, FreshFits
<1>3. /\ hook'[p] = Fresh(kind)
      /\ \A q \in Panels : q # p => hook'[q] = hook[q]
  BY <1>1 DEF Open, Types
<1>4. Live' = {}
  BY <1>1, LiveHolds, VoiceAssumption DEF Live, Open
<1>5. ASSUME NEW s \in Starts, starts[s].pc # "none" PROVE starts[s].panel \notin {p, 0}
  BY <1>1, <1>5, PanelOfStart, VoiceAssumption DEF Open
<1>6. Types'
  BY <1>1, <1>2, WorkerType DEF Open, Types
<1>7. StartsEnd
  BY DEF Open, StartsEnd
<1>8. HooksKeep
  <2>1. \A q \in Panels :
         /\ HookFits(hook'[q])
         /\ hook'[q].ticking => hook[q].ticking
         /\ hook[q].kind # "none" => hook'[q].kind = hook[q].kind
    BY <1>2, <1>3, HookIsFit DEF Open
  <2>2. ASSUME NEW s \in Starts, Capturing(s)
        PROVE  hook'[starts[s].panel] = hook[starts[s].panel]
    BY <1>3, <1>5, <2>2, PanelOfStart DEF Capturing
  <2> QED
    BY <2>1, <2>2 DEF HooksKeep
<1>9. MicsEnd
  BY <1>4 DEF MicsEnd, Open
<1>10. PageKeeps
  <2>1. \A s \in Starts \ escaped' : ~Engaged(s)'
    <3>1. ASSUME NEW s \in Starts, s \notin escaped, Engaged(s) PROVE FALSE
      <4>1. StartFits(s) /\ starts[s].pc # "none"
        BY <3>1 DEF VoiceInv, Engaged, Capturing
      <4> QED
        BY <1>1, <1>5, <3>1, <4>1 DEF StartFits, Engaged
    <3> QED
      BY <3>1 DEF Open, Engaged, Capturing
  <2>2. \A s \in Starts : Capturing(s) => starts[s].panel # mounted'
    BY <1>5 DEF Capturing, Open
  <2>3. worker'.ready = worker.ready
    BY <1>1, WorkerType DEF Open
  <2> QED
    BY <1>4, <2>1, <2>2, <2>3 DEF PageKeeps
<1> QED
  BY <1>6, <1>7, <1>8, <1>9, <1>10, EndingKeeps

LEMMA BackgroundWarmUpKeeps ==
    ASSUME VoiceInv, BackgroundWarmUp
    PROVE  VoiceInv'
<1>1. Types
  BY DEF VoiceInv
<1>2. Types'
  BY <1>1, WorkerType DEF BackgroundWarmUp, Types
<1>3. StartsEnd /\ MicsEnd
  BY DEF BackgroundWarmUp, StartsEnd, MicsEnd, Live
<1>4. HooksKeep
  BY HookIsFit DEF BackgroundWarmUp, HooksKeep
<1>5. PageKeeps
  BY <1>1, WorkerType DEF BackgroundWarmUp, PageKeeps
<1> QED
  BY <1>2, <1>3, <1>4, <1>5, EndingKeeps

LEMMA UnlockKeeps ==
    ASSUME VoiceInv, Unlock
    PROVE  VoiceInv'
<1>1. Types'
  BY DEF Unlock, Types, VoiceInv
<1>2. StartsEnd /\ MicsEnd
  BY DEF Unlock, StartsEnd, MicsEnd, Live
<1>3. HooksKeep
  BY HookIsFit DEF Unlock, HooksKeep
<1>4. Live' = {}
  BY LiveHolds DEF Unlock, Live
<1>5. ASSUME NEW s \in Starts, s \notin escaped, Engaged(s) PROVE FALSE
  <2>1. StartFits(s)
    BY DEF VoiceInv
  <2> QED
    BY <1>5, <2>1 DEF StartFits, Engaged, Unlock
<1>6. PageKeeps
  BY <1>4, <1>5 DEF Unlock, PageKeeps, Engaged, Capturing
<1> QED
  BY <1>1, <1>2, <1>3, <1>6, EndingKeeps


LEMMA UnmountKeeps ==
    ASSUME VoiceInv, Unmount
    PROVE  VoiceInv'
<1>1. Types /\ mounted \in Panels
  BY DEF VoiceInv, Types, Unmount
<1>2. PICK h : h = hook[mounted]
  OBVIOUS
<1>3. h \in Hooks /\ HookFits(h) /\ h.kind \in Kinds
  BY <1>1, <1>2, HookIsFit DEF Hooks
<1>4. PICK waits \in BOOLEAN :
          waits = \E s \in Starts : starts[s].panel = mounted /\ Waiting(s)
  OBVIOUS
<1>5. PICK g : g = IF waits THEN TeardownCapture(h) ELSE Fresh(h.kind)
  OBVIOUS
<1>6. /\ hook' = [hook EXCEPT ![mounted] = g]
      /\ mics' = MicsAfterTeardown(hook[mounted])
      /\ worker' = WorkerOnUnmount
      /\ escaped' = escaped \cup {s \in Starts : starts[s].panel = mounted /\ Waiting(s)}
      /\ mounted' = 0 /\ starts' = starts /\ locked' = locked /\ lowMemory' = lowMemory
      /\ Settled
  BY <1>2, <1>4, <1>5 DEF Unmount
<1>7. /\ g \in Hooks /\ g.kind = h.kind /\ ~g.ticking /\ HookFits(g)
      /\ waits => \A s : Begun(h, s) => Begun(g, s)
  BY <1>3, <1>5, TeardownFits, FreshFits
<1>8. /\ hook'[mounted] = g
      /\ \A q \in Panels : q # mounted => hook'[q] = hook[q]
  BY <1>1, <1>6 DEF Types
<1>9. Types'
  BY <1>1, <1>6, <1>7, WorkerType DEF Types, MicsAfterTeardown
<1>10. StartsEnd
  BY <1>6 DEF StartsEnd
<1>11. Live' = {} /\ MicsEnd
  BY <1>6, TeardownSilences
<1>12. HooksKeep
  <2>1. \A q \in Panels :
         /\ HookFits(hook'[q])
         /\ hook'[q].ticking => hook[q].ticking
         /\ hook[q].kind # "none" => hook'[q].kind = hook[q].kind
    BY <1>2, <1>7, <1>8, HookIsFit
  <2>2. ASSUME NEW s \in Starts, Capturing(s), Begun(hook[starts[s].panel], s)
        PROVE  Begun(hook'[starts[s].panel], s)
    <3>1. starts[s].panel \in Panels /\ Waiting(s)
      BY <2>2, PanelOfStart DEF Capturing, Waiting
    <3>2. CASE starts[s].panel = mounted
      BY <1>2, <1>4, <1>7, <1>8, <2>2, <3>1, <3>2
    <3>3. CASE starts[s].panel # mounted
      BY <1>8, <2>2, <3>1, <3>3
    <3> QED
      BY <3>2, <3>3
  <2> QED
    BY <2>1, <2>2 DEF HooksKeep
<1>13. PageKeeps
  <2>1. ASSUME NEW s \in Starts, s \notin escaped', Engaged(s) PROVE FALSE
    <3>1. StartFits(s) /\ s \notin escaped /\ Waiting(s)
      BY <1>6, <2>1 DEF VoiceInv, Engaged, Capturing, Waiting
    <3>2. mounted = starts[s].panel
      BY <2>1, <3>1 DEF StartFits, Engaged
    <3> QED
      BY <1>6, <2>1, <3>1, <3>2
  <2>2. ASSUME NEW s \in Starts, Capturing(s) PROVE starts[s].panel # 0
    BY <2>2, PanelOfStart, VoiceAssumption DEF Capturing
  <2>3. \A s \in Starts : starts[s].pc # "prepared"
    BY <1>6 DEF Settled
  <2>4. worker'.ready => worker.ready
    BY <1>1, <1>6, WorkerType
  <2>5. \A s \in Starts \ escaped' : ~Engaged(s)'
    BY <1>6, <2>1 DEF Engaged, Capturing
  <2> QED
    BY <1>6, <1>11, <2>2, <2>3, <2>4, <2>5 DEF PageKeeps
<1> QED
  BY <1>9, <1>10, <1>11, <1>12, <1>13, EndingKeeps

\* What reset makes of the starts and the hook of a panel.
LEMMA ResetEnds ==
    ASSUME VoiceInv, NEW p \in Panels, NEW e \in Owners,
           hook' = [hook EXCEPT ![p] = ResetHook(@, e)], starts' = ResetStarts(p)
    PROVE  /\ hook' \in [Panels -> Hooks] /\ starts' \in [Starts -> StartStates]
           /\ StartsEnd /\ HooksKeep
           /\ \A s \in Starts : starts'[s].pc = starts[s].pc
           /\ \A s \in Starts : starts[s].panel = p => ~starts'[s].current
<1>1. Types /\ hook[p] \in Hooks /\ HookFits(hook[p])
  BY HookIsFit DEF VoiceInv
<1>2. PICK g : g = ResetHook(hook[p], e)
  OBVIOUS
<1>3. g \in Hooks /\ g.kind = hook[p].kind /\ ~g.ticking /\ HookFits(g)
  BY <1>1, <1>2, ResetHookFits
<1>4. /\ hook'[p] = g
      /\ \A q \in Panels : q # p => hook'[q] = hook[q]
      /\ hook' \in [Panels -> Hooks]
  BY <1>1, <1>2, <1>3 DEF Types
<1>5. ASSUME NEW s \in Starts
      PROVE  /\ starts'[s] \in StartStates
             /\ starts'[s].panel = starts[s].panel /\ starts'[s].pc = starts[s].pc
             /\ starts'[s].current => starts[s].current
             /\ starts[s].panel = p => ~starts'[s].current
  <2>1. starts[s] \in StartStates
    BY <1>1 DEF Types
  <2> QED
    BY <2>1 DEF ResetStarts, StartStates
<1>6. starts' \in [Starts -> StartStates]
  BY <1>5 DEF ResetStarts
<1>7. HooksKeep
  <2>1. \A q \in Panels :
         /\ HookFits(hook'[q])
         /\ hook'[q].ticking => hook[q].ticking
         /\ hook[q].kind # "none" => hook'[q].kind = hook[q].kind
    BY <1>3, <1>4, HookIsFit
  <2>2. ASSUME NEW s \in Starts, starts'[s].current, Capturing(s)
        PROVE  hook'[starts[s].panel] = hook[starts[s].panel]
    BY <1>4, <1>5, <2>2, PanelOfStart DEF Capturing
  <2> QED
    BY <2>1, <2>2 DEF HooksKeep
<1> QED
  BY <1>4, <1>5, <1>6, <1>7 DEF StartsEnd

\* Of the starts of the panel that was reset only those that wait for the model are left.
LEMMA ResetDisengages ==
    ASSUME VoiceInv, NEW p \in Panels, NEW e \in Owners,
           hook' = [hook EXCEPT ![p] = ResetHook(@, e)], starts' = ResetStarts(p),
           p = mounted, escaped' = escaped \cup WaitingForModel(p)
    PROVE  \A s \in Starts \ escaped' : ~Engaged(s)'
<1>1. ASSUME NEW s \in Starts, s \notin escaped', Engaged(s)' PROVE FALSE
  <2>1. /\ starts'[s].panel = starts[s].panel /\ starts'[s].pc = starts[s].pc
        /\ starts'[s].current => starts[s].current
        /\ starts[s].panel = p => ~starts'[s].current
    BY ResetEnds DEF StartsEnd
  <2>2. StartFits(s) /\ s \notin escaped
    BY <1>1 DEF VoiceInv
  <2>3. starts[s].panel = p
    BY <1>1, <2>1, <2>2 DEF StartFits, Engaged, Capturing
  <2>4. starts[s].pc \in {"preparing", "prepared"}
    BY <1>1, <2>1, <2>3 DEF Engaged
  <2> QED
    BY <1>1, <2>3, <2>4 DEF WaitingForModel
<1> QED
  BY <1>1

LEMMA CloseKeeps ==
    ASSUME VoiceInv, Close
    PROVE  VoiceInv'
<1>1. Types /\ mounted \in Panels /\ 0 \in Owners
  BY DEF VoiceInv, Types, Close, Owners
<1>2. /\ hook' \in [Panels -> Hooks] /\ starts' \in [Starts -> StartStates]
      /\ StartsEnd /\ HooksKeep
  BY <1>1, ResetEnds DEF Close
<1>3. Types'
  BY <1>1, <1>2, WorkerType DEF Close, Types, MicsAfterTeardown, WaitingForModel
<1>4. Live' = {} /\ MicsEnd
  BY TeardownSilences DEF Close
<1>5. \A s \in Starts \ escaped' : ~Engaged(s)'
  BY <1>1, ResetDisengages DEF Close
<1>6. ASSUME NEW s \in Starts, Capturing(s) PROVE starts[s].panel # 0
  BY <1>6, PanelOfStart, VoiceAssumption DEF Capturing
<1>7. PageKeeps
  BY <1>1, <1>4, <1>5, <1>6, WorkerType DEF PageKeeps, Close, Settled
<1> QED
  BY <1>2, <1>3, <1>4, <1>7, EndingKeeps

LEMMA ResetUploadKeeps ==
    ASSUME VoiceInv, ResetUpload
    PROVE  VoiceInv'
<1>1. Types /\ mounted \in Panels
  BY DEF VoiceInv, Types, ResetUpload
<1>2. PICK e \in Owners : hook' = [hook EXCEPT ![mounted] = ResetHook(@, e)]
  <2>1. 0 \in Owners /\ hook[mounted].edited \in Owners
    BY <1>1 DEF Types, Hooks, Owners
  <2> QED
    BY <2>1 DEF ResetUpload
<1>3. /\ hook' \in [Panels -> Hooks] /\ starts' \in [Starts -> StartStates]
      /\ StartsEnd /\ HooksKeep
  BY <1>1, <1>2, ResetEnds DEF ResetUpload
<1>4. Types'
  BY <1>1, <1>3 DEF ResetUpload, Types
<1>5. Live' = {}
  BY LiveHolds DEF ResetUpload, Live
<1>6. MicsEnd
  BY <1>5 DEF MicsEnd, ResetUpload
<1>7. PageKeeps
  BY DEF PageKeeps, ResetUpload
<1> QED
  BY <1>3, <1>4, <1>6, <1>7, EndingKeeps

LEMMA LockKeeps ==
    ASSUME VoiceInv, Lock
    PROVE  VoiceInv'
<1>1. Types
  BY DEF VoiceInv
<1>2. CASE mounted = 0
  <2>1. /\ UNCHANGED <<hook, starts, mics, escaped, lowMemory, mounted, worker>>
        /\ locked' = TRUE
    BY <1>2 DEF Lock
  <2>2. Types' /\ StartsEnd
    BY <1>1, <2>1 DEF Types, StartsEnd
  <2>3. HooksKeep
    BY <2>1, HookIsFit DEF HooksKeep
  <2>4. Live' = {}
    BY <1>2, <2>1, LiveHolds, VoiceAssumption DEF Live
  <2>5. MicsEnd
    BY <2>1, <2>4 DEF MicsEnd
  <2>6. ASSUME NEW s \in Starts, s \notin escaped, Engaged(s) PROVE FALSE
    <3>1. StartFits(s) /\ starts[s].panel # 0
      BY <2>6, PanelOfStart, VoiceAssumption DEF VoiceInv, Engaged, Capturing
    <3> QED
      BY <1>2, <2>6, <3>1 DEF StartFits, Engaged
  <2>7. PageKeeps
    BY <2>1, <2>4, <2>6 DEF PageKeeps, Engaged, Capturing
  <2> QED
    BY <2>2, <2>3, <2>5, <2>7, EndingKeeps
<1>3. CASE mounted # 0
  <2>1. /\ mounted \in Panels /\ locked' = TRUE
        /\ hook' = [hook EXCEPT ![mounted] = ResetHook(@, hook[mounted].edited)]
        /\ hook[mounted].edited \in Owners
        /\ starts' = ResetStarts(mounted)
        /\ mics' = MicsAfterTeardown(hook[mounted])
        /\ escaped' = escaped \cup WaitingForModel(mounted)
        /\ UNCHANGED <<lowMemory, mounted, worker>>
    BY <1>1, <1>3 DEF Lock, Types, Hooks
  <2>2. /\ hook' \in [Panels -> Hooks] /\ starts' \in [Starts -> StartStates]
        /\ StartsEnd /\ HooksKeep
    BY <2>1, ResetEnds
  <2>3. Types'
    BY <1>1, <2>1, <2>2 DEF Types, MicsAfterTeardown, WaitingForModel
  <2>4. Live' = {} /\ MicsEnd
    BY <2>1, TeardownSilences
  <2>5. \A s \in Starts \ escaped' : ~Engaged(s)'
    BY <2>1, ResetDisengages
  <2>6. PageKeeps
    BY <2>1, <2>4, <2>5 DEF PageKeeps
  <2> QED
    BY <2>2, <2>3, <2>4, <2>6, EndingKeeps
<1> QED
  BY <1>2, <1>3


\* One start comes to its end.
LEMMA OneEnds ==
    ASSUME VoiceInv, NEW s \in Starts, starts[s].pc # "none",
           starts' = [starts EXCEPT ![s] = Done(@)]
    PROVE  /\ starts' \in [Starts -> StartStates] /\ StartsEnd
           /\ ~starts'[s].current
           /\ \A r \in Starts : r # s => starts'[r] = starts[r]
<1>1. starts \in [Starts -> StartStates] /\ starts[s] \in StartStates
  BY DEF VoiceInv, Types
<1>2. PICK q : q = Done(starts[s])
  OBVIOUS
<1>3. /\ q \in StartStates /\ q.pc = "done" /\ q.current = FALSE
      /\ q.panel = starts[s].panel
  BY <1>1, <1>2 DEF Done, StartStates, Pcs
<1>4. /\ starts' \in [Starts -> StartStates] /\ starts'[s] = q
      /\ \A r \in Starts : r # s => starts'[r] = starts[r]
  BY <1>1, <1>2, <1>3
<1> QED
  BY <1>3, <1>4 DEF StartsEnd

\* One hook changes and keeps what holds of it.
LEMMA OneHookKeeps ==
    ASSUME VoiceInv, NEW p \in Panels, NEW g \in Hooks, HookFits(g),
           hook' = [hook EXCEPT ![p] = g],
           g.kind = hook[p].kind, g.ticking => hook[p].ticking,
           \A r \in Starts : starts'[r].current /\ Capturing(r) /\ starts[r].panel = p
                              /\ Begun(hook[p], r) => Begun(g, r)
    PROVE  /\ hook' \in [Panels -> Hooks] /\ HooksKeep
           /\ hook'[p] = g
           /\ \A q \in Panels : q # p => hook'[q] = hook[q]
<1>1. /\ hook' \in [Panels -> Hooks] /\ hook'[p] = g
      /\ \A q \in Panels : q # p => hook'[q] = hook[q]
  BY DEF VoiceInv, Types
<1>2. \A q \in Panels :
         /\ HookFits(hook'[q])
         /\ hook'[q].ticking => hook[q].ticking
         /\ hook[q].kind # "none" => hook'[q].kind = hook[q].kind
  BY <1>1, HookIsFit
<1>3. ASSUME NEW r \in Starts, starts'[r].current, Capturing(r),
             Begun(hook[starts[r].panel], r)
      PROVE  Begun(hook'[starts[r].panel], r)
  BY <1>1, <1>3, PanelOfStart DEF Capturing
<1> QED
  BY <1>1, <1>2, <1>3 DEF HooksKeep

LEMMA EditReviewKeeps ==
    ASSUME VoiceInv, EditReview
    PROVE  VoiceInv'
<1>1. Types /\ mounted \in Panels /\ hook[mounted] \in Hooks /\ HookFits(hook[mounted])
  BY HookIsFit DEF VoiceInv, Types, EditReview
<1>2. PICK h \in Hooks : h = hook[mounted]
  BY <1>1
<1>3. PICK g : g = [h EXCEPT !.edited = h.start]
  OBVIOUS
<1>4. hook' = [hook EXCEPT ![mounted] = g]
  BY <1>2, <1>3 DEF EditReview
<1>5. g \in Hooks
  BY <1>2, <1>3 DEF Hooks
<1>6. /\ g.kind = h.kind /\ g.status = h.status /\ g.start = h.start /\ g.chunks = h.chunks
      /\ g.processing = h.processing /\ g.sent = h.sent /\ g.pendingFinal = h.pendingFinal
      /\ g.committed = h.committed /\ g.segmentStart = h.segmentStart
      /\ g.transcript = h.transcript /\ g.held = h.held /\ g.ticking = h.ticking
      /\ g.own = h.own
  BY <1>3 DEF Hooks
<1>7. HookFits(g) /\ \A r : Begun(h, r) => Begun(g, r)
  BY <1>1, <1>2, <1>6 DEF HookFits, RunFits, TextFits, SentFits, Begun
<1>8. /\ hook' \in [Panels -> Hooks] /\ HooksKeep /\ hook'[mounted] = g
      /\ \A q \in Panels : q # mounted => hook'[q] = hook[q]
  BY <1>1, <1>2, <1>4, <1>5, <1>6, <1>7, OneHookKeeps
<1>9. Types' /\ StartsEnd /\ PageKeeps
  BY <1>1, <1>8 DEF Types, EditReview, StartsEnd, PageKeeps
<1>10. hook'[mounted].held = hook[mounted].held /\ hook'[mounted].ticking = hook[mounted].ticking
  BY <1>2, <1>6, <1>8
<1>11. MicsEnd
  BY <1>10 DEF MicsEnd, EditReview, Live
<1> QED
  BY <1>8, <1>9, <1>11, EndingKeeps

LEMMA PrepareTimesOutKeeps ==
    ASSUME VoiceInv, NEW s \in Starts, PrepareTimesOut(s)
    PROVE  VoiceInv'
<1>1. Types /\ starts[s].pc = "preparing"
  BY DEF VoiceInv, PrepareTimesOut
<1>2. PICK p \in Panels : p = starts[s].panel
  BY <1>1, PanelOfStart
<1>3. PICK g : g = [hook[p] EXCEPT !.loadError = TRUE]
  OBVIOUS
<1>4. hook' = [hook EXCEPT ![p] = g]
  BY <1>2, <1>3 DEF PrepareTimesOut
<1>5. /\ g \in Hooks /\ HookFits(g) /\ g.kind = hook[p].kind /\ g.held = hook[p].held
      /\ g.ticking = hook[p].ticking /\ \A r : Begun(hook[p], r) => Begun(g, r)
  BY <1>3, HookIsFit, LoadErrorFits
<1>6. /\ hook' \in [Panels -> Hooks] /\ HooksKeep /\ hook'[p] = g
      /\ \A q \in Panels : q # p => hook'[q] = hook[q]
  BY <1>4, <1>5, OneHookKeeps
<1>7. /\ starts' \in [Starts -> StartStates] /\ StartsEnd
      /\ \A r \in Starts : r # s => starts'[r] = starts[r]
  BY <1>1, OneEnds DEF PrepareTimesOut
<1>8. Types'
  BY <1>1, <1>6, <1>7 DEF PrepareTimesOut, Types
<1>9. MicsEnd
  <2>1. ASSUME NEW r \in Live
        PROVE  /\ starts'[r] = starts[r] /\ hook'[mounted].held = hook[mounted].held
               /\ hook'[mounted].ticking = hook[mounted].ticking
    BY <1>1, <1>5, <1>6, <1>7, <2>1, LiveHolds
  <2> QED
    BY <2>1 DEF MicsEnd, PrepareTimesOut, Live
<1>10. PageKeeps
  BY DEF PageKeeps, PrepareTimesOut
<1> QED
  BY <1>6, <1>7, <1>8, <1>9, <1>10, EndingKeeps

\* A live microphone whose worklet is being added is of the current start.
LEMMA LiveIsCurrent ==
    ASSUME VoiceInv, NEW s \in Starts, s \in Live, starts[s].pc = "adding"
    PROVE  starts[s].current
BY DEF VoiceInv, MicFits

LEMMA CaptureFailsKeeps ==
    ASSUME VoiceInv, NEW s \in Starts, CaptureFails(s)
    PROVE  VoiceInv'
<1>1. Types /\ Capturing(s) /\ starts[s].pc # "none"
  BY DEF VoiceInv, CaptureFails, Capturing
<1>2. PICK p \in Panels : p = starts[s].panel
  BY <1>1, PanelOfStart
<1>3. /\ starts' \in [Starts -> StartStates] /\ StartsEnd
      /\ \A r \in Starts : r # s => starts'[r] = starts[r]
  BY <1>1, OneEnds DEF CaptureFails
<1>4. PageKeeps
  BY DEF PageKeeps, CaptureFails
<1>5. CASE starts[s].current
  <2>1. PICK t : t = TeardownCapture(hook[p])
    OBVIOUS
  <2>2. /\ t \in Hooks /\ HookFits(t) /\ t.kind = hook[p].kind /\ ~t.ticking
        /\ \A r : Begun(hook[p], r) => Begun(t, r)
    BY <2>1, HookIsFit, TeardownFits
  <2>3. PICK g : g = [t EXCEPT !.status = "error"]
    OBVIOUS
  <2>4. hook' = [hook EXCEPT ![p] = g] /\ mics' = MicsAfterTeardown(hook[p])
    BY <1>2, <1>5, <2>1, <2>3 DEF CaptureFails
  <2>5. g \in Hooks
    BY <2>2, <2>3 DEF Hooks, Statuses
  <2>6. /\ g.kind = t.kind /\ g.status = "error" /\ g.start = t.start /\ g.chunks = t.chunks
        /\ g.processing = t.processing /\ g.sent = t.sent /\ g.pendingFinal = t.pendingFinal
        /\ g.committed = t.committed /\ g.segmentStart = t.segmentStart
        /\ g.transcript = t.transcript /\ g.held = t.held /\ g.ticking = t.ticking
        /\ g.own = t.own
    BY <2>2, <2>3 DEF Hooks
  <2>7. /\ HookFits(g) /\ \A r : Begun(hook[p], r) => Begun(g, r)
    BY <2>2, <2>6 DEF HookFits, RunFits, TextFits, SentFits, Begun
  <2>8. /\ hook' \in [Panels -> Hooks] /\ HooksKeep /\ hook'[p] = g
        /\ \A q \in Panels : q # p => hook'[q] = hook[q]
    BY <2>2, <2>4, <2>5, <2>6, <2>7, OneHookKeeps
  <2>9. Types'
    BY <1>1, <1>3, <2>4, <2>8 DEF CaptureFails, Types, MicsAfterTeardown
  <2>10. MicsEnd
    <3>1. CASE p = mounted
      BY <2>4, <3>1, TeardownSilences DEF CaptureFails
    <3>2. CASE p # mounted
      <4>1. ASSUME NEW r \in Live
            PROVE  /\ starts'[r] = starts[r] /\ hook'[mounted].held = hook[mounted].held
                   /\ hook'[mounted].ticking = hook[mounted].ticking
        <5>1. r \in Starts /\ r # s /\ mounted \in Panels
          BY <1>2, <3>2, <4>1, LiveHolds
        <5> QED
          BY <1>3, <2>8, <3>2, <5>1
      <4> QED
        BY <2>4, <4>1 DEF MicsEnd, CaptureFails, Live, MicsAfterTeardown
    <3> QED
      BY <3>1, <3>2
  <2> QED
    BY <1>3, <1>4, <2>8, <2>9, <2>10, EndingKeeps
<1>6. CASE ~starts[s].current
  <2>1. hook' = hook /\ mics' = mics
    BY <1>6 DEF CaptureFails
  <2>2. Types'
    BY <1>1, <1>3, <2>1 DEF CaptureFails, Types
  <2>3. HooksKeep
    BY <2>1, HookIsFit DEF HooksKeep
  <2>4. ASSUME NEW r \in Live PROVE starts'[r] = starts[r]
    <3>1. r \in Starts /\ starts[r].pc \in {"adding", "done"}
      BY <2>4, LiveHolds
    <3>2. r # s
      BY <1>1, <1>6, <2>4, <3>1, LiveIsCurrent DEF Capturing
    <3> QED
      BY <1>3, <3>1, <3>2
  <2>5. MicsEnd
    BY <2>1, <2>4 DEF MicsEnd, CaptureFails, Live
  <2> QED
    BY <1>3, <1>4, <2>2, <2>3, <2>5, EndingKeeps
<1> QED
  BY <1>5, <1>6


LEMMA ChunkKeeps ==
    ASSUME VoiceInv, NEW p \in Panels, Chunk(p)
    PROVE  VoiceInv'
<1>1. Types /\ hook[p] \in Hooks /\ HookFits(hook[p]) /\ hook[p].ticking
  BY HookIsFit DEF VoiceInv, Chunk
<1>2. PICK h \in Hooks : h = hook[p]
  BY <1>1
<1>3. h.chunks \in Nat /\ h.segmentStart \in Nat
  BY <1>2 DEF Hooks
<1>4. PICK n \in Nat : n = h.chunks + 1
  BY <1>3
<1>5. PICK g : g = [h EXCEPT !.chunks = n]
  OBVIOUS
<1>6. g \in Hooks
  BY <1>2, <1>4, <1>5 DEF Hooks
<1>7. /\ g.kind = h.kind /\ g.status = h.status /\ g.start = h.start /\ g.chunks = n
      /\ g.processing = h.processing /\ g.sent = h.sent /\ g.pendingFinal = h.pendingFinal
      /\ g.committed = h.committed /\ g.segmentStart = h.segmentStart
      /\ g.transcript = h.transcript /\ g.held = h.held /\ g.ticking = h.ticking
      /\ g.own = h.own
  BY <1>2, <1>5 DEF Hooks
<1>8. hook' = [hook EXCEPT ![p] = g]
  BY <1>2, <1>4, <1>5 DEF Chunk
<1>9. RunFits(g)
  BY <1>1, <1>2, <1>7 DEF HookFits, RunFits
<1>10. ASSUME h.kind = "dictate", h.own PROVE TextFits(g)
  <2>1. TextFits(h) /\ RunFits(h) /\ h.ticking
    BY <1>1, <1>2, <1>10 DEF HookFits
  <2>2. h.status # "ready" /\ ~(h.processing /\ h.sent.kind = "final")
    BY <2>1 DEF RunFits
  <2>3. h.sent # Pass("final", h.start, 0, h.chunks) \/ ~h.processing
    BY <2>2 DEF Pass
  <2>4. h.processing => SentFits(g)
    <3>1. ASSUME h.processing
          PROVE  \E m \in h.segmentStart..h.chunks :
                    h.sent = Pass("partial", h.start, h.segmentStart, m)
      BY <2>1, <2>3, <3>1 DEF TextFits, SentFits
    <3>2. h.segmentStart..h.chunks \subseteq h.segmentStart..n
      BY <1>3, <1>4
    <3> QED
      BY <1>7, <3>1, <3>2 DEF SentFits
  <2>5. 0..h.chunks \subseteq 0..n /\ h.segmentStart <= n
    BY <1>3, <1>4, <2>1 DEF TextFits
  <2>6. \E m \in 0..n : h.transcript = Text(h.start, 0, m)
    BY <2>1, <2>5 DEF TextFits
  <2>7. h.committed = Text(h.start, 0, h.segmentStart)
    BY <2>1 DEF TextFits
  <2> QED
    BY <1>7, <2>2, <2>4, <2>5, <2>6, <2>7 DEF TextFits
<1>11. HookFits(g)
  BY <1>7, <1>9, <1>10 DEF HookFits
<1>12. \A r \in Starts : ~Begun(hook[p], r)
  BY <1>1 DEF Begun
<1>13. /\ hook' \in [Panels -> Hooks] /\ HooksKeep
       /\ hook'[p] = g
       /\ \A q \in Panels : q # p => hook'[q] = hook[q]
  BY <1>2, <1>6, <1>7, <1>8, <1>11, <1>12, OneHookKeeps
<1>14. Types' /\ StartsEnd /\ PageKeeps
  BY <1>1, <1>13 DEF Types, Chunk, StartsEnd, PageKeeps
<1>15. \A q \in Panels : hook'[q].held = hook[q].held /\ hook'[q].ticking = hook[q].ticking
  BY <1>2, <1>7, <1>13
<1>16. MicsEnd
  BY <1>15, LiveHolds DEF MicsEnd, Chunk, Live
<1> QED
  BY <1>13, <1>14, <1>16, EndingKeeps

LEMMA TickKeeps ==
    ASSUME VoiceInv, NEW p \in Panels, Tick(p)
    PROVE  VoiceInv'
<1>1. Types /\ hook[p] \in Hooks /\ HookFits(hook[p]) /\ hook[p].ticking
  BY HookIsFit DEF VoiceInv, Tick
<1>2. PICK h \in Hooks : h = hook[p]
  BY <1>1
<1>3. /\ h.start \in Owners /\ h.chunks \in Nat /\ h.segmentStart \in Nat
      /\ h.segmentStart < h.chunks /\ "partial" \in PassKinds
  BY <1>2 DEF Hooks, Tick, PassKinds
<1>4. PICK job \in Passes :
          job = Pass("partial", h.start, h.segmentStart, h.chunks) /\ job.kind = "partial"
  BY <1>3, PassType
<1>5. PICK commits \in BOOLEAN : commits = (h.chunks - h.segmentStart >= CommitChunks)
  <2>1. (h.chunks - h.segmentStart >= CommitChunks) \in BOOLEAN
    BY <1>3, VoiceAssumption
  <2> QED
    BY <2>1
<1>6. PICK g : g = [h EXCEPT !.processing = TRUE, !.sent = job, !.sentCommit = commits]
  OBVIOUS
<1>7. g \in Hooks
  BY <1>2, <1>4, <1>6 DEF Hooks
<1>8. /\ g.kind = h.kind /\ g.status = h.status /\ g.start = h.start /\ g.chunks = h.chunks
      /\ g.processing = TRUE /\ g.sent = job /\ g.pendingFinal = h.pendingFinal
      /\ g.committed = h.committed /\ g.segmentStart = h.segmentStart
      /\ g.transcript = h.transcript /\ g.held = h.held /\ g.ticking = h.ticking
      /\ g.own = h.own
  BY <1>2, <1>6 DEF Hooks
<1>9. /\ hook' = [hook EXCEPT ![p] = g]
      /\ worker' = [worker EXCEPT !.jobs = Append(@, job)]
  BY <1>1, <1>2, <1>4, <1>5, <1>6 DEF Tick, Types
<1>10. RunFits(g)
  BY <1>1, <1>2, <1>4, <1>8 DEF HookFits, RunFits
<1>11. TextFits(h) => TextFits(g)
  <2>1. SentFits(g)
    <3>1. h.chunks \in h.segmentStart..h.chunks
      BY <1>3
    <3> QED
      BY <1>4, <1>8, <3>1 DEF SentFits
  <2> QED
    BY <1>8, <2>1 DEF TextFits
<1>12. HookFits(g)
  BY <1>1, <1>2, <1>8, <1>10, <1>11 DEF HookFits
<1>13. \A r \in Starts : ~Begun(hook[p], r)
  BY <1>1 DEF Begun
<1>14. /\ hook' \in [Panels -> Hooks] /\ HooksKeep
       /\ hook'[p] = g
       /\ \A q \in Panels : q # p => hook'[q] = hook[q]
  BY <1>2, <1>7, <1>8, <1>9, <1>12, <1>13, OneHookKeeps
<1>15. worker' \in Workers /\ worker'.ready = worker.ready
  <2>1. worker.jobs \in Seq(Passes) /\ Append(worker.jobs, job) \in Seq(Passes)
    BY <1>1, <1>4 DEF Types, Workers
  <2> QED
    BY <1>1, <1>9, <2>1 DEF Types, Workers
<1>16. Types' /\ StartsEnd /\ PageKeeps
  BY <1>1, <1>14, <1>15 DEF Types, Tick, StartsEnd, PageKeeps
<1>17. \A q \in Panels : hook'[q].held = hook[q].held /\ hook'[q].ticking = hook[q].ticking
  BY <1>2, <1>8, <1>14
<1>18. MicsEnd
  BY <1>17, LiveHolds DEF MicsEnd, Tick, Live
<1> QED
  BY <1>14, <1>16, <1>18, EndingKeeps

LEMMA StopRecordingKeeps ==
    ASSUME VoiceInv, StopRecording
    PROVE  VoiceInv'
<1>1. Types /\ mounted \in Panels
  BY DEF VoiceInv, Types, StopRecording
<1>2. PICK p \in Panels : p = mounted
  BY <1>1
<1>3. PICK t : t = TeardownCapture(hook[p])
  OBVIOUS
<1>4. /\ t \in Hooks /\ HookFits(t) /\ t.kind = hook[p].kind /\ ~t.ticking
      /\ \A r : Begun(hook[p], r) => Begun(t, r)
  BY <1>3, HookIsFit, TeardownFits
<1>5. PICK h : h = [t EXCEPT !.status = "processing"]
  OBVIOUS
<1>6. h \in Hooks
  BY <1>4, <1>5 DEF Hooks, Statuses
<1>7. /\ h.kind = t.kind /\ h.status = "processing" /\ h.start = t.start /\ h.chunks = t.chunks
      /\ h.processing = t.processing /\ h.sent = t.sent /\ h.pendingFinal = t.pendingFinal
      /\ h.committed = t.committed /\ h.segmentStart = t.segmentStart
      /\ h.transcript = t.transcript /\ h.held = t.held /\ h.ticking = t.ticking
      /\ h.own = t.own
  BY <1>4, <1>5 DEF Hooks
<1>8. /\ HookFits(h) /\ \A r : Begun(t, r) => Begun(h, r)
  BY <1>4, <1>7 DEF HookFits, RunFits, TextFits, SentFits, Begun
<1>9. PICK g : g = Finalize(h)
  OBVIOUS
<1>10. /\ g \in Hooks /\ HookFits(g) /\ g.kind = h.kind /\ g.ticking = h.ticking
       /\ \A r : Begun(h, r) => Begun(g, r)
  BY <1>4, <1>6, <1>7, <1>8, <1>9, FinalizeFits
<1>11. /\ hook' = [hook EXCEPT ![p] = g]
       /\ worker' = [worker EXCEPT !.jobs = @ \o FinalJobs(h)]
       /\ mics' = MicsAfterTeardown(hook[mounted])
       /\ UNCHANGED <<lowMemory, locked, mounted, starts, escaped>>
  BY <1>2, <1>3, <1>5, <1>9 DEF StopRecording
<1>12. hook' \in [Panels -> Hooks] /\ HooksKeep
  <2>1. \A r : Begun(hook[p], r) => Begun(g, r)
    BY <1>4, <1>8, <1>10
  <2>2. g.kind = hook[p].kind /\ ~g.ticking
    BY <1>4, <1>7, <1>10
  <2> QED BY <1>10, <1>11, <2>1, <2>2, OneHookKeeps
<1>13. worker' \in Workers /\ worker'.ready = worker.ready
  <2>1. FinalJobs(h) \in Seq(Passes) /\ worker.jobs \in Seq(Passes)
    BY <1>1, <1>6, FinalJobsType DEF Types, Workers
  <2>2. worker.jobs \o FinalJobs(h) \in Seq(Passes)
    BY <2>1, ConcatProperties
  <2> QED
    BY <1>1, <1>11, <2>2 DEF Types, Workers
<1>14. Types' /\ StartsEnd /\ PageKeeps
  BY <1>1, <1>11, <1>12, <1>13 DEF Types, StartsEnd, PageKeeps, MicsAfterTeardown
<1>15. MicsEnd
  BY <1>11, TeardownSilences
<1> QED
  BY <1>12, <1>14, <1>15, EndingKeeps


\* A file is decoded, or not: the hook is of an upload panel, which holds no microphone.
LEMMA UploadKeeps ==
    ASSUME VoiceInv, NEW s \in Starts, starts[s].pc = "decoding", NEW g \in Hooks, HookFits(g),
           LET p == starts[s].panel IN
           /\ hook' = [hook EXCEPT ![p] = g]
           /\ g.kind = hook[p].kind /\ g.held = hook[p].held /\ g.ticking = hook[p].ticking,
           starts' = [starts EXCEPT ![s] = Done(@)],
           worker' \in Workers, worker'.ready = worker.ready,
           UNCHANGED <<lowMemory, locked, mounted, mics, escaped>>
    PROVE  VoiceInv'
<1>1. PICK p \in Panels : p = starts[s].panel /\ hook[p].kind = "upload"
  BY PanelOfStart DEF VoiceInv, PanelFits
<1>2. ASSUME NEW r \in Starts, Capturing(r) PROVE starts[r].panel # p
  BY <1>1, <1>2 DEF VoiceInv, PanelFits, Capturing
<1>3. /\ hook' \in [Panels -> Hooks] /\ HooksKeep /\ hook'[p] = g
      /\ \A q \in Panels : q # p => hook'[q] = hook[q]
  BY <1>1, <1>2, OneHookKeeps
<1>4. /\ starts' \in [Starts -> StartStates] /\ StartsEnd
      /\ \A r \in Starts : r # s => starts'[r] = starts[r]
  BY OneEnds
<1>5. Types' /\ PageKeeps
  BY <1>3, <1>4 DEF Types, VoiceInv, PageKeeps
<1>6. ASSUME NEW r \in Live
      PROVE  /\ starts'[r] = starts[r] /\ hook'[mounted].held = hook[mounted].held
             /\ hook'[mounted].ticking = hook[mounted].ticking
  BY <1>1, <1>3, <1>4, <1>6, LiveHolds
<1>7. MicsEnd
  BY <1>6 DEF MicsEnd, Live
<1> QED
  BY <1>3, <1>4, <1>5, <1>7, EndingKeeps

LEMMA DecodedKeeps ==
    ASSUME VoiceInv, NEW s \in Starts, Decoded(s)
    PROVE  VoiceInv'
<1>1. Types /\ starts[s].pc = "decoding"
  BY DEF VoiceInv, Decoded
<1>2. PICK p \in Panels : p = starts[s].panel /\ hook[p].kind = "upload"
  BY <1>1, PanelOfStart DEF VoiceInv, PanelFits
<1>3. PICK h \in Hooks : h = hook[p] /\ HookFits(h)
  BY HookIsFit
<1>4. PICK job \in Passes : job = Pass("file", s, 0, 1)
  BY PassType DEF PassKinds, Owners
<1>5. CASE starts[s].current
  <2>1. PICK g : g = [h EXCEPT !.processing = TRUE, !.status = "transcribing", !.chunks = 1,
                               !.sent = job]
    OBVIOUS
  <2>2. g \in Hooks
    BY <2>1 DEF Hooks, Statuses
  <2>3. /\ g.kind = h.kind /\ g.status = "transcribing" /\ g.held = h.held
        /\ g.ticking = h.ticking
    BY <2>1 DEF Hooks
  <2>4. HookFits(g)
    BY <1>2, <1>3, <2>3 DEF HookFits, RunFits
  <2>5. hook' = [hook EXCEPT ![p] = g]
    BY <1>2, <1>3, <1>4, <1>5, <2>1 DEF Decoded
  <2>6. worker' \in Workers /\ worker'.ready = worker.ready
    <3>1. worker.jobs \in Seq(Passes) /\ Append(worker.jobs, job) \in Seq(Passes)
      BY <1>1 DEF Types, Workers
    <3> QED
      BY <1>1, <1>4, <1>5, <3>1 DEF Types, Workers, Decoded
  <2> QED
    BY <1>1, <1>2, <1>3, <2>2, <2>3, <2>4, <2>5, <2>6, UploadKeeps DEF Decoded
<1>6. CASE ~starts[s].current
  <2>1. hook' = [hook EXCEPT ![p] = h] /\ worker' = worker
    BY <1>1, <1>3, <1>6 DEF Decoded, Types
  <2> QED
    BY <1>1, <1>2, <1>3, <2>1, UploadKeeps DEF Decoded, Types
<1> QED
  BY <1>5, <1>6

LEMMA DecodeFailsKeeps ==
    ASSUME VoiceInv, NEW s \in Starts, DecodeFails(s)
    PROVE  VoiceInv'
<1>1. Types /\ starts[s].pc = "decoding"
  BY DEF VoiceInv, DecodeFails
<1>2. PICK p \in Panels : p = starts[s].panel /\ hook[p].kind = "upload"
  BY <1>1, PanelOfStart DEF VoiceInv, PanelFits
<1>3. PICK h \in Hooks : h = hook[p] /\ HookFits(h)
  BY HookIsFit
<1>4. CASE starts[s].current
  <2>1. PICK g : g = [h EXCEPT !.processing = FALSE, !.status = "error"]
    OBVIOUS
  <2>2. g \in Hooks
    BY <2>1 DEF Hooks, Statuses
  <2>3. /\ g.kind = h.kind /\ g.status = "error" /\ g.held = h.held
        /\ g.ticking = h.ticking
    BY <2>1 DEF Hooks
  <2>4. HookFits(g)
    BY <1>2, <1>3, <2>3 DEF HookFits, RunFits
  <2>5. hook' = [hook EXCEPT ![p] = g]
    BY <1>1, <1>2, <1>3, <1>4, <2>1 DEF DecodeFails, Types
  <2> QED
    BY <1>1, <1>2, <1>3, <2>2, <2>3, <2>4, <2>5, UploadKeeps DEF DecodeFails, Types
<1>5. CASE ~starts[s].current
  <2>1. hook' = [hook EXCEPT ![p] = h]
    BY <1>1, <1>3, <1>5 DEF DecodeFails, Types
  <2> QED
    BY <1>1, <1>2, <1>3, <2>1, UploadKeeps DEF DecodeFails, Types
<1> QED
  BY <1>4, <1>5

LEMMA JobOf ==
    ASSUME VoiceInv, NEW i \in 1..Len(worker.jobs)
    PROVE  worker.jobs[i] \in Passes /\ Without(worker.jobs, i) \in Seq(Passes)
BY WithoutType DEF VoiceInv, Types, Workers

LEMMA ErrorKeeps ==
    ASSUME VoiceInv, NEW i \in 1..Len(worker.jobs), Error(i)
    PROVE  VoiceInv'
<1>1. Types
  BY DEF VoiceInv
<1>2. ASSUME NEW p \in Panels
      PROVE  /\ hook'[p] \in Hooks /\ HookFits(hook'[p])
             /\ hook'[p].kind = hook[p].kind /\ hook'[p].held = hook[p].held
             /\ hook'[p].ticking = hook[p].ticking
             /\ \A s : Begun(hook[p], s) => Begun(hook'[p], s)
  <2>1. PICK h : h = IF p = mounted /\ hook[p].processing THEN Failed(hook[p]) ELSE hook[p]
    OBVIOUS
  <2>2. hook'[p] = IF Preparing(p) THEN [h EXCEPT !.loadError = TRUE] ELSE h
    BY <2>1 DEF Error
  <2>3. /\ h \in Hooks /\ HookFits(h)
        /\ h.kind = hook[p].kind /\ h.held = hook[p].held /\ h.ticking = hook[p].ticking
    BY <2>1, HookIsFit, FailedFits
  <2>4. \A s : Begun(hook[p], s) => Begun(h, s)
    BY <2>1 DEF Begun
  <2> QED
    BY <2>2, <2>3, <2>4, LoadErrorFits
<1>3. ASSUME NEW s \in Starts
      PROVE  /\ starts'[s] \in StartStates /\ starts'[s].panel = starts[s].panel
             /\ starts[s].pc # "preparing" => starts'[s] = starts[s]
             /\ starts[s].pc = "preparing" => starts'[s].pc = "done" /\ ~starts'[s].current
  <2>1. starts[s] \in StartStates
    BY <1>1 DEF Types
  <2> QED
    BY <2>1 DEF Error, Done, StartStates, Pcs
<1>4. worker' \in Workers /\ worker'.ready = worker.ready
  <2>1. Without(worker.jobs, i) \in Seq(Passes)
    BY JobOf
  <2> QED
    BY <1>1, <2>1 DEF Types, Workers, Error
<1>5. hook' \in [Panels -> Hooks] /\ starts' \in [Starts -> StartStates]
  BY <1>2, <1>3 DEF Error
<1>6. Types' /\ PageKeeps
  BY <1>1, <1>4, <1>5 DEF Error, Types, PageKeeps
<1>7. StartsEnd
  BY <1>3 DEF StartsEnd
<1>8. HooksKeep
  BY <1>2, PanelOfStart DEF HooksKeep, Capturing
<1>9. MicsEnd
  <2>1. ASSUME NEW s \in Live
        PROVE  /\ starts'[s] = starts[s] /\ hook'[mounted].held = hook[mounted].held
               /\ hook'[mounted].ticking = hook[mounted].ticking
    BY <1>2, <1>3, <2>1, LiveHolds
  <2> QED
    BY <2>1 DEF MicsEnd, Error, Live
<1> QED
  BY <1>6, <1>7, <1>8, <1>9, EndingKeeps


LEMMA MicGrantedKeeps ==
    ASSUME VoiceInv, NEW s \in Starts, MicGranted(s)
    PROVE  VoiceInv'
<1>1. Types /\ starts[s].pc = "asking" /\ Capturing(s)
  BY DEF VoiceInv, MicGranted, Capturing
<1>2. PICK p \in Panels : p = starts[s].panel
  BY <1>1, PanelOfStart
<1>3. CASE ~starts[s].current
  <2>1. hook' = hook /\ mics' = mics /\ starts' = [starts EXCEPT ![s] = Done(@)]
    BY <1>3 DEF MicGranted, Goes
  <2>2. /\ starts' \in [Starts -> StartStates] /\ StartsEnd
        /\ \A r \in Starts : r # s => starts'[r] = starts[r]
    BY <1>1, <2>1, OneEnds
  <2>3. Types' /\ PageKeeps
    BY <1>1, <2>1, <2>2 DEF MicGranted, Types, PageKeeps
  <2>4. HooksKeep
    BY <2>1, HookIsFit DEF HooksKeep
  <2>5. MicsEnd
    BY <1>1, <2>1, <2>2, LiveHolds DEF MicsEnd, MicGranted, Live
  <2> QED
    BY <2>2, <2>3, <2>4, <2>5, EndingKeeps
<1>4. CASE starts[s].current
  <2>1. PICK h \in Hooks : h = hook[p] /\ HookFits(h) /\ h.kind = "dictate" /\ Begun(h, s)
    BY <1>1, <1>2, <1>4, HookIsFit DEF VoiceInv, PanelFits, StartFits
  <2>2. PICK g : g = [h EXCEPT !.held = s]
    OBVIOUS
  <2>3. g \in Hooks
    BY <2>2 DEF Hooks, Owners
  <2>4. /\ g.kind = h.kind /\ g.status = h.status /\ g.start = h.start /\ g.chunks = h.chunks
        /\ g.processing = h.processing /\ g.sent = h.sent /\ g.pendingFinal = h.pendingFinal
        /\ g.committed = h.committed /\ g.segmentStart = h.segmentStart
        /\ g.transcript = h.transcript /\ g.held = s /\ g.ticking = h.ticking
        /\ g.own = h.own
    BY <2>2 DEF Hooks
  <2>5. HookFits(g) /\ \A r : Begun(h, r) => Begun(g, r)
    BY <2>1, <2>4 DEF HookFits, RunFits, TextFits, SentFits, Begun
  <2>6. /\ hook' = [hook EXCEPT ![p] = g] /\ mics' = mics \cup {s}
        /\ starts' = [starts EXCEPT ![s].pc = "adding"]
        /\ UNCHANGED <<lowMemory, locked, mounted, worker, escaped>>
        /\ Settled
    BY <1>1, <1>2, <1>4, <2>1, <2>2 DEF MicGranted, Goes, Types
  <2>7. /\ hook' \in [Panels -> Hooks] /\ hook'[p] = g
        /\ \A q \in Panels : q # p => hook'[q] = hook[q]
    BY <1>1, <2>3, <2>6 DEF Types
  <2>8. /\ starts'[s] \in StartStates /\ starts'[s].pc = "adding" /\ starts'[s].panel = p
        /\ starts'[s].current = starts[s].current
        /\ \A r \in Starts : r # s => starts'[r] = starts[r]
        /\ starts' \in [Starts -> StartStates]
    BY <1>1, <1>2, <1>4, <2>6 DEF Types, StartStates, Pcs
  <2>9. Types'
    BY <1>1, <2>6, <2>7, <2>8 DEF Types
  <2>10. \A r \in Starts :
           /\ starts'[r].panel = starts[r].panel /\ starts'[r].current = starts[r].current
           /\ starts'[r].pc = IF r = s THEN "adding" ELSE starts[r].pc
    BY <1>1, <1>2, <1>4, <2>8
  <2>11. ASSUME NEW r \in Live PROVE starts[r].panel # p
    <3>1. SUFFICES ASSUME starts[r].panel = p PROVE FALSE
      OBVIOUS
    <3>2. /\ r \in Starts /\ mounted = p /\ starts[r].pc \in {"adding", "done"} /\ r # s
      BY <1>1, <2>11, <3>1, LiveHolds
    <3>3. MicFits(r) /\ PairFits(s, r)
      BY <2>11, <3>2 DEF VoiceInv
    <3> QED
      BY <1>2, <1>4, <2>1, <3>1, <3>2, <3>3 DEF MicFits, PairFits, Begun
  <2>12. s \notin escaped => mounted = p /\ ~locked /\ worker.ready
    BY <1>1, <1>2, <1>4 DEF VoiceInv, StartFits, WorkerFits
  <2>13. Live' \subseteq Live \cup {s}
    BY <2>6 DEF Live
  <2>14. WorkerFits'
    <3>1. Live' # {} => worker'.ready
      BY <2>6, <2>12, <2>13 DEF VoiceInv, WorkerFits, Live
    <3>2. \A r \in Starts : starts[r].pc # "prepared"
      BY <2>6 DEF Settled
    <3>3. \A r \in Starts :
            /\ starts[r].pc = "preparing" => ~worker.ready
            /\ starts[r].panel = mounted /\ Capturing(r) => worker.ready
      BY DEF VoiceInv, WorkerFits
    <3> QED
      BY <1>1, <2>6, <2>10, <3>1, <3>2, <3>3 DEF WorkerFits, Capturing
  <2>15. ASSUME NEW r \in Starts PROVE PanelFits(r)'
    <3>1. PanelFits(r)
      BY DEF VoiceInv
    <3>2. \A q \in Panels : hook'[q].kind = hook[q].kind
      BY <2>1, <2>4, <2>7
    <3> QED
      BY <1>1, <2>10, <3>1, <3>2 DEF PanelFits
  <2>16. ASSUME NEW r \in Starts PROVE StartFits(r)'
    <3>1. StartFits(r) /\ PanelFits(r)
      BY DEF VoiceInv
    <3>2. \A q \in Panels : hook'[q].ticking = hook[q].ticking
      BY <2>1, <2>4, <2>7
    <3>3. starts[r].pc # "none" /\ Begun(hook[starts[r].panel], r)
            => Begun(hook'[starts[r].panel], r)
      BY <2>1, <2>5, <2>7, PanelOfStart
    <3>4. /\ starts'[r].current => starts'[r].pc \in {"asking", "adding", "decoding"}
          /\ r \in mics' => starts'[r].pc \in {"adding", "done"}
      BY <1>1, <2>6, <2>10, <3>1 DEF StartFits
    <3>5. r \notin escaped' =>
           /\ starts'[r].pc \in {"preparing", "prepared"} =>
                mounted' = starts'[r].panel /\ ~locked'
           /\ starts'[r].current /\ Capturing(r)' => mounted' = starts'[r].panel /\ ~locked'
      BY <1>1, <2>6, <2>10, <3>1 DEF StartFits, Capturing
    <3>6. starts'[r].pc \in {"preparing", "prepared"} => ~hook'[starts'[r].panel].ticking
      BY <2>10, <3>1, <3>2 DEF StartFits, PanelFits
    <3>7. starts'[r].current /\ Capturing(r)' => Begun(hook'[starts'[r].panel], r)
      BY <1>1, <2>10, <3>1, <3>3 DEF StartFits, Capturing
    <3> QED
      BY <3>4, <3>5, <3>6, <3>7 DEF StartFits, Begun
  <2>17. ASSUME NEW r \in Starts, NEW q \in Starts PROVE PairFits(r, q)'
    <3>1. PairFits(r, q)
      BY DEF VoiceInv
    <3> QED
      BY <1>1, <2>10, <3>1 DEF PairFits, Capturing
  <2>18. ASSUME NEW r \in Live' PROVE MicFits(r)'
    <3>1. CASE r = s
      <4>1. s \notin escaped
        BY <2>6, <2>18, <3>1 DEF Live
      <4> QED
        BY <1>4, <2>4, <2>6, <2>7, <2>8, <2>12, <3>1, <4>1 DEF MicFits
    <3>2. CASE r # s
      <4>1. r \in Live /\ MicFits(r) /\ r \in Starts
        BY <1>1, <2>13, <2>18, <3>2 DEF VoiceInv, Live, Types
      <4>2. mounted \in Panels /\ mounted # p
        BY <2>11, <4>1, LiveHolds
      <4> QED
        BY <2>6, <2>7, <2>8, <3>2, <4>1, <4>2 DEF MicFits
    <3> QED
      BY <3>1, <3>2
  <2>19. \A q \in Panels : HookFits(hook[q])'
    BY <2>5, <2>7, HookIsFit
  <2> QED
    BY <2>9, <2>14, <2>15, <2>16, <2>17, <2>18, <2>19 DEF VoiceInv
<1> QED
  BY <1>3, <1>4


LEMMA ModuleAddedKeeps ==
    ASSUME VoiceInv, NEW s \in Starts, ModuleAdded(s)
    PROVE  VoiceInv'
<1>1. Types /\ starts[s].pc = "adding" /\ Capturing(s)
  BY DEF VoiceInv, ModuleAdded, Capturing
<1>2. PICK p \in Panels : p = starts[s].panel /\ hook[p].kind = "dictate"
  BY <1>1, PanelOfStart DEF VoiceInv, PanelFits
<1>3. PICK h \in Hooks : h = hook[p] /\ HookFits(h)
  BY HookIsFit
<1>4. /\ starts' \in [Starts -> StartStates] /\ StartsEnd /\ ~starts'[s].current
      /\ \A r \in Starts : r # s => starts'[r] = starts[r]
  BY <1>1, OneEnds DEF ModuleAdded
<1>5. CASE ~starts[s].current
  <2>1. PICK g : g = TeardownCapture(h)
    OBVIOUS
  <2>2. /\ g \in Hooks /\ HookFits(g) /\ g.kind = h.kind /\ ~g.ticking
        /\ \A r : Begun(h, r) => Begun(g, r)
    BY <1>3, <2>1, TeardownFits
  <2>3. hook' = [hook EXCEPT ![p] = g] /\ mics' = MicsAfterTeardown(hook[p])
    BY <1>2, <1>3, <1>5, <2>1 DEF ModuleAdded
  <2>4. /\ hook' \in [Panels -> Hooks] /\ HooksKeep /\ hook'[p] = g
        /\ \A q \in Panels : q # p => hook'[q] = hook[q]
    BY <1>3, <2>2, <2>3, OneHookKeeps
  <2>5. Types' /\ PageKeeps
    BY <1>1, <1>4, <2>3, <2>4 DEF ModuleAdded, Types, PageKeeps, MicsAfterTeardown
  <2>6. CASE p = mounted
    BY <1>4, <2>3, <2>4, <2>5, <2>6, TeardownSilences, EndingKeeps DEF ModuleAdded
  <2>7. CASE p # mounted
    <3>1. ASSUME NEW r \in Live
          PROVE  /\ starts'[r] = starts[r] /\ hook'[mounted].held = hook[mounted].held
                 /\ hook'[mounted].ticking = hook[mounted].ticking
      <4>1. r \in Starts /\ r # s /\ mounted \in Panels
        BY <1>2, <2>7, <3>1, LiveHolds
      <4> QED
        BY <1>4, <2>4, <2>7, <4>1
    <3>2. MicsEnd
      BY <2>3, <3>1 DEF MicsEnd, ModuleAdded, Live, MicsAfterTeardown
    <3> QED
      BY <1>4, <2>4, <2>5, <3>2, EndingKeeps
  <2> QED
    BY <2>6, <2>7
<1>6. CASE starts[s].current
  <2>1. Begun(h, s)
    BY <1>1, <1>2, <1>3, <1>6 DEF VoiceInv, StartFits
  <2>2. PICK g : g = [h EXCEPT !.ticking = TRUE, !.status = "recording"]
    OBVIOUS
  <2>3. g \in Hooks
    BY <2>2 DEF Hooks, Statuses
  <2>4. /\ g.kind = h.kind /\ g.status = "recording" /\ g.start = h.start
        /\ g.chunks = h.chunks /\ g.processing = h.processing /\ g.sent = h.sent
        /\ g.pendingFinal = h.pendingFinal /\ g.committed = h.committed
        /\ g.segmentStart = h.segmentStart /\ g.transcript = h.transcript
        /\ g.held = h.held /\ g.ticking = TRUE /\ g.own = h.own
    BY <2>2 DEF Hooks
  <2>5. HookFits(g)
    BY <1>2, <1>3, <2>1, <2>4 DEF HookFits, RunFits, TextFits, SentFits, Begun
  <2>6. /\ hook' = [hook EXCEPT ![p] = g]
        /\ UNCHANGED <<lowMemory, locked, mounted, worker, escaped, mics>>
        /\ Settled
    BY <1>1, <1>2, <1>3, <1>6, <2>2 DEF ModuleAdded, Types
  <2>7. /\ hook' \in [Panels -> Hooks] /\ hook'[p] = g
        /\ \A q \in Panels : q # p => hook'[q] = hook[q]
    BY <1>1, <2>3, <2>6 DEF Types
  <2>8. /\ starts'[s].pc = "done" /\ starts'[s].panel = p
    <3>1. starts[s] \in StartStates /\ starts'[s] = Done(starts[s])
      BY <1>1 DEF ModuleAdded, Types
    <3> QED
      BY <1>2, <3>1 DEF Done, StartStates
  <2>9. Types'
    BY <1>1, <1>4, <2>6, <2>7 DEF Types
  <2>10. Live' = Live
    BY <2>6 DEF Live
  <2>11. \A r \in Starts : starts[r].panel = p /\ r # s
            => ~starts[r].current /\ starts[r].pc # "preparing"
    <3>1. ASSUME NEW r \in Starts, starts[r].panel = p, r # s
          PROVE  ~starts[r].current /\ starts[r].pc # "preparing"
      <4>1. PairFits(r, s)
        BY DEF VoiceInv
      <4> QED
        BY <1>1, <1>2, <1>6, <3>1, <4>1 DEF PairFits
    <3> QED
      BY <3>1
  <2>12. WorkerFits'
    <3>1. WorkerFits
      BY DEF VoiceInv
    <3> QED
      BY <1>1, <1>4, <2>6, <2>8, <2>10, <3>1 DEF WorkerFits, Capturing
  <2>13. ASSUME NEW r \in Starts PROVE PanelFits(r)'
    <3>1. PanelFits(r)
      BY DEF VoiceInv
    <3>2. \A q \in Panels : hook'[q].kind = hook[q].kind
      BY <1>3, <2>4, <2>7
    <3>3. CASE r = s
      BY <1>2, <2>8, <3>2, <3>3 DEF PanelFits
    <3>4. CASE r # s
      BY <1>4, <3>1, <3>2, <3>4 DEF PanelFits
    <3> QED
      BY <3>3, <3>4
  <2>14. ASSUME NEW r \in Starts PROVE StartFits(r)'
    <3>1. StartFits(r) /\ PanelFits(r)
      BY DEF VoiceInv
    <3>2. CASE r = s
      BY <1>4, <2>8, <3>2 DEF StartFits, Capturing
    <3>3. CASE r # s /\ starts[r].panel = p
      BY <1>4, <2>6, <2>11, <3>1, <3>3 DEF StartFits, Capturing, Settled
    <3>4. CASE r # s /\ starts[r].panel # p
      <4>1. starts'[r] = starts[r]
            /\ (starts[r].pc # "none" => hook'[starts[r].panel] = hook[starts[r].panel])
        BY <1>4, <2>7, <3>4, PanelOfStart
      <4> QED
        BY <2>6, <3>1, <4>1 DEF StartFits, Capturing, Begun
    <3> QED
      BY <3>2, <3>3, <3>4
  <2>15. ASSUME NEW r \in Starts, NEW q \in Starts PROVE PairFits(r, q)'
    <3>1. PairFits(r, q)
      BY DEF VoiceInv
    <3>2. \A t \in Starts :
            /\ starts'[t].panel = starts[t].panel
            /\ starts'[t].current => starts[t].current
            /\ starts'[t].pc \in {starts[t].pc, "done"}
      BY <1>4 DEF StartsEnd
    <3> QED
      BY <3>1, <3>2 DEF PairFits, Capturing
  <2>16. ASSUME NEW r \in Live' PROVE MicFits(r)'
    <3>1. r \in Live /\ MicFits(r) /\ r \in Starts /\ mounted \in Panels
      BY <2>10, <2>16, LiveHolds DEF VoiceInv
    <3>2. hook'[mounted].held = hook[mounted].held
      BY <1>3, <2>4, <2>7, <3>1
    <3>3. hook[mounted].ticking => hook'[mounted].ticking
      BY <1>3, <2>4, <2>7, <3>1
    <3>4. CASE r = s
      BY <1>2, <2>4, <2>6, <2>7, <2>8, <3>1, <3>2, <3>4 DEF MicFits
    <3>5. CASE r # s
      BY <1>4, <2>6, <3>1, <3>2, <3>3, <3>5 DEF MicFits
    <3> QED
      BY <3>4, <3>5
  <2>17. \A q \in Panels : HookFits(hook[q])'
    BY <2>5, <2>7, HookIsFit
  <2> QED
    BY <2>9, <2>12, <2>13, <2>14, <2>15, <2>16, <2>17 DEF VoiceInv
<1> QED
  BY <1>5, <1>6


---------------------------------------------------------------------------
\* The steps that begin something.

\* A new generation of a panel: every other start of the panel is obsolete.
LEMMA NewGeneration ==
    ASSUME VoiceInv, NEW s \in Starts, NEW p \in Panels, NEW pc \in Pcs,
           starts' = [ResetStarts(p) EXCEPT
                        ![s] = [pc |-> pc, panel |-> p, current |-> TRUE]]
    PROVE  /\ starts' \in [Starts -> StartStates]
           /\ starts'[s].pc = pc /\ starts'[s].panel = p
           /\ \A r \in Starts : r # s =>
                /\ starts'[r].panel = starts[r].panel /\ starts'[r].pc = starts[r].pc
                /\ starts'[r].current => starts[r].current
                /\ starts[r].panel = p => ~starts'[r].current
<1>1. PICK q : q = [pc |-> pc, panel |-> p, current |-> TRUE]
  OBVIOUS
<1>2. q \in StartStates /\ q.pc = pc /\ q.panel = p
  BY <1>1 DEF StartStates
<1>3. ASSUME NEW r \in Starts
      PROVE  /\ ResetStarts(p)[r] \in StartStates
             /\ ResetStarts(p)[r].panel = starts[r].panel
             /\ ResetStarts(p)[r].pc = starts[r].pc
             /\ ResetStarts(p)[r].current => starts[r].current
             /\ starts[r].panel = p => ~ResetStarts(p)[r].current
  <2>1. starts[r] \in StartStates
    BY DEF VoiceInv, Types
  <2> QED
    BY <2>1 DEF ResetStarts, StartStates
<1>4. ResetStarts(p) \in [Starts -> StartStates]
  BY <1>3 DEF ResetStarts
<1>5. /\ starts' \in [Starts -> StartStates] /\ starts'[s] = q
      /\ \A r \in Starts : r # s => starts'[r] = ResetStarts(p)[r]
  BY <1>1, <1>2, <1>4
<1> QED
  BY <1>2, <1>3, <1>5

\* The head of startRecording, where no microphone is live and no press waits for the model.
LEMMA BeginKeeps ==
    ASSUME VoiceInv, NEW s \in Starts, NEW p \in Panels, Begin(s, p),
           hook[p].kind = "dictate", ~hook[p].ticking, worker.ready,
           s \notin mics, s \notin escaped => mounted = p /\ ~locked, Live' = {},
           UNCHANGED <<lowMemory, locked, mounted, mics, worker>>
    PROVE  VoiceInv'
<1>1. Types
  BY DEF VoiceInv
<1>2. PICK h \in Hooks : h = hook[p] /\ HookFits(h)
  BY HookIsFit
<1>3. PICK g : g = BegunHook(h, s)
  OBVIOUS
<1>4. /\ g \in Hooks /\ g.kind = h.kind /\ ~g.ticking /\ HookFits(g) /\ Begun(g, s)
  BY <1>2, <1>3, BegunHookFits
<1>5. hook' = [hook EXCEPT ![p] = g]
  BY <1>2, <1>3 DEF Begin, BegunHook
<1>6. /\ hook' \in [Panels -> Hooks] /\ hook'[p] = g
      /\ \A q \in Panels : q # p => hook'[q] = hook[q]
  BY <1>1, <1>4, <1>5 DEF Types
<1>7. /\ starts' \in [Starts -> StartStates]
      /\ starts'[s].pc = "asking" /\ starts'[s].panel = p
      /\ \A r \in Starts : r # s =>
           /\ starts'[r].panel = starts[r].panel /\ starts'[r].pc = starts[r].pc
           /\ starts'[r].current => starts[r].current
           /\ starts[r].panel = p => ~starts'[r].current
  BY NewGeneration DEF Begin, Pcs
<1>8. /\ escaped \subseteq escaped' /\ escaped' \subseteq Starts
  BY <1>1 DEF Begin, Types
<1>9. Types'
  BY <1>1, <1>6, <1>7, <1>8 DEF Types
<1>10. ASSUME NEW r \in Starts PROVE starts[r].pc # "preparing"
  BY DEF VoiceInv, WorkerFits
<1>11. WorkerFits'
  <2>1. \A r \in Starts : starts'[r].pc # "preparing"
    BY <1>7, <1>10
  <2> QED
    BY <2>1 DEF WorkerFits
<1>12. \A q \in Panels : hook'[q].kind = hook[q].kind
  BY <1>2, <1>4, <1>6
<1>13. ASSUME NEW r \in Starts PROVE PanelFits(r)'
  <2>1. PanelFits(r)
    BY DEF VoiceInv
  <2>2. CASE r = s
    BY <1>7, <1>12, <2>2 DEF PanelFits
  <2>3. CASE r # s
    BY <1>7, <1>12, <2>1, <2>3 DEF PanelFits
  <2> QED
    BY <2>2, <2>3
<1>14. ASSUME NEW r \in Starts PROVE StartFits(r)'
  <2>1. StartFits(r)
    BY DEF VoiceInv
  <2>2. CASE r = s
    BY <1>4, <1>6, <1>7, <1>8, <2>2 DEF StartFits, Capturing
  <2>3. CASE r # s /\ starts[r].panel = p
    <3>1. ~starts'[r].current
      BY <1>7, <2>3
    <3> QED
      BY <1>4, <1>6, <1>7, <1>8, <2>1, <2>3, <3>1 DEF StartFits, Capturing
  <2>4. CASE r # s /\ starts[r].panel # p
    <3>1. starts[r].pc # "none" => hook'[starts[r].panel] = hook[starts[r].panel]
      BY <1>6, <2>4, PanelOfStart
    <3>2. /\ starts'[r].panel = starts[r].panel /\ starts'[r].pc = starts[r].pc
          /\ starts'[r].current => starts[r].current
      BY <1>7, <2>4
    <3> QED
      BY <1>8, <2>1, <3>1, <3>2 DEF StartFits, Capturing, Begun
  <2> QED
    BY <2>2, <2>3, <2>4
<1>15. ASSUME NEW r \in Starts, NEW q \in Starts PROVE PairFits(r, q)'
  <2>1. PairFits(r, q)
    BY DEF VoiceInv
  <2>2. starts'[r].pc # "preparing"
    BY <1>7, <1>10
  <2>3. r # q /\ starts'[r].panel = starts'[q].panel =>
          ~(starts'[r].current /\ starts'[q].current)
    BY <1>7, <2>1 DEF PairFits
  <2> QED
    BY <2>2, <2>3 DEF PairFits
<1>16. \A q \in Panels : HookFits(hook[q])'
  BY <1>4, <1>6, HookIsFit
<1> QED
  BY <1>9, <1>11, <1>13, <1>14, <1>15, <1>16 DEF VoiceInv

LEMMA BeginPreparedKeeps ==
    ASSUME VoiceInv, NEW s \in Starts, BeginPrepared(s)
    PROVE  VoiceInv'
<1>1. starts[s].pc = "prepared"
  BY DEF BeginPrepared
<1>2. PICK p \in Panels : p = starts[s].panel
  BY <1>1, PanelOfStart
<1>3. hook[p].kind = "dictate" /\ ~hook[p].ticking
  BY <1>1, <1>2 DEF VoiceInv, PanelFits, StartFits
<1>4. worker.ready /\ Live = {}
  BY <1>1 DEF VoiceInv, WorkerFits
<1>5. s \notin mics /\ (s \notin escaped => mounted = p /\ ~locked)
  BY <1>1, <1>2 DEF VoiceInv, StartFits
<1>6. Live' = {}
  BY <1>4 DEF BeginPrepared, Begin, Live
<1> QED
  BY <1>2, <1>3, <1>4, <1>5, <1>6, BeginKeeps DEF BeginPrepared

LEMMA RecordKeeps ==
    ASSUME VoiceInv, NEW s \in Starts, Record(s)
    PROVE  VoiceInv'
<1>1. /\ Types /\ Settled /\ ~locked /\ starts[s].pc = "none"
      /\ UNCHANGED <<lowMemory, locked, mounted, mics>>
  BY DEF VoiceInv, Record, NextStart
<1>2. PICK p \in Panels : p = mounted
  BY <1>1 DEF Types, Record
<1>3. /\ hook[p].kind = "dictate" /\ hook[p].status \in {"ready", "idle"}
  BY <1>2 DEF Record
<1>4. ~hook[p].ticking
  BY <1>3, HookIsFit DEF HookFits, RunFits
<1>5. s \notin mics
  BY <1>1 DEF VoiceInv, StartFits
<1>6. CASE worker.ready
  <2>1. Begin(s, p) /\ worker' = worker
    BY <1>2, <1>6 DEF Record
  <2>2. ASSUME NEW r \in Live' PROVE FALSE
    <3>1. r \in Live /\ r \notin escaped'
      BY <1>1, <2>1, <2>2 DEF Begin, Live
    <3>2. /\ r \in Starts /\ starts[r].panel = p /\ starts[r].pc \in {"adding", "done"}
          /\ MicFits(r)
      BY <1>2, <3>1, LiveHolds DEF VoiceInv
    <3>3. Waiting(r) /\ r # s
      BY <1>1, <1>2, <1>4, <3>2 DEF MicFits, Waiting
    <3> QED
      BY <2>1, <3>1, <3>2, <3>3 DEF Begin
  <2> QED
    BY <1>1, <1>2, <1>3, <1>4, <1>5, <1>6, <2>1, <2>2, BeginKeeps
<1>7. CASE ~worker.ready
  <2>1. /\ starts' = [starts EXCEPT
                        ![s] = [pc |-> "preparing", panel |-> p, current |-> FALSE]]
        /\ worker' = EnsureModelLoaded(TRUE) /\ hook' = hook /\ escaped' = escaped
    BY <1>2, <1>7 DEF Record
  <2>2. /\ starts' \in [Starts -> StartStates]
        /\ starts'[s].pc = "preparing" /\ starts'[s].panel = p /\ ~starts'[s].current
        /\ \A r \in Starts : r # s => starts'[r] = starts[r]
    <3>1. PICK q : q = [pc |-> "preparing", panel |-> p, current |-> FALSE]
      OBVIOUS
    <3>2. /\ q \in StartStates /\ q.pc = "preparing" /\ q.panel = p
          /\ ~q.current
      BY <3>1 DEF StartStates, Pcs
    <3>3. /\ starts' \in [Starts -> StartStates] /\ starts'[s] = q
          /\ \A r \in Starts : r # s => starts'[r] = starts[r]
      BY <1>1, <2>1, <3>1, <3>2 DEF Types
    <3> QED
      BY <3>2, <3>3
  <2>3. worker' \in Workers /\ ~worker'.ready
    BY <1>1, <1>7, <2>1, WorkerType
  <2>4. Types'
    BY <1>1, <2>1, <2>2, <2>3 DEF Types
  <2>5. Live = {} /\ Live' = {}
    BY <1>1, <1>7, <2>1 DEF VoiceInv, WorkerFits, Live
  <2>6. ASSUME NEW r \in Starts PROVE ~(starts[r].panel = mounted /\ Capturing(r))
    BY <1>7 DEF VoiceInv, WorkerFits
  <2>7. WorkerFits'
    <3>1. \A r \in Starts : starts'[r].pc # "prepared"
      BY <1>1, <2>2 DEF Settled
    <3>2. \A r \in Starts : ~(starts'[r].panel = mounted /\ Capturing(r)')
      BY <2>2, <2>6 DEF Capturing
    <3> QED
      BY <1>1, <2>3, <2>5, <3>1, <3>2 DEF WorkerFits
  <2>8. ASSUME NEW r \in Starts PROVE PanelFits(r)'
    <3>1. PanelFits(r)
      BY DEF VoiceInv
    <3>2. CASE r = s
      BY <1>3, <2>1, <2>2, <3>2 DEF PanelFits
    <3>3. CASE r # s
      BY <2>1, <2>2, <3>1, <3>3 DEF PanelFits
    <3> QED
      BY <3>2, <3>3
  <2>9. ASSUME NEW r \in Starts PROVE StartFits(r)'
    <3>1. StartFits(r)
      BY DEF VoiceInv
    <3>2. CASE r = s
      BY <1>1, <1>2, <1>4, <1>5, <2>1, <2>2, <3>2 DEF StartFits, Capturing
    <3>3. CASE r # s
      BY <1>1, <2>1, <2>2, <3>1, <3>3 DEF StartFits, Capturing
    <3> QED
      BY <3>2, <3>3
  <2>10. ASSUME NEW r \in Starts, NEW q \in Starts PROVE PairFits(r, q)'
    <3>1. PairFits(r, q)
      BY DEF VoiceInv
    <3>2. starts'[q].panel = p => ~Capturing(q)'
      BY <1>2, <2>2, <2>6 DEF Capturing
    <3> QED
      BY <2>2, <3>1, <3>2 DEF PairFits, Capturing
  <2>11. \A q \in Panels : HookFits(hook[q])'
    BY <2>1, HookIsFit
  <2> QED
    BY <2>4, <2>5, <2>7, <2>8, <2>9, <2>10, <2>11 DEF VoiceInv
<1> QED
  BY <1>6, <1>7


LEMMA ChooseFileKeeps ==
    ASSUME VoiceInv, NEW s \in Starts, ChooseFile(s)
    PROVE  VoiceInv'
<1>1. /\ Types /\ Settled /\ ~locked /\ starts[s].pc = "none"
      /\ UNCHANGED <<lowMemory, locked, mounted, mics, escaped>>
      /\ worker' = EnsureModelLoaded(TRUE)
  BY DEF VoiceInv, ChooseFile, NextStart
<1>2. PICK p \in Panels : p = mounted
  BY <1>1 DEF Types, ChooseFile
<1>3. PICK h \in Hooks : h = hook[p] /\ HookFits(h) /\ h.kind = "upload"
  BY <1>2, HookIsFit DEF ChooseFile
<1>4. PICK g : g = [h EXCEPT !.status = "decoding", !.start = s, !.transcript = <<>>,
                             !.own = TRUE]
  OBVIOUS
<1>5. g \in Hooks
  <2>1. s \in Owners /\ <<>> \in Seq(Words) /\ "decoding" \in Statuses
    BY DEF Owners, Statuses
  <2> QED
    BY <1>4, <2>1 DEF Hooks
<1>6. /\ g.kind = h.kind /\ g.status = "decoding" /\ g.held = h.held
      /\ g.ticking = h.ticking
  BY <1>4 DEF Hooks
<1>7. HookFits(g)
  BY <1>3, <1>6 DEF HookFits, RunFits
<1>8. hook' = [hook EXCEPT ![p] = g]
  BY <1>1, <1>2, <1>3, <1>4 DEF ChooseFile, Types
<1>9. /\ hook' \in [Panels -> Hooks] /\ hook'[p] = g
      /\ \A q \in Panels : q # p => hook'[q] = hook[q]
  BY <1>1, <1>5, <1>8 DEF Types
<1>10. /\ starts' \in [Starts -> StartStates]
       /\ starts'[s].pc = "decoding" /\ starts'[s].panel = p
       /\ \A r \in Starts : r # s =>
            /\ starts'[r].panel = starts[r].panel /\ starts'[r].pc = starts[r].pc
            /\ starts'[r].current => starts[r].current
            /\ starts[r].panel = p => ~starts'[r].current
  <2>1. starts' = [ResetStarts(p) EXCEPT
                     ![s] = [pc |-> "decoding", panel |-> p, current |-> TRUE]]
    BY <1>2 DEF ChooseFile
  <2>2. "decoding" \in Pcs
    BY DEF Pcs
  <2> QED
    BY <2>1, <2>2, NewGeneration
<1>11. worker' \in Workers /\ (worker'.ready => worker.ready)
  BY <1>1, WorkerType
<1>12. Types'
  BY <1>1, <1>9, <1>10, <1>11 DEF Types
<1>13. Live = {} /\ Live' = {}
  BY <1>1, <1>2, <1>3, LiveHolds DEF Live
<1>14. ASSUME NEW r \in Starts, starts[r].panel = p PROVE ~Capturing(r)
  BY <1>3, <1>14 DEF VoiceInv, PanelFits, Capturing
<1>15. WorkerFits'
  <2>1. \A r \in Starts : starts'[r].pc # "prepared"
    BY <1>1, <1>10 DEF Settled
  <2>2. \A r \in Starts : ~(starts'[r].panel = mounted /\ Capturing(r)')
    BY <1>2, <1>10, <1>14 DEF Capturing
  <2>3. \A r \in Starts : starts'[r].pc = "preparing" => ~worker'.ready
    BY <1>10, <1>11 DEF VoiceInv, WorkerFits
  <2> QED
    BY <1>1, <1>13, <2>1, <2>2, <2>3 DEF WorkerFits
<1>16. \A q \in Panels : hook'[q].kind = hook[q].kind /\ hook'[q].ticking = hook[q].ticking
  BY <1>3, <1>6, <1>9
<1>17. ASSUME NEW r \in Starts PROVE PanelFits(r)'
  <2>1. PanelFits(r)
    BY DEF VoiceInv
  <2>2. CASE r = s
    BY <1>3, <1>10, <1>16, <2>2 DEF PanelFits
  <2>3. CASE r # s
    BY <1>10, <1>16, <2>1, <2>3 DEF PanelFits
  <2> QED
    BY <2>2, <2>3
<1>18. ASSUME NEW r \in Starts PROVE StartFits(r)'
  <2>1. StartFits(r) /\ PanelFits(r)
    BY DEF VoiceInv
  <2>2. CASE r = s
    BY <1>1, <1>10, <2>1, <2>2 DEF StartFits, Capturing
  <2>3. CASE r # s
    <3>1. /\ starts'[r].panel = starts[r].panel /\ starts'[r].pc = starts[r].pc
          /\ starts'[r].current => starts[r].current
      BY <1>10, <2>3
    <3>2. starts[r].pc \in {"preparing", "prepared"} => ~hook'[starts[r].panel].ticking
      BY <1>16, <2>1 DEF StartFits, PanelFits
    <3>3. Capturing(r) => hook'[starts[r].panel] = hook[starts[r].panel]
      BY <1>9, <1>14, PanelOfStart DEF Capturing
    <3> QED
      BY <1>1, <2>1, <3>1, <3>2, <3>3 DEF StartFits, Capturing, Begun
  <2> QED
    BY <2>2, <2>3
<1>19. ASSUME NEW r \in Starts, NEW q \in Starts PROVE PairFits(r, q)'
  <2>1. PairFits(r, q)
    BY DEF VoiceInv
  <2>2. r # q /\ starts'[r].panel = starts'[q].panel =>
          ~(starts'[r].current /\ starts'[q].current)
    BY <1>10, <2>1 DEF PairFits
  <2>3. r # q /\ starts'[r].panel = starts'[q].panel /\ starts'[r].pc = "preparing" =>
          ~Capturing(q)'
    BY <1>10, <2>1 DEF PairFits, Capturing
  <2> QED
    BY <2>2, <2>3 DEF PairFits
<1>20. \A q \in Panels : HookFits(hook[q])'
  BY <1>7, <1>9, HookIsFit
<1> QED
  BY <1>12, <1>13, <1>15, <1>17, <1>18, <1>19, <1>20 DEF VoiceInv

\* The model is ready: the presses of Record that wait for it begin, and no microphone is live.
LEMMA ReadinessKeeps ==
    ASSUME VoiceInv, Settled, worker' \in Workers, worker'.ready,
           starts' = [s \in Starts |-> IF starts[s].pc = "preparing"
                                       THEN [starts[s] EXCEPT !.pc = "prepared"] ELSE starts[s]],
           hook' \in [Panels -> Hooks],
           \A p \in Panels :
              /\ HookFits(hook'[p])
              /\ hook'[p].kind = hook[p].kind /\ hook'[p].held = hook[p].held
              /\ hook'[p].ticking = hook[p].ticking
              /\ \A s : Begun(hook[p], s) => Begun(hook'[p], s),
           UNCHANGED <<lowMemory, locked, mounted, mics, escaped>>
    PROVE  VoiceInv'
<1>1. Types
  BY DEF VoiceInv
<1>2. ASSUME NEW s \in Starts
      PROVE  /\ starts'[s] \in StartStates /\ starts'[s].panel = starts[s].panel
             /\ starts'[s].current = starts[s].current
             /\ starts[s].pc = "preparing" => starts'[s].pc = "prepared"
             /\ starts[s].pc # "preparing" => starts'[s].pc = starts[s].pc
  <2>1. starts[s] \in StartStates
    BY <1>1 DEF Types
  <2> QED
    BY <2>1 DEF StartStates, Pcs
<1>3. Types'
  BY <1>1, <1>2 DEF Types
<1>4. Live' = Live
  BY DEF Live
<1>5. \A s \in Starts : starts[s].pc # "prepared" /\ starts'[s].pc # "preparing"
  BY <1>2 DEF Settled
<1>6. ASSUME NEW s \in Starts, starts[s].pc = "preparing" PROVE Live = {}
  BY <1>6 DEF VoiceInv, WorkerFits
<1>7. WorkerFits'
  BY <1>2, <1>4, <1>5, <1>6 DEF WorkerFits
<1>8. ASSUME NEW s \in Starts PROVE PanelFits(s)'
  <2>1. PanelFits(s)
    BY DEF VoiceInv
  <2> QED
    BY <1>2, <2>1 DEF PanelFits
<1>9. ASSUME NEW s \in Starts PROVE StartFits(s)'
  <2>1. StartFits(s) /\ PanelFits(s)
    BY DEF VoiceInv
  <2>2. /\ starts'[s].current => starts'[s].pc \in {"asking", "adding", "decoding"}
        /\ s \in mics' => starts'[s].pc \in {"adding", "done"}
    BY <1>2, <2>1 DEF StartFits
  <2>3. s \notin escaped' =>
         /\ starts'[s].pc \in {"preparing", "prepared"} =>
              mounted' = starts'[s].panel /\ ~locked'
         /\ starts'[s].current /\ Capturing(s)' => mounted' = starts'[s].panel /\ ~locked'
    BY <1>2, <2>1 DEF StartFits, Capturing
  <2>4. starts'[s].pc \in {"preparing", "prepared"} => ~hook'[starts'[s].panel].ticking
    BY <1>2, <2>1 DEF StartFits, PanelFits
  <2>5. starts'[s].current /\ Capturing(s)' => Begun(hook'[starts'[s].panel], s)
    BY <1>2, <2>1, PanelOfStart DEF StartFits, Capturing
  <2> QED
    BY <2>2, <2>3, <2>4, <2>5 DEF StartFits, Begun
<1>10. ASSUME NEW s \in Starts, NEW r \in Starts PROVE PairFits(s, r)'
  <2>1. PairFits(s, r)
    BY DEF VoiceInv
  <2> QED
    BY <1>2, <1>5, <2>1 DEF PairFits
<1>11. ASSUME NEW s \in Live' PROVE MicFits(s)'
  <2>1. /\ s \in Live /\ s \in Starts /\ MicFits(s) /\ mounted \in Panels
        /\ starts[s].pc \in {"adding", "done"}
    BY <1>4, <1>11, LiveHolds DEF VoiceInv
  <2> QED
    BY <1>2, <2>1 DEF MicFits
<1>12. \A p \in Panels : HookFits(hook[p])'
  OBVIOUS
<1> QED
  BY <1>3, <1>7, <1>8, <1>9, <1>10, <1>11, <1>12 DEF VoiceInv

LEMMA ReadyKeeps ==
    ASSUME VoiceInv, NEW i \in 1..Len(worker.jobs), Ready(i)
    PROVE  VoiceInv'
<1>1. worker' \in Workers /\ worker'.ready
  BY JobOf DEF VoiceInv, Types, Workers, Ready
<1>2. hook' = hook /\ hook \in [Panels -> Hooks]
  BY DEF Ready, VoiceInv, Types
<1> QED
  BY <1>1, <1>2, HookIsFit, ReadinessKeeps DEF Ready

LEMMA ResultKeeps ==
    ASSUME VoiceInv, NEW i \in 1..Len(worker.jobs), Result(i)
    PROVE  VoiceInv'
<1>1. Types
  BY DEF VoiceInv
<1>2. PICK job \in Passes : job = worker.jobs[i] /\ Without(worker.jobs, i) \in Seq(Passes)
  BY JobOf
<1>3. CASE mounted # 0 /\ hook[mounted].processing
  <2>1. PICK p \in Panels : p = mounted
    BY <1>1, <1>3 DEF Types
  <2>2. PICK h \in Hooks : h = hook[p] /\ HookFits(h) /\ h.processing
    BY <1>3, <2>1, HookIsFit
  <2>3. PICK g : g = Answered(h, job)
    OBVIOUS
  <2>4. /\ g \in Hooks /\ HookFits(g) /\ g.kind = h.kind /\ g.held = h.held
        /\ g.ticking = h.ticking
    BY <2>2, <2>3, AnsweredFits
  <2>5. PICK more \in Seq(Passes) : more = AnsweredJobs(h, job)
    BY <2>2, AnsweredJobsType
  <2>6. /\ hook' = [hook EXCEPT ![p] = g]
        /\ worker' = [worker EXCEPT !.ready = TRUE, !.jobs = Without(@, i) \o more]
        /\ Settled /\ UNCHANGED <<lowMemory, locked, mounted, mics, escaped>>
    BY <1>2, <1>3, <2>1, <2>2, <2>3, <2>5 DEF Result
  <2>7. worker' \in Workers /\ worker'.ready
    <3>1. Without(worker.jobs, i) \o more \in Seq(Passes)
      BY <1>2, ConcatProperties
    <3> QED
      BY <1>1, <2>6, <3>1 DEF Types, Workers
  <2>8. /\ hook' \in [Panels -> Hooks] /\ hook'[p] = g
        /\ \A q \in Panels : q # p => hook'[q] = hook[q]
    BY <1>1, <2>4, <2>6 DEF Types
  <2>9. ASSUME NEW q \in Panels
        PROVE  /\ HookFits(hook'[q])
               /\ hook'[q].kind = hook[q].kind /\ hook'[q].held = hook[q].held
               /\ hook'[q].ticking = hook[q].ticking
               /\ \A s : Begun(hook[q], s) => Begun(hook'[q], s)
    <3>1. CASE q = p
      BY <2>2, <2>4, <2>8, <3>1 DEF Begun
    <3>2. CASE q # p
      BY <2>8, <3>2, HookIsFit
    <3> QED
      BY <3>1, <3>2
  <2> QED
    BY <2>6, <2>7, <2>8, <2>9, ReadinessKeeps DEF Result
<1>4. CASE ~(mounted # 0 /\ hook[mounted].processing)
  <2>1. /\ hook' = hook
        /\ worker' = [worker EXCEPT !.ready = TRUE, !.jobs = Without(@, i) \o <<>>]
    BY <1>4 DEF Result
  <2>2. worker' \in Workers /\ worker'.ready
    <3>1. Without(worker.jobs, i) \o <<>> \in Seq(Passes)
      BY <1>2, ConcatProperties
    <3> QED
      BY <1>1, <2>1, <3>1 DEF Types, Workers
  <2>3. hook' \in [Panels -> Hooks]
    BY <1>1, <2>1 DEF Types
  <2> QED
    BY <2>1, <2>2, <2>3, HookIsFit, ReadinessKeeps DEF Result
<1> QED
  BY <1>3, <1>4

---------------------------------------------------------------------------
LEMMA InitFits == Init => VoiceInv
<1> SUFFICES ASSUME Init PROVE VoiceInv
  OBVIOUS
<1>1. /\ NoStart \in StartStates /\ NoStart.pc = "none" /\ NoStart.current = FALSE
      /\ Cold \in Workers
  BY DEF NoStart, StartStates, Pcs, Cold, Workers
<1>2. \A p \in Panels : hook[p] \in Hooks /\ HookFits(hook[p])
  BY FreshFits DEF Init, Kinds
<1>3. \A s \in Starts : starts[s].pc = "none" /\ ~starts[s].current
  BY <1>1 DEF Init
<1>4. Types
  BY <1>1, <1>2, VoiceAssumption DEF Init, Types
<1>5. Live = {} /\ mics = {}
  BY DEF Init, Live
<1>6. WorkerFits
  BY <1>3, <1>5 DEF WorkerFits, Capturing
<1>7. \A s \in Starts : PanelFits(s) /\ StartFits(s)
  BY <1>3, <1>5 DEF PanelFits, StartFits, Capturing
<1>8. \A s, r \in Starts : PairFits(s, r)
  BY <1>3 DEF PairFits
<1> QED
  BY <1>2, <1>4, <1>5, <1>6, <1>7, <1>8 DEF VoiceInv

LEMMA StepKeeps ==
    ASSUME VoiceInv, [Next]_vars
    PROVE  VoiceInv'
<1>1. ASSUME NEW p \in Panels, NEW kind \in {"dictate", "upload"}, Open(p, kind)
      PROVE  VoiceInv'
  BY <1>1, OpenKeeps
<1>2. CASE BackgroundWarmUp
  BY <1>2, BackgroundWarmUpKeeps
<1>3. CASE Unmount
  BY <1>3, UnmountKeeps
<1>4. CASE Close
  BY <1>4, CloseKeeps
<1>5. CASE ResetUpload
  BY <1>5, ResetUploadKeeps
<1>6. CASE Lock \/ EditReview
  BY <1>6, LockKeeps, EditReviewKeeps
<1>7. CASE Unlock
  BY <1>7, UnlockKeeps
<1>8. ASSUME NEW s \in Starts,
             \/ Record(s) \/ BeginPrepared(s) \/ PrepareTimesOut(s)
             \/ MicGranted(s) \/ CaptureFails(s) \/ ModuleAdded(s)
             \/ ChooseFile(s) \/ Decoded(s) \/ DecodeFails(s)
      PROVE  VoiceInv'
  BY <1>8, RecordKeeps, BeginPreparedKeeps, PrepareTimesOutKeeps, MicGrantedKeeps,
     CaptureFailsKeeps, ModuleAddedKeeps, ChooseFileKeeps, DecodedKeeps, DecodeFailsKeeps
<1>9. ASSUME NEW p \in Panels, Chunk(p) \/ Tick(p)
      PROVE  VoiceInv'
  BY <1>9, ChunkKeeps, TickKeeps
<1>10. CASE StopRecording
  BY <1>10, StopRecordingKeeps
<1>11. ASSUME NEW i \in 1..Len(worker.jobs), Ready(i) \/ Result(i) \/ Error(i)
       PROVE  VoiceInv'
  BY <1>11, ReadyKeeps, ResultKeeps, ErrorKeeps
<1>12. CASE UNCHANGED vars
  BY <1>12 DEF vars, VoiceInv, Types, WorkerFits, PanelFits, StartFits, PairFits, MicFits,
               Live, Capturing
<1> QED
  BY <1>1, <1>2, <1>3, <1>4, <1>5, <1>6, <1>7, <1>8, <1>9, <1>10, <1>11, <1>12 DEF Next

LEMMA VoiceInvHolds == Spec => []VoiceInv
<1>1. VoiceInv /\ [Next]_vars => VoiceInv'
  BY StepKeeps
<1> QED
  BY InitFits, <1>1, PTL DEF Spec

\* A microphone that is on is held by the panel on screen, of an open vault, unless its start
\* was under way when the panel went away, waited for the model when the vault locked, or was
\* overtaken: of any number of panels and presses of Record, on a device of either kind.
THEOREM MicrophonesAreHeld == Spec => []MicrophoneIsHeld
<1>1. VoiceInv => MicrophoneIsHeld
  <2> SUFFICES ASSUME VoiceInv, NEW s \in mics \ escaped
               PROVE  ~locked /\ mounted = starts[s].panel /\ hook[mounted].held = s
    BY DEF MicrophoneIsHeld
  <2> QED
    BY LiveHolds DEF Live
<1> QED
  BY <1>1, VoiceInvHolds, PTL

---------------------------------------------------------------------------
\* Whose words a panel shows.

\* A start is of the panel it was made in for good, and a panel's hook and its edited text
\* are about starts of its own.
EditsFit ==
    /\ \A s \in Starts : starts[s].pc = "none" => starts[s].panel = 0
    /\ \A p \in Panels :
         /\ hook[p].start # 0 => starts[hook[p].start].panel = p
         /\ hook[p].edited # 0 => starts[hook[p].edited].panel = p

SameWords(g, h) == g.start = h.start /\ g.edited = h.edited

\* Most steps leave the words of a panel alone, drop them, or take those under review.
WordsKeep ==
    \A p \in Panels : /\ hook'[p].start \in {hook[p].start, 0}
                      /\ hook'[p].edited \in {hook[p].edited, hook[p].start, 0}

StartsStay ==
    \A s \in Starts : /\ starts'[s].panel = starts[s].panel
                      /\ starts'[s].pc = "none" => starts[s].pc = "none"

LEMMA WordsKeepEdits ==
    ASSUME Types, EditsFit, WordsKeep, StartsStay
    PROVE  EditsFit'
<1>1. \A p \in Panels : hook[p].start \in Owners /\ hook[p].edited \in Owners
  BY DEF Types, Hooks
<1>2. ASSUME NEW p \in Panels
      PROVE  /\ hook'[p].start # 0 => starts'[hook'[p].start].panel = p
             /\ hook'[p].edited # 0 => starts'[hook'[p].edited].panel = p
  BY <1>1, <1>2 DEF EditsFit, WordsKeep, StartsStay, Owners
<1> QED
  BY <1>2 DEF EditsFit, StartsStay

LEMMA HelpersKeepWords ==
    ASSUME NEW h \in Hooks
    PROVE  /\ SameWords(TeardownCapture(h), h) /\ SameWords(Failed(h), h)
           /\ SameWords(Finalize(h), h)
           /\ SameWords([TeardownCapture(h) EXCEPT !.status = "error"], h)
           /\ SameWords(Finalize([TeardownCapture(h) EXCEPT !.status = "processing"]), h)
           /\ \A job \in Passes : SameWords(Answered(h, job), h)
<1>1. ASSUME NEW g \in Hooks PROVE SameWords(Finalize(g), g)
  BY DEF Hooks, Finalize, SameWords
<1>2. /\ TeardownCapture(h) \in Hooks /\ SameWords(TeardownCapture(h), h)
      /\ SameWords(Failed(h), h)
  BY DEF Hooks, TeardownCapture, Failed, SameWords, Owners
<1>3. SameWords([TeardownCapture(h) EXCEPT !.status = "error"], h)
  BY DEF Hooks, TeardownCapture, SameWords
<1>4. SameWords(Finalize([TeardownCapture(h) EXCEPT !.status = "processing"]), h)
  <2>1. PICK t \in Hooks : t = TeardownCapture(h)
    BY <1>2
  <2>2. PICK g \in Hooks : g = [t EXCEPT !.status = "processing"]
    BY <2>1 DEF Hooks, Statuses
  <2>3. SameWords(g, t)
    BY <2>1, <2>2 DEF Hooks, SameWords
  <2> QED
    BY <1>1, <1>2, <2>1, <2>2, <2>3 DEF SameWords
<1>5. ASSUME NEW job \in Passes PROVE SameWords(Answered(h, job), h)
  <2>1. PICK text \in Seq(Words) : text = Text(job.start, job.from, job.to)
    BY TextIsWords DEF Passes
  <2>2. PICK m \in Hooks : m = [h EXCEPT !.own = @ /\ job = h.sent]
    BY DEF Hooks
  <2>3. SameWords(m, h)
    BY <2>2 DEF Hooks, SameWords
  <2>4. CASE h.kind = "upload" \/ (h.kind = "dictate" /\ h.sent.kind = "final")
    BY <2>1, <2>2, <2>3, <2>4 DEF Answered, Hooks, SameWords
  <2>5. CASE ~(h.kind = "upload" \/ (h.kind = "dictate" /\ h.sent.kind = "final"))
    <3>1. PICK part : part = Partial(m, text)
      OBVIOUS
    <3>2. m.committed \o text \in Seq(Words) /\ m.sent.to \in Nat
      BY DEF Hooks, Passes
    <3>3. part \in Hooks /\ SameWords(part, m)
      BY <3>1, <3>2 DEF Partial, NextSegment, Hooks, SameWords
    <3>4. PICK g \in Hooks : g = [part EXCEPT !.pendingFinal = FALSE]
      BY <3>3 DEF Hooks
    <3>5. SameWords(g, part)
      BY <3>3, <3>4 DEF Hooks, SameWords
    <3>6. Answered(h, job) = IF PendingFinal(h) THEN Finalize(g) ELSE part
      BY <2>1, <2>2, <2>5, <3>1, <3>4 DEF Answered
    <3> QED
      BY <1>1, <2>3, <3>3, <3>4, <3>5, <3>6 DEF SameWords
  <2> QED
    BY <2>4, <2>5
<1> QED
  BY <1>1, <1>2, <1>3, <1>4, <1>5

\* One hook changes and keeps its words.
LEMMA OneHookKeepsWords ==
    ASSUME Types, NEW p \in Panels, NEW g, hook' = [hook EXCEPT ![p] = g],
           g.start \in {hook[p].start, 0}, g.edited \in {hook[p].edited, hook[p].start, 0}
    PROVE  WordsKeep
BY DEF Types, WordsKeep

LEMMA ResetKeepsWords ==
    ASSUME Types, NEW p \in Panels, NEW e \in {hook[p].edited, 0},
           hook' = [hook EXCEPT ![p] = ResetHook(@, e)]
    PROVE  WordsKeep
<1>1. PICK g : g = ResetHook(hook[p], e)
  OBVIOUS
<1>2. g.start = 0 /\ g.edited = e
  BY <1>1 DEF ResetHook, Fresh
<1> QED
  BY <1>1, <1>2, OneHookKeepsWords

LEMMA ResetStartsStay ==
    ASSUME Types, NEW p, starts' = ResetStarts(p)
    PROVE  StartsStay
BY DEF Types, StartStates, ResetStarts, StartsStay

\* A start that begins brings its panel with it.
LEMMA BeginKeepsEdits ==
    ASSUME VoiceInv, EditsFit, NEW s \in Starts, NEW p \in Panels, Begin(s, p),
           starts[s].panel \in {0, p}
    PROVE  EditsFit'
<1>1. PICK g : g = BegunHook(hook[p], s)
  OBVIOUS
<1>2. hook[p] \in Hooks /\ hook' = [hook EXCEPT ![p] = g]
  BY <1>1 DEF VoiceInv, Types, Begin, BegunHook
<1>3. g.start = s /\ g.edited = hook[p].edited
  BY <1>1, <1>2 DEF Hooks, BegunHook
<1>4. \A q \in Panels : hook'[q] = IF q = p THEN g ELSE hook[q]
  BY <1>2 DEF VoiceInv, Types
<1>5. /\ starts'[s].panel = p /\ starts'[s].pc # "none"
      /\ \A r \in Starts : r # s =>
           starts'[r].panel = starts[r].panel /\ starts'[r].pc = starts[r].pc
  BY DEF VoiceInv, Types, StartStates, Begin, ResetStarts
<1>6. \A q \in Panels : hook[q].start \in Owners /\ hook[q].edited \in Owners /\ q # 0
  BY VoiceAssumption DEF VoiceInv, Types, Hooks
<1> QED
  BY <1>3, <1>4, <1>5, <1>6 DEF EditsFit, Owners

\* The first press of Record, before the model is there.
LEMMA NewStartKeepsEdits ==
    ASSUME VoiceInv, EditsFit, NEW s \in Starts, NextStart(s), UNCHANGED hook,
           NEW q, q.pc # "none", starts' = [starts EXCEPT ![s] = q]
    PROVE  EditsFit'
<1>1. \A r \in Starts : starts'[r] = IF r = s THEN q ELSE starts[r]
  BY DEF VoiceInv, Types
<1>2. \A p \in Panels : hook[p].start \in Owners /\ hook[p].edited \in Owners /\ p # 0
  BY VoiceAssumption DEF VoiceInv, Types, Hooks
<1>3. starts[s].panel = 0
  BY DEF NextStart, EditsFit
<1> QED
  BY <1>1, <1>2, <1>3 DEF EditsFit, Owners

LEMMA ChooseFileKeepsEdits ==
    ASSUME VoiceInv, EditsFit, NEW s \in Starts, ChooseFile(s)
    PROVE  EditsFit'
<1>1. /\ mounted \in Panels /\ hook[mounted] \in Hooks /\ starts[s].panel = 0
      /\ starts[s].pc = "none"
  BY DEF VoiceInv, Types, ChooseFile, NextStart, EditsFit
<1>2. PICK g : g = [hook[mounted] EXCEPT !.status = "decoding", !.start = s,
                                         !.transcript = <<>>, !.own = TRUE]
  OBVIOUS
<1>3. g.start = s /\ g.edited = hook[mounted].edited
  BY <1>1, <1>2 DEF Hooks
<1>4. \A q \in Panels : hook'[q] = IF q = mounted THEN g ELSE hook[q]
  BY <1>1, <1>2 DEF VoiceInv, Types, ChooseFile
<1>5. /\ starts'[s].panel = mounted /\ starts'[s].pc # "none"
      /\ \A r \in Starts : r # s =>
           starts'[r].panel = starts[r].panel /\ starts'[r].pc = starts[r].pc
  BY DEF VoiceInv, Types, StartStates, ChooseFile, ResetStarts
<1>6. \A q \in Panels : hook[q].start \in Owners /\ hook[q].edited \in Owners /\ q # 0
  BY VoiceAssumption DEF VoiceInv, Types, Hooks
<1> QED
  BY <1>1, <1>3, <1>4, <1>5, <1>6 DEF EditsFit, Owners

LEMMA EditsStep == VoiceInv /\ EditsFit /\ [Next]_vars => EditsFit'
<1> SUFFICES ASSUME VoiceInv, EditsFit, [Next]_vars PROVE EditsFit'
  OBVIOUS
<1>1. Types /\ \A p \in Panels : hook[p] \in Hooks
  BY DEF VoiceInv, Types
<1>2. UNCHANGED hook => WordsKeep
  BY DEF WordsKeep
<1>3. UNCHANGED starts => StartsStay
  BY DEF StartsStay
<1>4. ASSUME NEW s \in Starts, starts[s].pc # "none",
             \/ starts' = [starts EXCEPT ![s] = Done(@)]
             \/ starts' = [starts EXCEPT ![s].pc = "adding"]
      PROVE  StartsStay
  <2>1. starts \in [Starts -> StartStates] /\ starts[s] \in StartStates
    BY <1>1 DEF Types
  <2>2. PICK q : /\ starts' = [starts EXCEPT ![s] = q]
                 /\ q = Done(starts[s]) \/ q = [starts[s] EXCEPT !.pc = "adding"]
    BY <1>4
  <2>3. q.panel = starts[s].panel /\ q.pc # "none"
    BY <2>1, <2>2 DEF Done, StartStates
  <2>4. \A r \in Starts : starts'[r] = IF r = s THEN q ELSE starts[r]
    BY <2>1, <2>2
  <2> QED
    BY <1>4, <2>3, <2>4 DEF StartsStay
<1>5. mounted # 0 => mounted \in Panels
  BY <1>1 DEF Types
<1>6. ASSUME NEW p \in Panels, NEW kind \in {"dictate", "upload"}, Open(p, kind)
      PROVE  WordsKeep /\ UNCHANGED starts
  <2>1. Fresh(kind).start = 0 /\ Fresh(kind).edited = 0
    BY DEF Fresh
  <2> QED
    BY <1>1, <1>6, <2>1, OneHookKeepsWords DEF Open
<1>7. CASE BackgroundWarmUp \/ Unlock
  BY <1>1, <1>2, <1>3, <1>7, WordsKeepEdits DEF BackgroundWarmUp, Unlock
<1>8. CASE Unmount
  <2>1. PICK g : /\ hook' = [hook EXCEPT ![mounted] = g]
                 /\ g \in {TeardownCapture(hook[mounted]), Fresh(hook[mounted].kind)}
    BY <1>8 DEF Unmount
  <2>2. /\ g.start \in {hook[mounted].start, 0}
        /\ g.edited \in {hook[mounted].edited, hook[mounted].start, 0}
    <3>1. CASE g = TeardownCapture(hook[mounted])
      <4>1. PICK h \in Hooks : h = hook[mounted]
        BY <1>1, <1>5, <1>8 DEF Unmount
      <4> QED
        BY <3>1, <4>1 DEF TeardownCapture, Hooks
    <3>2. CASE g = Fresh(hook[mounted].kind)
      BY <3>2 DEF Fresh
    <3> QED
      BY <2>1, <3>1, <3>2
  <2> QED
    BY <1>1, <1>3, <1>5, <1>8, <2>1, <2>2, OneHookKeepsWords, WordsKeepEdits DEF Unmount
<1>9. CASE Close \/ ResetUpload \/ Lock
  <2>1. \/ UNCHANGED <<hook, starts>>
        \/ /\ mounted \in Panels /\ starts' = ResetStarts(mounted)
           /\ \E e \in {hook[mounted].edited, 0} :
                 hook' = [hook EXCEPT ![mounted] = ResetHook(@, e)]
    BY <1>5, <1>9 DEF Close, ResetUpload, Lock
  <2> QED
    BY <1>1, <1>2, <1>3, <2>1, ResetKeepsWords, ResetStartsStay, WordsKeepEdits
<1>10. CASE EditReview
  <2>1. PICK g : g = [hook[mounted] EXCEPT !.edited = hook[mounted].start]
    OBVIOUS
  <2>2. mounted \in Panels /\ hook' = [hook EXCEPT ![mounted] = g] /\ UNCHANGED starts
    BY <1>5, <1>10, <2>1 DEF EditReview
  <2>3. g.start = hook[mounted].start /\ g.edited = hook[mounted].start
    BY <1>1, <2>1, <2>2 DEF Hooks
  <2> QED
    BY <1>1, <1>3, <2>2, <2>3, OneHookKeepsWords, WordsKeepEdits
<1>11. ASSUME NEW s \in Starts, Record(s) PROVE EditsFit'
  <2>1. mounted \in Panels /\ NextStart(s) /\ starts[s].panel = 0
    BY <1>5, <1>11 DEF Record, NextStart, EditsFit
  <2>2. CASE Begin(s, mounted)
    BY <2>1, <2>2, BeginKeepsEdits
  <2>3. CASE ~Begin(s, mounted)
    <3>1. PICK q : q = [pc |-> "preparing", panel |-> mounted, current |-> FALSE]
      OBVIOUS
    <3>2. UNCHANGED hook /\ starts' = [starts EXCEPT ![s] = q] /\ q.pc # "none"
      BY <1>11, <2>3, <3>1 DEF Record
    <3> QED
      BY <2>1, <3>2, NewStartKeepsEdits
  <2> QED
    BY <2>2, <2>3
<1>12. ASSUME NEW s \in Starts, BeginPrepared(s) PROVE EditsFit'
  <2>1. starts[s].panel \in Panels
    BY <1>12, PanelOfStart DEF BeginPrepared
  <2> QED
    BY <1>12, <2>1, BeginKeepsEdits DEF BeginPrepared
<1>13. ASSUME NEW s \in Starts, ChooseFile(s) PROVE EditsFit'
  BY <1>13, ChooseFileKeepsEdits
<1>14. ASSUME NEW s \in Starts,
              \/ PrepareTimesOut(s) \/ MicGranted(s) \/ CaptureFails(s) \/ ModuleAdded(s)
              \/ Decoded(s) \/ DecodeFails(s)
       PROVE  EditsFit'
  <2>1. starts[s].pc # "none"
    BY <1>14 DEF PrepareTimesOut, MicGranted, CaptureFails, ModuleAdded, Decoded, DecodeFails
  <2>2. PICK p \in Panels : p = starts[s].panel
    BY <2>1, PanelOfStart
  <2>3. StartsStay
    BY <1>4, <1>14, <2>1 DEF PrepareTimesOut, MicGranted, CaptureFails, ModuleAdded, Decoded,
       DecodeFails
  <2>4. UNCHANGED hook \/ \E g : hook' = [hook EXCEPT ![p] = g] /\ SameWords(g, hook[p])
    <3>1. CASE PrepareTimesOut(s) \/ MicGranted(s)
      BY <1>1, <2>2, <3>1 DEF PrepareTimesOut, MicGranted, SameWords, Hooks
    <3>2. CASE (CaptureFails(s) \/ ModuleAdded(s) \/ Decoded(s) \/ DecodeFails(s))
               /\ ~(UNCHANGED hook)
      <4>1. PICK h \in Hooks : h = hook[p]
        BY <1>1
      <4>2. PICK g : /\ hook' = [hook EXCEPT ![p] = g]
                     /\ \/ g = [TeardownCapture(h) EXCEPT !.status = "error"]
                        \/ g = [h EXCEPT !.ticking = TRUE, !.status = "recording"]
                        \/ g = TeardownCapture(h)
                        \/ g = [h EXCEPT !.processing = TRUE, !.status = "transcribing",
                                         !.chunks = 1, !.sent = Pass("file", s, 0, 1)]
                        \/ g = [h EXCEPT !.processing = FALSE, !.status = "error"]
        BY <1>1, <2>2, <3>2, <4>1 DEF CaptureFails, ModuleAdded, Decoded, DecodeFails, Types
      <4>3. SameWords(g, h)
        BY <4>1, <4>2 DEF SameWords, TeardownCapture, Hooks
      <4> QED
        BY <4>1, <4>2, <4>3
    <3> QED
      BY <1>14, <3>1, <3>2
  <2> QED
    BY <1>1, <1>2, <2>3, <2>4, OneHookKeepsWords, WordsKeepEdits DEF SameWords
<1>15. ASSUME NEW p \in Panels, Chunk(p) \/ Tick(p) PROVE EditsFit'
  <2>1. \E g : hook' = [hook EXCEPT ![p] = g] /\ SameWords(g, hook[p])
    <3>1. CASE Chunk(p)
      BY <1>1, <3>1 DEF Chunk, SameWords, Hooks
    <3>2. CASE Tick(p)
      <4>1. PICK h \in Hooks : h = hook[p]
        BY <1>1
      <4>2. PICK job, commit, g :
              /\ hook' = [hook EXCEPT ![p] = g]
              /\ g = [h EXCEPT !.processing = TRUE, !.sent = job, !.sentCommit = commit]
        BY <1>1, <3>2, <4>1 DEF Tick, Types
      <4>3. SameWords(g, h)
        BY <4>1, <4>2 DEF SameWords, Hooks
      <4> QED
        BY <4>1, <4>2, <4>3
    <3> QED
      BY <1>15, <3>1, <3>2
  <2>2. UNCHANGED starts
    BY <1>15 DEF Chunk, Tick
  <2> QED
    BY <1>1, <1>3, <2>1, <2>2, OneHookKeepsWords, WordsKeepEdits DEF SameWords
<1>16. CASE StopRecording
  <2>1. PICK g : /\ g = Finalize([TeardownCapture(hook[mounted]) EXCEPT !.status = "processing"])
                 /\ hook' = [hook EXCEPT ![mounted] = g]
    BY <1>16 DEF StopRecording
  <2>2. mounted \in Panels /\ UNCHANGED starts
    BY <1>5, <1>16 DEF StopRecording
  <2> QED
    BY <1>1, <1>3, <2>1, <2>2, HelpersKeepWords, OneHookKeepsWords, WordsKeepEdits DEF SameWords
<1>17. ASSUME NEW i \in 1..Len(worker.jobs), Ready(i) \/ Result(i) \/ Error(i)
       PROVE  EditsFit'
  <2>1. StartsStay
    <3>1. ASSUME NEW s \in Starts
          PROVE  /\ starts'[s].panel = starts[s].panel
                 /\ starts'[s].pc = "none" => starts[s].pc = "none"
      <4>1. starts[s] \in StartStates
        BY <1>1 DEF Types
      <4> QED
        BY <1>17, <4>1 DEF Ready, Result, Error, Done, StartStates
    <3> QED
      BY <3>1 DEF StartsStay
  <2>2. CASE Ready(i)
    BY <1>1, <1>2, <2>1, <2>2, WordsKeepEdits DEF Ready
  <2>3. CASE Result(i)
    <3>1. worker.jobs[i] \in Passes
      BY <1>1 DEF Types, Workers
    <3>2. UNCHANGED hook \/
          (mounted \in Panels /\ hook' = [hook EXCEPT ![mounted] = Answered(@, worker.jobs[i])])
      BY <1>5, <2>3 DEF Result
    <3>3. mounted \in Panels => SameWords(Answered(hook[mounted], worker.jobs[i]), hook[mounted])
      BY <1>1, <3>1, HelpersKeepWords
    <3> QED
      BY <1>1, <1>2, <2>1, <3>2, <3>3, OneHookKeepsWords, WordsKeepEdits DEF SameWords
  <2>4. CASE Error(i)
    <3>1. ASSUME NEW p \in Panels PROVE SameWords(hook'[p], hook[p])
      <4>1. PICK h : h = IF p = mounted /\ hook[p].processing THEN Failed(hook[p]) ELSE hook[p]
        OBVIOUS
      <4>2. h \in Hooks /\ SameWords(h, hook[p])
        <5>1. PICK k \in Hooks : k = hook[p]
          BY <1>1
        <5>2. PICK f : f = Failed(k)
          OBVIOUS
        <5>3. f \in Hooks /\ SameWords(f, k)
          BY <5>1, <5>2 DEF Failed, Hooks, Statuses, SameWords
        <5> QED
          BY <4>1, <5>1, <5>2, <5>3 DEF SameWords
      <4>3. hook'[p] = IF Preparing(p) THEN [h EXCEPT !.loadError = TRUE] ELSE h
        BY <2>4, <4>1 DEF Error
      <4> QED
        BY <4>2, <4>3 DEF Hooks, SameWords
    <3>2. WordsKeep
      BY <3>1 DEF WordsKeep, SameWords
    <3> QED
      BY <1>1, <2>1, <3>2, WordsKeepEdits
  <2> QED
    BY <1>17, <2>2, <2>3, <2>4
<1>18. CASE UNCHANGED vars
  BY <1>1, <1>2, <1>3, <1>18, WordsKeepEdits DEF vars
<1> QED
  BY <1>1, <1>3, <1>6, <1>7, <1>8, <1>9, <1>10, <1>11, <1>12, <1>13, <1>14, <1>15, <1>16, <1>17,
     <1>18, WordsKeepEdits DEF Next

\* Of a dictation that took no answer of an older pass the transcript is a beginning of the
\* recording, and the whole of it when there is a text to review, however long the recording
\* and wherever the interval cut it into segments; and either panel shows its transcript, or
\* words the user typed over a text of this same panel.
THEOREM TranscriptsAreTheRecording == Spec => []TranscriptIsTheRecording
<1>1. Init => EditsFit
  BY DEF Init, NoStart, Fresh, EditsFit
<1>2. Spec => []EditsFit
  BY <1>1, EditsStep, VoiceInvHolds, PTL DEF Spec
<1>3. VoiceInv /\ EditsFit => TranscriptIsTheRecording
  <2> SUFFICES ASSUME VoiceInv, EditsFit, NEW p \in Panels
               PROVE  LET h == hook[p] IN
                      /\ h.kind = "dictate" /\ h.own =>
                           /\ \E n \in 0..h.chunks : h.transcript = Text(h.start, 0, n)
                           /\ h.status = "ready" => h.transcript = Text(h.start, 0, h.chunks)
                      /\ \/ Shown(h) = h.transcript
                         \/ \E s \in Starts : starts[s].panel = p /\ Shown(h) = Edit(s)
    BY DEF TranscriptIsTheRecording
  <2>1. hook[p].kind = "dictate" /\ hook[p].own => TextFits(hook[p])
    BY DEF VoiceInv, HookFits
  <2>2. hook[p].edited \in Owners
    BY DEF VoiceInv, Types, Hooks
  <2>3. \/ Shown(hook[p]) = hook[p].transcript
        \/ \E s \in Starts : starts[s].panel = p /\ Shown(hook[p]) = Edit(s)
    BY <2>2 DEF Shown, EditsFit, Owners
  <2> QED
    BY <2>1, <2>3 DEF TextFits
<1> QED
  BY <1>2, <1>3, VoiceInvHolds, PTL

===========================================================================

---------------------------- MODULE VoicePanels ----------------------------
(***************************************************************************)
(* The two panels that turn speech into text on the device, dictation and  *)
(* audio upload, and the one speech worker they share                      *)
(* (features/voice/use-voice-transcription.ts,                             *)
(* use-audio-file-transcription.ts, voice-capture-panel.tsx,               *)
(* audio-upload-panel.tsx, transcription-worker-client.ts and              *)
(* transcription.worker.ts).                                               *)
(*                                                                         *)
(* A recording is a number of equal chunks of sound and a text is the      *)
(* sequence of the chunks it was made of, each with the start (a recording *)
(* or a chosen file) it belongs to.  The messages between page and worker  *)
(* carry no request: whoever has a pass in progress takes the next answer. *)
(* The worker's handler is asynchronous, so it may answer in any order.    *)
(***************************************************************************)
EXTENDS Naturals, Sequences

CONSTANTS
    Devices,      \* whether the device may be short of memory (isMemoryConstrainedDevice)
    Panels,       \* the panels mounted one after another
    MaxStarts,    \* bound on the recordings started and files chosen
    MaxChunks,    \* bound on the chunks of a recording
    CommitChunks, \* SEGMENT_COMMIT_SECONDS, in chunks
    MaxJobs       \* bound on the worker's queue, for the passes the interval asks for

ASSUME VoiceAssumption ==
    /\ Devices \subseteq BOOLEAN
    /\ Panels \subseteq Nat \ {0}
    /\ MaxStarts \in Nat /\ MaxChunks \in Nat /\ CommitChunks \in Nat /\ MaxJobs \in Nat

VARIABLES
    lowMemory,
    locked,     \* the vault
    mounted,    \* the panel on screen, 0 when there is none
    hook,       \* [Panels -> the refs and the state of the panel's hook]
    starts,     \* [1..MaxStarts -> one startRecording or transcribeFile]
    mics,       \* the starts whose microphone stream is live
    worker,     \* the module state of transcription-worker-client.ts, and the worker's queue
    escaped     \* history: starts that were under way when their panel went away, the vault
                \* locked before they began, or another start overtook them

vars == <<lowMemory, locked, mounted, hook, starts, mics, worker, escaped>>

Starts == 1..MaxStarts

Warmup == [kind |-> "warmup", start |-> 0, from |-> 0, to |-> 0]
Pass(kind, s, from, to) == [kind |-> kind, start |-> s, from |-> from, to |-> to]

\* What a pass over the chunks from+1..to of a start says.
Text(s, from, to) == [i \in 1..(to - from) |-> <<s, from + i>>]

\* The user's words, typed over the text of a start under review; chunks are numbered from 1.
Edit(s) == <<<<s, 0>>>>

\* draftOverride ?? transcript: what a panel shows, and what Insert puts into the note.
\* "edited" is the start that was under review when the user last edited the text, or 0.
Shown(h) == IF h.edited = 0 THEN h.transcript ELSE Edit(h.edited)

Fresh(kind) ==
    [kind |-> kind, status |-> "idle", loadError |-> FALSE, start |-> 0, chunks |-> 0,
     processing |-> FALSE, sent |-> Warmup, sentCommit |-> FALSE, pendingFinal |-> FALSE,
     committed |-> <<>>, segmentStart |-> 0, transcript |-> <<>>, held |-> 0, ticking |-> FALSE,
     own |-> TRUE, edited |-> 0]

Cold == [warmed |-> FALSE, ready |-> FALSE, jobs |-> <<>>]

\* A start is current while its generation is the one of its panel and something of it is left.
NoStart == [pc |-> "none", panel |-> 0, current |-> FALSE]
Done(start) == [start EXCEPT !.pc = "done", !.current = FALSE]

Init ==
    /\ lowMemory \in Devices
    /\ locked = FALSE
    /\ mounted = 0
    /\ hook = [p \in Panels |-> Fresh("none")]
    /\ starts = [s \in Starts |-> NoStart]
    /\ mics = {}
    /\ worker = Cold
    /\ escaped = {}

---------------------------------------------------------------------------
\* No promise of the page is resolved and not yet handled: a tab handles it before the next
\* event.
Settled == \A s \in Starts : starts[s].pc # "prepared"

\* The shared worker: postWarmup is idempotent; a user's own request loads the model on a small
\* device too, after the old worker is terminated with whatever it was working on.
WarmUpWorker(w, force) ==
    IF w.warmed \/ (lowMemory /\ ~force) THEN w
    ELSE [w EXCEPT !.warmed = TRUE, !.jobs = Append(@, Warmup)]

EnsureModelLoaded(force) ==
    WarmUpWorker(IF force /\ lowMemory THEN Cold ELSE worker, force)

\* On a small device a panel that goes away takes the worker with it.
WorkerOnUnmount == IF lowMemory THEN Cold ELSE worker

\* Closes the microphone and the audio graph the hook holds, and its interval.
TeardownCapture(h) == [h EXCEPT !.held = 0, !.ticking = FALSE]
MicsAfterTeardown(h) == mics \ {h.held}

\* reset, but for the generation, which makes every start of the panel obsolete.  The edited
\* text is the panel's, not the hook's.
ResetHook(h, edited) ==
    [Fresh(h.kind) EXCEPT !.loadError = h.loadError, !.edited = edited]

ResetStarts(p) ==
    [s \in Starts |-> IF starts[s].panel = p THEN [starts[s] EXCEPT !.current = FALSE] ELSE starts[s]]

\* transcribe(final): the pass over the whole recording, or the wish for it.
Finalize(h) ==
    IF h.processing THEN [h EXCEPT !.pendingFinal = TRUE]
    ELSE IF h.chunks = 0 THEN [h EXCEPT !.status = "ready"]
    ELSE [h EXCEPT !.processing = TRUE, !.sentCommit = FALSE,
                   !.sent = Pass("final", h.start, 0, h.chunks)]

FinalJobs(h) ==
    IF h.processing \/ h.chunks = 0 THEN <<>> ELSE <<Pass("final", h.start, 0, h.chunks)>>

---------------------------------------------------------------------------
\* The page opens one of the panels; dictation warms the model up on a device that can afford
\* it, and so does the hook of the upload panel.
Open(p, kind) ==
    /\ Settled
    /\ ~locked /\ mounted = 0
    /\ hook[p].kind = "none" /\ \A q \in Panels : q < p => hook[q].kind # "none"
    /\ mounted' = p
    /\ hook' = [hook EXCEPT ![p] = Fresh(kind)]
    /\ worker' = EnsureModelLoaded(FALSE)
    /\ UNCHANGED <<lowMemory, locked, starts, mics, escaped>>

\* VoiceWarmup, in idle time after an unlock.
BackgroundWarmUp ==
    /\ Settled
    /\ ~locked /\ ~lowMemory /\ ~worker.warmed
    /\ worker' = WarmUpWorker(worker, FALSE)
    /\ UNCHANGED <<lowMemory, locked, mounted, hook, starts, mics, escaped>>

Waiting(s) == starts[s].pc \in {"preparing", "prepared", "asking", "adding", "decoding"}

\* Presses of Record that no generation covers yet.
WaitingForModel(p) ==
    {s \in Starts : starts[s].panel = p /\ starts[s].pc \in {"preparing", "prepared"}}

\* The panel goes away: by navigation, by the page that gives way to the lock screen.
Unmount ==
    /\ Settled
    /\ mounted # 0
    /\ hook' = [hook EXCEPT ![mounted] =
                   IF \E s \in Starts : starts[s].panel = mounted /\ Waiting(s)
                   THEN TeardownCapture(@) ELSE Fresh(@.kind)]  \* nobody can reach it any more
    /\ mics' = MicsAfterTeardown(hook[mounted])
    /\ worker' = WorkerOnUnmount
    /\ escaped' = escaped \cup {s \in Starts : starts[s].panel = mounted /\ Waiting(s)}
    /\ mounted' = 0
    /\ UNCHANGED <<lowMemory, locked, starts>>

\* Insert (of what is shown) and Discard of either panel, and the close button of the upload
\* panel.
Close ==
    /\ Settled
    /\ mounted # 0 /\ ~locked
    /\ hook[mounted].kind = "dictate" => hook[mounted].status = "ready" /\ ~hook[mounted].loadError
    /\ hook' = [hook EXCEPT ![mounted] = ResetHook(@, 0)]
    /\ starts' = ResetStarts(mounted)
    /\ mics' = MicsAfterTeardown(hook[mounted])
    /\ worker' = WorkerOnUnmount
    /\ escaped' = escaped \cup WaitingForModel(mounted)
    /\ mounted' = 0
    /\ UNCHANGED <<lowMemory, locked>>

\* "Another file" and, after an error, "Try another file" of the upload panel: only the first
\* drops the edited text.
ResetUpload ==
    /\ Settled
    /\ mounted # 0 /\ ~locked
    /\ hook[mounted].kind = "upload" /\ hook[mounted].status \in {"ready", "error"}
    /\ hook' = [hook EXCEPT ![mounted] =
                   ResetHook(@, IF @.status = "ready" THEN 0 ELSE @.edited)]
    /\ starts' = ResetStarts(mounted)
    /\ UNCHANGED <<lowMemory, locked, mounted, mics, worker, escaped>>

\* The user edits the text under review.
EditReview ==
    /\ Settled
    /\ mounted # 0 /\ ~locked
    /\ hook[mounted].status = "ready" /\ ~hook[mounted].loadError
    /\ hook' = [hook EXCEPT ![mounted].edited = hook[mounted].start]
    /\ UNCHANGED <<lowMemory, locked, mounted, starts, mics, worker, escaped>>

\* useOnVaultLocked(reset).
Lock ==
    /\ Settled
    /\ ~locked
    /\ locked' = TRUE
    /\ IF mounted = 0 THEN UNCHANGED <<hook, starts, mics, escaped>>
       ELSE /\ hook' = [hook EXCEPT ![mounted] = ResetHook(@, @.edited)]
            /\ starts' = ResetStarts(mounted)
            /\ mics' = MicsAfterTeardown(hook[mounted])
            /\ escaped' = escaped \cup WaitingForModel(mounted)
    /\ UNCHANGED <<lowMemory, mounted, worker>>

Unlock ==
    /\ Settled
    /\ locked
    /\ locked' = FALSE
    /\ UNCHANGED <<lowMemory, mounted, hook, starts, mics, worker, escaped>>

---------------------------------------------------------------------------
NextStart(s) == starts[s].pc = "none" /\ \A r \in Starts : r < s => starts[r].pc # "none"

\* The head of startRecording, up to getUserMedia.
Begin(s, p) ==
    /\ hook' = [hook EXCEPT ![p] =
         [@ EXCEPT !.start = s, !.chunks = 0, !.processing = FALSE, !.sent = Warmup,
                   !.sentCommit = FALSE, !.pendingFinal = FALSE, !.committed = <<>>,
                   !.segmentStart = 0, !.transcript = <<>>, !.own = TRUE]]
    /\ starts' = [ResetStarts(p) EXCEPT ![s] = [pc |-> "asking", panel |-> p, current |-> TRUE]]
    /\ escaped' = escaped \cup {r \in Starts \ {s} : starts[r].panel = p /\ Waiting(r)}

Preparing(p) == \E s \in Starts : starts[s].panel = p /\ starts[s].pc = "preparing"

\* Record and Re-record, which keeps the edited text: at once when the model is ready, else
\* when it is.
Record(s) ==
    /\ Settled
    /\ mounted # 0 /\ ~locked /\ NextStart(s)
    /\ LET h == hook[mounted] IN
         /\ h.kind = "dictate" /\ ~h.loadError
         /\ \/ h.status = "ready"
            \/ h.status = "idle" /\ (worker.ready \/ (lowMemory /\ ~Preparing(mounted)))
    /\ IF worker.ready
       THEN Begin(s, mounted) /\ UNCHANGED worker
       ELSE /\ starts' = [starts EXCEPT ![s] = [pc |-> "preparing", panel |-> mounted, current |-> FALSE]]
            /\ worker' = EnsureModelLoaded(TRUE)
            /\ UNCHANGED <<hook, escaped>>
    /\ UNCHANGED <<lowMemory, locked, mounted, mics>>

\* The model became ready for a press of Record, wherever its panel is by now.
BeginPrepared(s) ==
    /\ starts[s].pc = "prepared"
    /\ Begin(s, starts[s].panel)
    /\ UNCHANGED <<lowMemory, locked, mounted, mics, worker>>

\* waitForVoiceModelReady gives up after ten minutes.
PrepareTimesOut(s) ==
    /\ Settled
    /\ starts[s].pc = "preparing"
    /\ starts' = [starts EXCEPT ![s] = Done(@)]
    /\ hook' = [hook EXCEPT ![starts[s].panel].loadError = TRUE]
    /\ UNCHANGED <<lowMemory, locked, mounted, mics, worker, escaped>>

\* MUTANT: the generation is not compared when the microphone is granted.
GoesAnyway(s) == starts[s].pc = "asking"

\* The user allows the microphone; an obsolete start stops the stream it was given.
Goes(s) == starts[s].current

MicGranted(s) ==
    /\ Settled
    /\ starts[s].pc = "asking"
    /\ IF Goes(s)
       THEN /\ mics' = mics \cup {s}
            /\ hook' = [hook EXCEPT ![starts[s].panel].held = s]
            /\ starts' = [starts EXCEPT ![s].pc = "adding"]
       ELSE /\ starts' = [starts EXCEPT ![s] = Done(@)]
            /\ UNCHANGED <<mics, hook>>
    /\ UNCHANGED <<lowMemory, locked, mounted, worker, escaped>>

\* The catch block of startRecording.
CaptureFails(s) ==
    /\ Settled
    /\ starts[s].pc \in {"asking", "adding"}
    /\ starts' = [starts EXCEPT ![s] = Done(@)]
    /\ LET p == starts[s].panel IN
         IF starts[s].current
         THEN /\ hook' = [hook EXCEPT ![p] = [TeardownCapture(@) EXCEPT !.status = "error"]]
              /\ mics' = MicsAfterTeardown(hook[p])
         ELSE UNCHANGED <<hook, mics>>
    /\ UNCHANGED <<lowMemory, locked, mounted, worker, escaped>>

\* The audio worklet is there: the recording runs.  An obsolete start closes what its panel
\* holds by now.
ModuleAdded(s) ==
    /\ Settled
    /\ starts[s].pc = "adding"
    /\ starts' = [starts EXCEPT ![s] = Done(@)]
    /\ LET p == starts[s].panel IN
         IF starts[s].current
         THEN /\ hook' = [hook EXCEPT ![p].ticking = TRUE, ![p].status = "recording"]
              /\ UNCHANGED mics
         ELSE /\ hook' = [hook EXCEPT ![p] = TeardownCapture(@)]
              /\ mics' = MicsAfterTeardown(hook[p])
    /\ UNCHANGED <<lowMemory, locked, mounted, worker, escaped>>

\* A chunk of sound from the microphone (captureNode.port.onmessage).
Chunk(p) ==
    /\ Settled
    /\ hook[p].ticking /\ hook[p].held # 0 /\ hook[p].chunks < MaxChunks
    /\ hook' = [hook EXCEPT ![p].chunks = @ + 1]
    /\ UNCHANGED <<lowMemory, locked, mounted, starts, mics, worker, escaped>>

\* The interval: a partial pass over the segment in progress, which commits a long one.
Tick(p) ==
    /\ Settled
    /\ hook[p].ticking /\ ~hook[p].processing
    /\ hook[p].chunks > hook[p].segmentStart
    /\ Len(worker.jobs) < MaxJobs
    /\ LET h == hook[p]
           job == Pass("partial", h.start, h.segmentStart, h.chunks)
       IN /\ hook' = [hook EXCEPT ![p].processing = TRUE, ![p].sent = job,
                                  ![p].sentCommit = (h.chunks - h.segmentStart >= CommitChunks)]
          /\ worker' = [worker EXCEPT !.jobs = Append(@, job)]
    /\ UNCHANGED <<lowMemory, locked, mounted, starts, mics, escaped>>

StopRecording ==
    /\ Settled
    /\ mounted # 0 /\ ~locked
    /\ hook[mounted].kind = "dictate" /\ hook[mounted].status = "recording"
    /\ ~hook[mounted].loadError
    /\ LET h == [TeardownCapture(hook[mounted]) EXCEPT !.status = "processing"] IN
         /\ hook' = [hook EXCEPT ![mounted] = Finalize(h)]
         /\ worker' = [worker EXCEPT !.jobs = @ \o FinalJobs(h)]
    /\ mics' = MicsAfterTeardown(hook[mounted])
    /\ UNCHANGED <<lowMemory, locked, mounted, starts, escaped>>

---------------------------------------------------------------------------
\* transcribeFile, up to the decoding.
ChooseFile(s) ==
    /\ Settled
    /\ mounted # 0 /\ ~locked /\ NextStart(s)
    /\ hook[mounted].kind = "upload" /\ hook[mounted].status = "idle"
    /\ hook' = [hook EXCEPT ![mounted].status = "decoding", ![mounted].start = s,
                            ![mounted].transcript = <<>>, ![mounted].own = TRUE]
    /\ starts' = [ResetStarts(mounted) EXCEPT
                    ![s] = [pc |-> "decoding", panel |-> mounted, current |-> TRUE]]
    /\ worker' = EnsureModelLoaded(TRUE)
    /\ UNCHANGED <<lowMemory, locked, mounted, mics, escaped>>

Decoded(s) ==
    /\ Settled
    /\ starts[s].pc = "decoding"
    /\ starts' = [starts EXCEPT ![s] = Done(@)]
    /\ LET job == Pass("file", s, 0, 1) IN
         IF starts[s].current
         THEN /\ hook' = [hook EXCEPT ![starts[s].panel] =
                            [@ EXCEPT !.processing = TRUE, !.status = "transcribing", !.chunks = 1,
                                      !.sent = job]]
              /\ worker' = [worker EXCEPT !.jobs = Append(@, job)]
         ELSE UNCHANGED <<hook, worker>>
    /\ UNCHANGED <<lowMemory, locked, mounted, mics, escaped>>

\* The file holds no sound, or cannot be decoded.
DecodeFails(s) ==
    /\ Settled
    /\ starts[s].pc = "decoding"
    /\ starts' = [starts EXCEPT ![s] = Done(@)]
    /\ IF starts[s].current
       THEN hook' = [hook EXCEPT ![starts[s].panel].processing = FALSE,
                                 ![starts[s].panel].status = "error"]
       ELSE UNCHANGED hook
    /\ UNCHANGED <<lowMemory, locked, mounted, mics, worker, escaped>>

---------------------------------------------------------------------------
\* What a subscriber that has a pass in progress makes of an answer, whosever it is.
Failed(h) == [h EXCEPT !.processing = FALSE, !.status = "error"]

\* MUTANT: the next segment begins at what is recorded by then.
NextSegmentFromNow(h) == h.chunks

\* Once the segment is committed the next one begins where the pass ended.
NextSegment(h) == h.sent.to

Partial(h, text) ==
    IF h.sentCommit
    THEN [h EXCEPT !.processing = FALSE, !.committed = @ \o text, !.segmentStart = NextSegment(h),
                   !.sentCommit = FALSE, !.transcript = h.committed \o text]
    ELSE [h EXCEPT !.processing = FALSE, !.transcript = h.committed \o text]

\* MUTANT: the wish for the final pass is forgotten.
PendingFinalForgotten(h) == FALSE

PendingFinal(h) == h.pendingFinal

Answered(h, job) ==
    LET text == Text(job.start, job.from, job.to)
        mine == [h EXCEPT !.own = @ /\ job = h.sent]
    IN CASE h.kind = "upload" ->
              [mine EXCEPT !.processing = FALSE, !.transcript = text, !.status = "ready"]
         [] h.kind = "dictate" /\ h.sent.kind = "final" ->
              [mine EXCEPT !.processing = FALSE, !.transcript = text, !.status = "ready",
                           !.committed = <<>>, !.segmentStart = 0]
         [] OTHER ->
              LET part == Partial(mine, text) IN
              IF PendingFinal(h) THEN Finalize([part EXCEPT !.pendingFinal = FALSE]) ELSE part

AnsweredJobs(h, job) ==
    IF h.kind = "dictate" /\ h.sent.kind = "partial" /\ PendingFinal(h)
    THEN FinalJobs(Partial(h, <<>>)) ELSE <<>>

Without(q, i) == SubSeq(q, 1, i - 1) \o SubSeq(q, i + 1, Len(q))

\* A warm-up ends or a pass is answered: every subscriber hears of it.
Ready(i) ==
    /\ Settled
    /\ worker.jobs[i] = Warmup
    /\ worker' = [worker EXCEPT !.jobs = Without(@, i), !.ready = TRUE]
    /\ starts' = [s \in Starts |-> IF starts[s].pc = "preparing"
                                   THEN [starts[s] EXCEPT !.pc = "prepared"] ELSE starts[s]]
    /\ UNCHANGED <<lowMemory, locked, mounted, hook, mics, escaped>>

Result(i) ==
    /\ Settled
    /\ worker.jobs[i] # Warmup
    /\ LET job == worker.jobs[i]
           takes == mounted # 0 /\ hook[mounted].processing
       IN /\ hook' = IF takes THEN [hook EXCEPT ![mounted] = Answered(@, job)] ELSE hook
          /\ worker' = [worker EXCEPT
               !.ready = TRUE,
               !.jobs = Without(@, i) \o (IF takes THEN AnsweredJobs(hook[mounted], job) ELSE <<>>)]
    /\ starts' = [s \in Starts |-> IF starts[s].pc = "preparing"
                                   THEN [starts[s] EXCEPT !.pc = "prepared"] ELSE starts[s]]
    /\ UNCHANGED <<lowMemory, locked, mounted, mics, escaped>>

Error(i) ==
    /\ Settled
    /\ worker' = [worker EXCEPT !.jobs = Without(@, i), !.warmed = FALSE]
    /\ hook' = [p \in Panels |->
         LET h == IF p = mounted /\ hook[p].processing THEN Failed(hook[p]) ELSE hook[p]
         IN IF Preparing(p) THEN [h EXCEPT !.loadError = TRUE] ELSE h]
    /\ starts' = [s \in Starts |-> IF starts[s].pc = "preparing"
                                   THEN Done(starts[s]) ELSE starts[s]]
    /\ UNCHANGED <<lowMemory, locked, mounted, mics, escaped>>

Answer(i) ==
    /\ i \in 1..Len(worker.jobs)
    /\ Ready(i) \/ Result(i) \/ Error(i)

---------------------------------------------------------------------------
PreparedStart == \E s \in Starts : BeginPrepared(s)

Next ==
    \/ \E p \in Panels, kind \in {"dictate", "upload"} : Open(p, kind)
    \/ BackgroundWarmUp
    \/ Unmount \/ Close \/ ResetUpload \/ EditReview \/ Lock \/ Unlock
    \/ \E s \in Starts :
         \/ Record(s) \/ BeginPrepared(s) \/ PrepareTimesOut(s)
         \/ MicGranted(s) \/ CaptureFails(s) \/ ModuleAdded(s)
         \/ ChooseFile(s) \/ Decoded(s) \/ DecodeFails(s)
    \/ \E p \in Panels : Chunk(p) \/ Tick(p)
    \/ StopRecording
    \/ \E i \in 1..Len(worker.jobs) : Ready(i) \/ Result(i) \/ Error(i)

\* The worker answers every message it is sent, the oldest one at last.
Fairness == WF_vars(PreparedStart) /\ WF_vars(Answer(1))

Spec == Init /\ [][Next]_vars /\ Fairness

---------------------------------------------------------------------------
\* Unless the answer to an older pass was taken for its own, the transcript of a dictation is a
\* beginning of the recording: no chunk is lost or said twice between the partial passes and
\* the segments they commit, and what is there to review is the whole recording
\* (use-voice-transcription.ts: "Final pass: the authoritative full-recording transcript").
\* Either panel shows, and inserts, its transcript or words the user typed over a text of this
\* same panel - an earlier one, if they recorded again since.
TranscriptIsTheRecording ==
    \A p \in Panels :
        LET h == hook[p] IN
        /\ h.kind = "dictate" /\ h.own =>
             /\ \E n \in 0..h.chunks : h.transcript = Text(h.start, 0, n)
             /\ h.status = "ready" => h.transcript = Text(h.start, 0, h.chunks)
        /\ \/ Shown(h) = h.transcript
           \/ \E s \in Starts : starts[s].panel = p /\ Shown(h) = Edit(s)

\* A microphone that is on is held by the panel on screen, of an open vault, which turns it off
\* when it stops, closes or locks - unless its start was under way when the panel went away,
\* waited for the model when the vault locked, or was overtaken by a second press of Record.
MicrophoneIsHeld ==
    \A s \in mics \ escaped :
        /\ ~locked
        /\ mounted = starts[s].panel
        /\ hook[mounted].held = s

\* "A late worker result must never restore a transcript after that boundary"
\* (use-voice-transcription.ts): what a panel shows belongs to its own latest start.
LateResultNeverRestores ==
    \A p \in Panels : hook[p].kind = "dictate" => \A i \in 1..Len(hook[p].transcript) :
        hook[p].transcript[i][1] = hook[p].start

\* Who stops a recording gets the text or an error: "Transcribing on device" does not stay for
\* ever, though a partial pass may be in progress when the recording stops.
StopSettles ==
    \A p \in Panels :
        (mounted = p /\ hook[p].status = "processing")
          ~> ~(mounted = p /\ hook[p].status = "processing")

===========================================================================

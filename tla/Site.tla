-------------------------------- MODULE Site --------------------------------
(***************************************************************************)
(* The two scripts of the site that keep state; they share none.           *)
(*                                                                         *)
(* docs/assets/x407-voice.js reads a text aloud, chunk by chunk, with the  *)
(* speech synthesis of the browser, or with audio that the worker          *)
(* (workers/x407-ai-proxy) gets from ElevenLabs; if that fails, the        *)
(* browser reads the rest.  Buttons, events of the engines, and answers of *)
(* the worker come in any order, and share the variables of the script.    *)
(* Data abstraction.  A text is a sequence of sentences; the last may lack *)
(* its full stop.  A chunk is a sequence of sentences.  Voices, rate,      *)
(* labels and the waveform are left out.                                   *)
(*                                                                         *)
(* docs/assets/x407-assistant.js with the same worker is a chat that asks  *)
(* a model through the worker, and answers from a local knowledge base     *)
(* when that fails.  The panel sends one question at a time; other scripts *)
(* may call findAnswer meanwhile, and all share the conversation and the   *)
(* flag aiAvailable.                                                       *)
(* Data abstraction.  Questions are numbers; an answer is named by its     *)
(* question, and by where it comes from.  What runs between two awaits is  *)
(* one step.                                                               *)
(***************************************************************************)
EXTENDS Integers, SequencesExt

-----------------------------------------------------------------------------
(* The voice *)

CONSTANTS
    Texts,       \* the texts: sequences of [id, size, ended]
    BrowserMax,  \* the size of a chunk for the browser (400),
    ElevenMax,   \* for ElevenLabs (4500),
    TtsMax,      \* and what the worker passes on of one (4800)
    MaxClicks    \* bound: clicks of the user

\* No sentence is longer than what the worker passes on.
SentenceRecords == [id : Nat, size : 0..TtsMax, ended : BOOLEAN]

ASSUME VoiceConstants ==
    /\ BrowserMax \in Nat /\ ElevenMax \in Nat /\ TtsMax \in Nat /\ MaxClicks \in Nat
    /\ ElevenMax <= TtsMax
    /\ Texts \subseteq Seq(SentenceRecords) \ {<<>>}
    /\ \A t \in Texts : \A i \in 1..(Len(t) - 1) : t[i].ended

VARIABLES
    voice,    \* the variables of the script, the synthesis and the audio elements
    reading,  \* history: the last text, what was heard of it, and whether it was left alone
    clicks    \* bound
voiceVars == <<voice, reading, clicks>>

NoAudio == [at |-> "none", chunk |-> <<>>]
VoiceInit ==
    /\ \E e \in {"browser", "elevenlabs"} :     \* the stored preference
          voice = [engine |-> e, queue |-> <<>>, index |-> 1, paused |-> FALSE,
                   speaking |-> FALSE,
                   audio |-> NoAudio,           \* audioElement
                   lost |-> <<>>,               \* elements that play on, without a name
                   fetches |-> <<>>,            \* chunks that the worker was asked for
                   synth |-> <<>>, held |-> FALSE,  \* its queue; synth.paused
                   errors |-> 0]                \* error events that are due
    /\ reading = [text |-> <<>>, heard |-> <<>>, alone |-> FALSE, failed |-> FALSE]
    /\ clicks = 0

-----------------------------------------------------------------------------
(* Chunks *)

ChunkSize(chunk) == MapThenSumSet(LAMBDA i : chunk[i].size, DOMAIN chunk)

\* text.match(/[^.!?]+[.!?]+/g) || [text]: what follows the last full stop is lost.
Sentences(text) == IF Len(text) > 1 /\ ~Last(text).ended THEN Front(text) ELSE text

Push(chunks, chunk) == IF chunk = <<>> THEN chunks ELSE Append(chunks, chunk)

\* The loop over the sentences.
AddSentence(acc, s, max) ==
    IF ChunkSize(Append(acc.chunk, s)) > max
    THEN [chunks |-> Push(acc.chunks, acc.chunk), chunk |-> <<s>>]
    ELSE [acc EXCEPT !.chunk = Append(@, s)]

Chunked(text, max) ==
    LET s == Sentences(text)
        after[n \in 0..Len(s)] ==
            IF n = 0 THEN [chunks |-> <<>>, chunk |-> <<>>]
                     ELSE AddSentence(after[n - 1], s[n], max)
    IN  after[Len(s)]

\* Mutant of Chunks: the last chunk is not pushed after the loop.
ChunksUnflushed(text, max) == Chunked(text, max).chunks
Chunks(text, max) == LET acc == Chunked(text, max) IN Push(acc.chunks, acc.chunk)

ElevenChunks(text) == IF ChunkSize(text) <= ElevenMax THEN <<text>> ELSE Chunks(text, ElevenMax)

-----------------------------------------------------------------------------
(* The functions of the script *)

Cancel(v) == [v EXCEPT !.synth = <<>>, !.errors = @ + Len(v.synth)]

\* src = '' is an error of the element, ended or not.
StopAudio(v) ==
    IF v.audio = NoAudio THEN v ELSE [v EXCEPT !.audio = NoAudio, !.errors = @ + 1]

SpeakNextBrowser(v) ==
    IF v.index > Len(v.queue) THEN [v EXCEPT !.speaking = FALSE]
                              ELSE [v EXCEPT !.synth = Append(@, v.queue[v.index])]

SpeakBrowser(v, text) ==
    SpeakNextBrowser([Cancel(v) EXCEPT !.queue = Chunks(text, BrowserMax), !.index = 1,
                                       !.speaking = TRUE, !.paused = FALSE])

SpeakNextElevenLabs(v) ==
    IF v.index > Len(v.queue) THEN [v EXCEPT !.speaking = FALSE]
                              ELSE [v EXCEPT !.fetches = Append(@, v.queue[v.index])]

SpeakElevenLabs(v, text) ==
    SpeakNextElevenLabs([StopAudio(v) EXCEPT !.queue = ElevenChunks(text), !.index = 1,
                                             !.speaking = TRUE, !.paused = FALSE])

Stop(v) ==
    [StopAudio(Cancel(v)) EXCEPT !.queue = <<>>, !.index = 1, !.paused = FALSE,
                                 !.speaking = FALSE]

SpeakText(v, text) ==
    IF v.engine = "elevenlabs" THEN SpeakElevenLabs(Stop(v), text)
                               ELSE SpeakBrowser(Stop(v), text)

Pause(v) ==
    IF v.engine = "elevenlabs" /\ v.audio # NoAudio
    THEN [v EXCEPT !.paused = TRUE,
                   !.audio.at = IF @ = "playing" THEN "paused" ELSE @]
    ELSE IF v.synth # <<>> /\ ~v.held THEN [v EXCEPT !.held = TRUE, !.paused = TRUE]
    ELSE v

\* An element that has ended begins again.
Resume(v) ==
    IF v.engine = "elevenlabs" /\ v.audio # NoAudio /\ v.paused
    THEN [v EXCEPT !.paused = FALSE, !.audio.at = "playing"]
    ELSE IF v.held THEN [v EXCEPT !.held = FALSE, !.paused = FALSE]
    ELSE v

SkipTo(v, index) ==
    IF v.engine = "elevenlabs"
    THEN SpeakNextElevenLabs([StopAudio(v) EXCEPT !.index = index])
    ELSE SpeakNextBrowser([Cancel(v) EXCEPT !.index = index])

-----------------------------------------------------------------------------
(* The user *)

Quiet(v) ==
    v.synth = <<>> /\ v.fetches = <<>> /\ v.lost = <<>> /\ v.audio = NoAudio /\ v.errors = 0

Click == clicks < MaxClicks /\ clicks' = clicks + 1
Disturb == reading' = [reading EXCEPT !.alone = FALSE]

\* The play button, a section, or a reply of the assistant.
ClickSpeak(text) ==
    /\ Click
    /\ voice' = SpeakText(voice, text)
    /\ reading' = [text |-> text, heard |-> <<>>, alone |-> Quiet(voice), failed |-> FALSE]
ClickStop ==
    /\ Click /\ Disturb
    /\ voice' = Stop(voice)
ClickEngine ==
    /\ Click /\ Disturb
    /\ \E e \in {"browser", "elevenlabs"} : voice' = [Stop(voice) EXCEPT !.engine = e]
ClickSkip ==
    /\ Click /\ Disturb
    /\ \/ voice.index > 1 /\ voice' = SkipTo(voice, voice.index - 1)
       \/ voice.index < Len(voice.queue) /\ voice' = SkipTo(voice, voice.index + 1)
ClickPause ==
    /\ Click
    /\ voice' = Pause(voice)
    /\ UNCHANGED reading

\* Between two chunks the finished one is heard again, and a second chain begins.
ClickResume ==
    /\ Click
    /\ voice' = Resume(voice)
    /\ IF voice.audio.at = "ended" THEN Disturb ELSE UNCHANGED reading

-----------------------------------------------------------------------------
(* Events *)

Heard(chunk) == reading' = [reading EXCEPT !.heard = @ \o chunk]
Failed == reading' = [reading EXCEPT !.failed = TRUE]

UtteranceEnds ==
    /\ voice.synth # <<>> /\ ~voice.held
    /\ Heard(Head(voice.synth))
    /\ voice' = SpeakNextBrowser([voice EXCEPT !.synth = Tail(@), !.index = @ + 1])
UtteranceFails ==
    /\ voice.synth # <<>> /\ Failed
    /\ voice' = [voice EXCEPT !.synth = Tail(@), !.speaking = FALSE]

\* An utterance that was cancelled, an element that lost its source.
ErrorEvent ==
    /\ voice.errors > 0
    /\ voice' = [voice EXCEPT !.errors = @ - 1, !.speaking = FALSE]
    /\ UNCHANGED reading

\* handleTTS: the audio of as much of the text as it passes on.
Audio(chunk) == IF ChunkSize(chunk) <= TtsMax THEN chunk ELSE <<>>

TtsAnswers(i) ==
    /\ voice' = [voice EXCEPT
                    !.fetches = RemoveAt(@, i),
                    !.audio = [at |-> "playing", chunk |-> Audio(voice.fetches[i])],
                    !.lost = IF voice.audio.at = "playing"
                             THEN Append(@, voice.audio.chunk) ELSE @]
    /\ UNCHANGED reading

\* The worker, ElevenLabs, or play() fails: the browser reads on from the index.
TtsFails(i) ==
    LET rest == FlattenSeq(SubSeq(voice.queue, voice.index, Len(voice.queue))) IN
    /\ voice' = SpeakBrowser([voice EXCEPT !.fetches = RemoveAt(@, i),
                                           !.engine = "browser"], rest)
    /\ UNCHANGED reading

AudioEnds ==
    /\ voice.audio.at = "playing"
    /\ Heard(voice.audio.chunk)
    /\ voice' = SpeakNextElevenLabs([voice EXCEPT !.audio.at = "ended", !.index = @ + 1])
LostAudioEnds ==
    /\ voice.lost # <<>>
    /\ Heard(Head(voice.lost))
    /\ voice' = SpeakNextElevenLabs([voice EXCEPT !.lost = Tail(@), !.index = @ + 1])
AudioFails ==
    /\ voice.audio.at = "playing" /\ Failed
    /\ voice' = [voice EXCEPT !.audio.at = "ended", !.speaking = FALSE]

VoiceNext ==
    \/ \E t \in Texts : ClickSpeak(t)
    \/ ClickStop \/ ClickEngine \/ ClickSkip \/ ClickPause \/ ClickResume
    \/ /\ \/ UtteranceEnds \/ UtteranceFails \/ ErrorEvent
          \/ AudioEnds \/ LostAudioEnds \/ AudioFails
          \/ \E i \in DOMAIN voice.fetches : TtsAnswers(i) \/ TtsFails(i)
       /\ UNCHANGED clicks

-----------------------------------------------------------------------------
(* Properties *)

\* A text that is read from silence, and then left alone but for pauses, is heard
\* sentence by sentence in its order, across the chunks of both engines and the change
\* from one to the other; while the page does not speak any more, it was heard up to its
\* last full stop, or a chunk failed (x407-voice.js:136-331).
ReadingInOrder ==
    reading.alone =>
        /\ IsPrefix(reading.heard, reading.text)
        /\ voice.speaking \/ reading.failed \/ IsPrefix(Sentences(reading.text), reading.heard)

-----------------------------------------------------------------------------
(* The assistant *)

CONSTANTS
    Asks,          \* bound: calls of findAnswer at one time
    MaxQuestions,  \* bound: questions
    ClientTurns,   \* MAX_HISTORY (12): entries of the conversation that the page sends
    WorkerTurns    \* entries that the worker passes on (10)
ASSUME AssistantConstants ==
    /\ MaxQuestions \in Nat /\ ClientTurns \in Nat /\ WorkerTurns \in Nat
    /\ ClientTurns % 2 = 0 /\ WorkerTurns % 2 = 0     \* 12 and 10: whole turns

VARIABLES
    chat,    \* the variables of the script, and the messages of the panel
    asking   \* slot -> a call of findAnswer that waits for the worker
assistantVars == <<chat, asking>>

NoAsk == [at |-> "idle"]
AssistantInit ==
    /\ chat = [history |-> <<>>, available |-> FALSE, sending |-> FALSE, shown |-> <<>>,
               due |-> {"health", "welcome"}, questions |-> 0]
    /\ asking = [a \in Asks |-> NoAsk]

Entry(role, q) == [role |-> role, question |-> q]
Newest(s, n) == IF Len(s) <= n THEN s ELSE SubSeq(s, Len(s) - n + 1, Len(s))

-----------------------------------------------------------------------------
(* The worker *)

\* handleChat: the messages after the system prompt.
Messages(history, q) == Append(Newest(history, WorkerTurns), Entry("user", q))

\* Mutant of Reply: what the model returned, be it empty.
ReplyAsIs(content) == content
Reply(content) == IF content = "empty" THEN "no response" ELSE content

-----------------------------------------------------------------------------
(* The page *)

\* findAnswer, up to the answer of the worker.
Ask(a, q, panel) ==
    asking' = [asking EXCEPT ![a] =
        [at |-> "wait", question |-> q, panel |-> panel,
         messages |-> Messages(Newest(chat.history, ClientTurns), q)]]

SendMessage(a) ==
    /\ asking[a] = NoAsk /\ ~chat.sending /\ chat.questions < MaxQuestions
    /\ LET q == chat.questions + 1 IN
       /\ chat' = [chat EXCEPT !.questions = q, !.sending = TRUE,
                               !.shown = Append(@, [from |-> "user", question |-> q])]
       /\ Ask(a, q, TRUE)

CallFindAnswer(a) ==
    /\ asking[a] = NoAsk /\ chat.questions < MaxQuestions
    /\ LET q == chat.questions + 1 IN
       /\ chat' = [chat EXCEPT !.questions = q]
       /\ Ask(a, q, FALSE)

\* addMessage: the badge is what aiAvailable says by now.
Bot(c, q, source) ==
    [from |-> "bot", question |-> q, source |-> source,
     badge |-> IF c.available THEN "model" ELSE "knowledge base"]

\* sendMessage goes on, if it was the caller.
Answered(c, ask, source) ==
    IF ask.panel
    THEN [c EXCEPT !.shown = Append(@, Bot(c, ask.question, source)), !.sending = FALSE]
    ELSE c

Remember(c, q) == [c EXCEPT !.history = @ \o <<Entry("user", q), Entry("assistant", q)>>]

\* An empty reply is no reply, though the worker is there.
AskSucceeds(a) ==
    /\ asking[a] # NoAsk
    /\ \E content \in {"text", "empty"} :
          LET ask == asking[a]
              there == [chat EXCEPT !.available = TRUE]
          IN  chat' = IF Reply(content) = "empty"
                      THEN Answered(there, ask, "knowledge base")
                      ELSE Answered(Remember(there, ask.question), ask, "model")
    /\ asking' = [asking EXCEPT ![a] = NoAsk]

\* No answer within the time, a status that is not ok (no key, an error of the model),
\* or a body that is no JSON.
AskFails(a) ==
    /\ asking[a] # NoAsk
    /\ chat' = Answered([chat EXCEPT !.available = FALSE], asking[a], "knowledge base")
    /\ asking' = [asking EXCEPT ![a] = NoAsk]

HealthAnswers ==
    /\ "health" \in chat.due
    /\ \E there \in BOOLEAN : chat' = [chat EXCEPT !.available = there, !.due = @ \ {"health"}]
    /\ UNCHANGED asking
Welcome ==
    /\ "welcome" \in chat.due
    /\ chat' = [chat EXCEPT !.shown = Append(@, [from |-> "welcome"]),
                            !.due = @ \ {"welcome"}]
    /\ UNCHANGED asking

ClearHistory ==
    /\ chat.history # <<>>
    /\ chat' = [chat EXCEPT !.history = <<>>]
    /\ UNCHANGED asking

AssistantNext ==
    \/ \E a \in Asks : SendMessage(a) \/ CallFindAnswer(a) \/ AskSucceeds(a) \/ AskFails(a)
    \/ HealthAnswers \/ Welcome \/ ClearHistory

-----------------------------------------------------------------------------
(* Properties *)

Paired(s) ==
    \A i \in DOMAIN s :
        IF i % 2 = 1 THEN s[i].role = "user"
        ELSE s[i].role = "assistant" /\ s[i].question = s[i - 1].question

\* What the model is asked begins with a question, and every answer in it follows the
\* question it answers, however calls overlap, fail, or clear the conversation, and
\* wherever the page and the worker cut it (x407-assistant.js:84-128, worker.js:135-143).
ConversationIsPaired ==
    \A a \in Asks : asking[a] # NoAsk => Paired(asking[a].messages)

\* The panel shows an answer for every question but the one that waits, in their order,
\* under the badge of where it comes from (x407-assistant.js:161-277).
PanelIsHonest ==
    LET shown == chat.shown
        talk == {i \in DOMAIN shown : shown[i].from # "welcome"}
        before(i) == {j \in talk : j < i}
    IN  /\ chat.sending <=> Cardinality(talk) % 2 = 1
        /\ \A i \in talk :
              IF Cardinality(before(i)) % 2 = 0 THEN shown[i].from = "user"
              ELSE /\ shown[i].from = "bot" /\ shown[i].badge = shown[i].source
                   /\ \E j \in before(i) : /\ \A k \in before(i) : k <= j
                                           /\ shown[j].question = shown[i].question
=============================================================================

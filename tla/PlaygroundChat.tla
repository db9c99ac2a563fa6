--------------------------- MODULE PlaygroundChat ---------------------------
(***************************************************************************)
(* The playground page (web/default/src/features/playground): a list of     *)
(* messages kept in the browser's storage, and the requests that answer     *)
(* them.  A request writes to whatever message is last when its events      *)
(* arrive; two references are shared by all requests: the open event source *)
(* (sseSourceRef) and the flag that a stream is complete                    *)
(* (isStreamCompleteRef).  "Generating" is that the first one is set.       *)
(*                                                                          *)
(* Callbacks run one at a time, each followed by its rendering, and local   *)
(* storage accepts the write, so it always equals the list.  The content of *)
(* a message is the set of the requests whose text it holds.                *)
(***************************************************************************)
EXTENDS Naturals, Sequences, FiniteSets

CONSTANTS
    Modes,        \* values of config.stream
    MaxRequests,    \* bound: requests made on the page
    MaxInterrupted  \* bound: requests the user interrupts

ASSUME RequestsAssumption == MaxRequests \in Nat \ {0}
ASSUME InterruptedAssumption == MaxInterrupted \in Nat
ASSUME ModesAssumption == Modes \subseteq BOOLEAN

VARIABLES
    stream,          \* config.stream, loaded from storage
    messages,        \* the list
    req,             \* each request: "new", "open", "over"
    source,          \* sseSourceRef: a request, or 0
    streamComplete,  \* isStreamCompleteRef
    draining,        \* a closed source whose last batch is still being dispatched, or 0
    editing,         \* editingMessageKey, or 0
    interrupted      \* history: requests that were under way when the user changed the list

vars == <<stream, messages, req, source, streamComplete, draining, editing, interrupted>>

Requests == 1 .. MaxRequests
Typed == 0     \* text the user wrote

(* The answer to request r has key r, the user's message sent with it UserKey(r). *)
UserKey(r) == MaxRequests + r
Keys == 1 .. 2 * MaxRequests

UserMessage(r) == [from |-> "user", key |-> UserKey(r), status |-> "none", parts |-> {Typed}]
Loading(r) == [from |-> "assistant", key |-> r, status |-> "loading", parts |-> {}]

IsPending(m) == m.status \in {"loading", "streaming"}
HasContent(m) == m.parts # {} \/ m.status = "error"

Generating == source # 0
InFlight == {r \in Requests : req[r] = "open"}

(***************************************************************************)
(* Changes of the last message.                                             *)
(***************************************************************************)
Newest(ms) == ms[Len(ms)]

UpdateLast(ms, updated) ==
    IF ms # <<>> /\ Newest(ms).from = "assistant"
      THEN [ms EXCEPT ![Len(ms)] = updated]
      ELSE ms

Complete(m) == [m EXCEPT !.status = "complete"]

(* Mutant: a chunk is added to a message in error as well. *)
AddChunkAlways(m, r) == [m EXCEPT !.parts = @ \union {r}, !.status = "streaming"]

AddChunk(m, r) ==
    IF m.status = "error" THEN m
                          ELSE [m EXCEPT !.parts = @ \union {r}, !.status = "streaming"]

(* Mutant: only a message that has begun is completed. *)
HandleStreamCompleteBegun(m) == IF m.status = "streaming" THEN Complete(m) ELSE m

HandleStreamComplete(m) == IF m.status = "error" THEN m ELSE Complete(m)

HandleStreamError(m) == [m EXCEPT !.parts = {}, !.status = "error"]

(* Mutant: only a message that has begun is finalised. *)
StoppedStreaming(m) == IF m.status = "streaming" THEN Complete(m) ELSE m

StopGeneration(m) == IF IsPending(m) THEN Complete(m) ELSE m

(* Of all messages that are pending in the storage, only the last one is settled. *)
Sanitize(m) == IF m.parts # {} THEN Complete(m) ELSE [m EXCEPT !.status = "error"]

PendingAt(ms) == {i \in 1 .. Len(ms) : IsPending(ms[i])}

SanitizeMessagesOnLoad(ms) ==
    [i \in 1 .. Len(ms) |->
        IF i \in PendingAt(ms) /\ \A j \in PendingAt(ms) : j <= i
          THEN Sanitize(ms[i]) ELSE ms[i]]

(***************************************************************************)
(* Requests.                                                                *)
(***************************************************************************)
Init ==
    /\ stream \in Modes
    /\ messages = <<>>
    /\ req = [r \in Requests |-> "new"]
    /\ source = 0 /\ streamComplete = FALSE /\ draining = 0 /\ editing = 0
    /\ interrupted = {}

Fresh(r) == req[r] = "new" /\ \A q \in Requests : q < r => req[q] # "new"

(* sendChat: a stream, which may fail to start, or a plain request *)
SendChat(r, ms) ==
    \/ /\ messages' = ms
       /\ req' = [req EXCEPT ![r] = "open"]
       /\ source' = IF stream THEN r ELSE source
       /\ streamComplete' = IF stream THEN FALSE ELSE streamComplete
    \/ /\ stream
       /\ messages' = UpdateLast(ms, HandleStreamError(Newest(ms)))
       /\ req' = [req EXCEPT ![r] = "over"]
       /\ source' = 0
       /\ streamComplete' = FALSE

(* Most controls are disabled while generating; a plain request disables none. *)
Unguarded == draining = 0
Guarded == ~Generating /\ Unguarded

(* The user changes the list: what is under way, for its server or for the page. *)
Interrupts ==
    /\ interrupted' = interrupted \union InFlight \union ({source} \ {0})
    /\ Cardinality(interrupted') <= MaxInterrupted

Ask(r) == /\ SendChat(r, messages \o <<UserMessage(r), Loading(r)>>)
          /\ Interrupts
          /\ UNCHANGED <<stream, draining, editing>>

Send(r) == Guarded /\ Fresh(r) /\ Ask(r)

(* The suggestion buttons call onSubmit without looking at `disabled`. *)
HandleSuggestionClick(r) == Unguarded /\ Fresh(r) /\ Ask(r)

(* Mutant: the new text goes to the old answer. *)
RegenerateInPlace(r, i) ==
    /\ Guarded /\ Fresh(r)
    /\ messages[i].from = "assistant" /\ HasContent(messages[i]) /\ ~IsPending(messages[i])
    /\ SendChat(r, SubSeq(messages, 1, i))
    /\ Interrupts
    /\ UNCHANGED <<stream, draining, editing>>

HandleRegenerateMessage(r, i) ==
    /\ Guarded /\ Fresh(r)
    /\ messages[i].from = "assistant" /\ HasContent(messages[i]) /\ ~IsPending(messages[i])
    /\ SendChat(r, Append(SubSeq(messages, 1, i - 1), Loading(r)))
    /\ Interrupts
    /\ UNCHANGED <<stream, draining, editing>>

(* The list without its i-th message: no other one has its key. *)
Without(ms, i) == [n \in 1 .. (Len(ms) - 1) |-> ms[IF n < i THEN n ELSE n + 1]]

HandleDeleteMessage(i) ==
    /\ Guarded /\ HasContent(messages[i])
    /\ messages' = Without(messages, i)
    /\ Interrupts
    /\ UNCHANGED <<stream, req, source, streamComplete, draining, editing>>

HandleEditMessage(i) ==
    /\ Guarded /\ HasContent(messages[i])
    /\ editing' = messages[i].key
    /\ UNCHANGED <<stream, messages, req, source, streamComplete, draining, interrupted>>

CancelEdit ==
    /\ editing # 0 /\ Unguarded
    /\ editing' = 0
    /\ UNCHANGED <<stream, messages, req, source, streamComplete, draining, interrupted>>

(* Save of an open editor, which generation does not disable *)
Edited(ms, k) == [i \in 1 .. Len(ms) |->
                     IF ms[i].key = k THEN [ms[i] EXCEPT !.parts = {Typed}] ELSE ms[i]]

SaveEdit ==
    /\ Unguarded /\ \E i \in 1 .. Len(messages) : messages[i].key = editing
    /\ messages' = Edited(messages, editing)
    /\ editing' = 0
    /\ Interrupts
    /\ UNCHANGED <<stream, req, source, streamComplete, draining>>

SaveEditAndSubmit(r, i) ==
    /\ Unguarded /\ Fresh(r)
    /\ messages[i].key = editing /\ messages[i].from = "user"
    /\ editing' = 0
    /\ SendChat(r, Append(SubSeq(Edited(messages, editing), 1, i), Loading(r)))
    /\ Interrupts
    /\ UNCHANGED <<stream, draining>>

(* The Stop button is shown while generating; it closes the source of the reference. *)
Stop ==
    /\ Generating /\ draining = 0
    /\ messages' = UpdateLast(messages, StopGeneration(Newest(messages)))
    /\ req' = [req EXCEPT ![source] = "over"]
    /\ source' = 0
    /\ UNCHANGED <<stream, streamComplete, draining, editing, interrupted>>

(* The page is loaded again: every connection ends, the storage is read. *)
Reload ==
    /\ draining = 0
    /\ messages' = SanitizeMessagesOnLoad(messages)
    /\ req' = [r \in Requests |-> IF req[r] = "new" THEN "new" ELSE "over"]
    /\ source' = 0 /\ streamComplete' = FALSE /\ editing' = 0
    /\ UNCHANGED <<stream, draining, interrupted>>

(***************************************************************************)
(* Events of a stream.  The library dispatches the rest of the batch it     *)
(* received even after the source was closed in the middle of it.           *)
(***************************************************************************)
Dispatches(r) == stream /\ IF draining = 0 THEN req[r] = "open" ELSE r = draining

Chunk(r) ==
    /\ Dispatches(r)
    /\ messages' = UpdateLast(messages, AddChunk(Newest(messages), r))
    /\ UNCHANGED <<stream, req, source, streamComplete, draining, editing, interrupted>>

CloseSource(r) == req' = [req EXCEPT ![r] = "over"] /\ source' = 0

Done(r) ==
    /\ Dispatches(r)
    /\ streamComplete' = TRUE
    /\ CloseSource(r)
    /\ messages' = UpdateLast(messages, HandleStreamComplete(Newest(messages)))
    /\ UNCHANGED <<stream, draining, editing, interrupted>>

(* handleError: nothing is reported once any stream has completed. *)
HandleError(r) ==
    IF streamComplete
      THEN UNCHANGED <<messages, source>>
      ELSE messages' = UpdateLast(messages, HandleStreamError(Newest(messages))) /\ source' = 0

(* A chunk that cannot be parsed *)
ParseError(r) ==
    /\ Dispatches(r)
    /\ HandleError(r)
    /\ IF streamComplete THEN UNCHANGED <<req, draining>>
                         ELSE req' = [req EXCEPT ![r] = "over"] /\ draining' = r
    /\ UNCHANGED <<stream, streamComplete, editing, interrupted>>

EndOfBatch ==
    /\ draining # 0
    /\ draining' = 0
    /\ UNCHANGED <<stream, messages, req, source, streamComplete, editing, interrupted>>

(* The connection fails or is answered with another status than 200. *)
StreamError(r) ==
    /\ stream /\ draining = 0 /\ req[r] = "open"
    /\ HandleError(r)
    /\ req' = [req EXCEPT ![r] = "over"]
    /\ UNCHANGED <<stream, streamComplete, draining, editing, interrupted>>

(* The stream ends without [DONE]: no listener reacts. *)
CutOff(r) ==
    /\ stream /\ draining = 0 /\ req[r] = "open"
    /\ req' = [req EXCEPT ![r] = "over"]
    /\ UNCHANGED <<stream, messages, source, streamComplete, draining, editing, interrupted>>

(***************************************************************************)
(* A plain request: an answer, an answer without a choice, or an error.     *)
(***************************************************************************)
Respond(r, ms) ==
    /\ ~stream /\ req[r] = "open"
    /\ req' = [req EXCEPT ![r] = "over"]
    /\ messages' = ms
    /\ UNCHANGED <<stream, source, streamComplete, draining, editing, interrupted>>

Answered(m, r) == Complete([m EXCEPT !.parts = {r}])

Answer(r) == Respond(r, UpdateLast(messages, Answered(Newest(messages), r)))
AnswerWithoutChoice(r) == Respond(r, messages)
AnswerError(r) == Respond(r, UpdateLast(messages, HandleStreamError(Newest(messages))))

User ==
    \/ \E r \in Requests : Send(r) \/ HandleSuggestionClick(r)
    \/ \E r \in Requests, i \in 1 .. Len(messages) :
          HandleRegenerateMessage(r, i) \/ SaveEditAndSubmit(r, i)
    \/ \E i \in 1 .. Len(messages) : HandleDeleteMessage(i) \/ HandleEditMessage(i)
    \/ CancelEdit \/ SaveEdit \/ Stop \/ Reload

Ends(r) == Done(r) \/ StreamError(r) \/ CutOff(r)
              \/ Answer(r) \/ AnswerWithoutChoice(r) \/ AnswerError(r)

Events == \E r \in Requests : Chunk(r) \/ ParseError(r) \/ Ends(r)

Next == User \/ Events \/ EndOfBatch

(* The relay ends every response it has begun, and a batch is finite. *)
Fairness == /\ \A r \in Requests : WF_vars(Ends(r))
            /\ WF_vars(EndOfBatch)

Spec == Init /\ [][Next]_vars /\ Fairness

(***************************************************************************)
(* Properties                                                               *)
(***************************************************************************)
(* Every variable has the values the page gives it. *)
TypeOK ==
    /\ stream \in BOOLEAN
    /\ \A i \in 1 .. Len(messages) :
          messages[i] \in [from : {"user", "assistant"}, key : Keys,
                           status : {"none", "loading", "streaming", "complete", "error"},
                           parts : SUBSET (0 .. MaxRequests)]
    /\ req \in [Requests -> {"new", "open", "over"}]
    /\ source \in 0 .. MaxRequests
    /\ streamComplete \in BOOLEAN
    /\ draining \in 0 .. MaxRequests
    /\ editing \in Keys \union {0}
    /\ interrupted \subseteq Requests

(* Every event of a request goes to whatever message is last when it arrives.    *)
(* Still an answer holds the text of no other request than its own and those     *)
(* that were under way when the user changed the list, which the suggestion      *)
(* buttons, an open editor and, during a plain request, every control allow.     *)
OwnAnswer ==
    \A i \in 1 .. Len(messages) :
        messages[i].parts \subseteq {Typed, messages[i].key} \union interrupted

(* While no stream is referenced nothing shows as loading: after the end, the    *)
(* failure, the stop or the loss of a stream no message waits for ever, as long  *)
(* as the user has never changed the list with a request under way.              *)
IdleIsSettled ==
    interrupted = {} /\ stream /\ ~Generating =>
        \A i \in 1 .. Len(messages) : ~IsPending(messages[i])

(* An answer that failed stays failed: late chunks and a late [DONE], of the     *)
(* same batch or of other streams, do not bring it back.  A plain answer does,   *)
(* but only once the user has changed the list with a request under way.         *)
ErrorSticks ==
    [][\A i \in 1 .. Len(messages), j \in 1 .. Len(messages') :
          (stream \/ interrupted = {}) /\ messages[i].status = "error" /\ messages'[j].key = messages[i].key
              => messages'[j].status = "error"]_vars

(* A streamed answer is settled in the end, unless its stream was cut off (then  *)
(* the page still offers Stop) or the user changes the list meanwhile.           *)
AnswerSettles ==
    (stream /\ PendingAt(messages) # {}) ~>
        (PendingAt(messages) = {} \/ (Generating /\ req[source] = "over") \/ interrupted # {})
=============================================================================

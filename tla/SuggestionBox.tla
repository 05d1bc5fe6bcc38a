---------------------------- MODULE SuggestionBox ----------------------------
(***************************************************************************)
(* The autocomplete box of the web page: SearchInput with useDebounce,     *)
(* useSuggestions, ApiClient and SuggestionDropdown.                       *)
(*                                                                         *)
(* Every event (key, click, timer, reply) runs its handler, the render and *)
(* the effects before the next one: the page has one thread, and React     *)
(* flushes the effects of a render before it starts another.  An event is  *)
(* therefore one action.  What is derived during render is an operator.    *)
(*                                                                         *)
(* A text is a member of Text.  The rows the server has for a text are     *)
(* Offered[t]; that a reply may be outdated is SuggestionService's matter. *)
(* The length limit of the input and the markup are left out.              *)
(***************************************************************************)
EXTENDS Integers, Sequences

CONSTANTS
    Text,       \* what the input can hold
    Empty,      \* the empty text
    Trimmed,    \* Trimmed[t]: t without the blanks around it
    Offered,    \* Offered[t]: the suggestions for t
    Nothing     \* no submitted query (null)

ASSUME BoxAssumption ==
    /\ Empty \in Text
    /\ Nothing \notin Text
    /\ Trimmed \in [Text -> Text]
    /\ Trimmed[Empty] = Empty
    /\ \A t \in Text : Trimmed[Trimmed[t]] = Trimmed[t]
    /\ Offered \in [Text -> Seq(Text)]

VARIABLES
    query,       \* the text in the input
    focused,     \* isFocused
    submitted,   \* submittedQuery, also useSuggestions' skipRef
    debounced,   \* debouncedValue
    timer,       \* the timeout of useDebounce is running
    result,      \* the stored Result
    selection,   \* the highlighted row and the list it belongs to
    calls,       \* requests that are neither answered nor rejected
    skipped,     \* history: no request was made for the debounced text
    marked,      \* history: the row the last arrow key went to
    posts        \* history: searches posted since the box was last opened

boxVars == <<query, focused, submitted>>
fetchVars == <<debounced, timer, calls, skipped>>
vars == <<boxVars, fetchVars, result, selection, marked, posts>>

NoResult == [query |-> Empty, rows |-> <<>>, error |-> FALSE]

\* mounted: isMounted of the effect that made the call; aborted: its controller's signal.
Call == [query : Text, mounted : BOOLEAN, aborted : BOOLEAN]

\* Lists are compared by identity: the constant empty one, the one of the stored
\* result, or one of a result that has been replaced.
List == {"empty", "stored", "replaced"}

Init ==
    /\ query = Empty
    /\ focused = FALSE
    /\ submitted = Nothing
    /\ debounced = Empty
    /\ timer = TRUE
    /\ result = NoResult
    /\ selection = [list |-> "empty", index |-> 0]
    /\ calls = {}
    /\ skipped = FALSE
    /\ marked = Nothing
    /\ posts = 0

-----------------------------------------------------------------------------
(* Derived during render.                                                  *)

IsBlank(t) == Trimmed[t] = Empty
IsCurrent == result.query = debounced
IsLoading == ~IsBlank(debounced) /\ debounced # submitted /\ ~IsCurrent
Error == ~IsBlank(debounced) /\ IsCurrent /\ result.error

Suggestions == IF IsBlank(debounced) THEN <<>> ELSE result.rows
SuggestionList == IF IsBlank(debounced) \/ result = NoResult THEN "empty" ELSE "stored"

\* Faulty: the highlight stays when another list takes the place of its own.
SelectedIndexOfAnyList == selection.index

\* Rows count from 1; 0 is no row (the code's -1).
SelectedIndex == IF selection.list = SuggestionList THEN selection.index ELSE 0

\* SuggestionDropdown renders the rows.
ShowsRows == focused /\ query # Empty /\ ~IsLoading /\ ~Error /\ Suggestions # <<>>

-----------------------------------------------------------------------------
(* Events of the input.                                                    *)

\* useDebounce's effect: a new text restarts the timeout.
SetQuery(t) ==
    /\ query' = t
    /\ timer' = (timer \/ t # query)

\* onChange.
Type(t) ==
    /\ t # query
    /\ SetQuery(t)
    /\ focused' = TRUE
    /\ submitted' = Nothing
    /\ posts' = 0
    /\ UNCHANGED <<debounced, calls, skipped, result, selection, marked>>

Focus ==
    /\ ~focused
    /\ focused' = TRUE
    /\ posts' = 0
    /\ UNCHANGED <<query, submitted, fetchVars, result, selection, marked>>

\* handleClickOutside.
ClickOutside ==
    /\ focused
    /\ focused' = FALSE
    /\ UNCHANGED <<query, submitted, fetchVars, result, selection, marked, posts>>

\* The clear button.  The input gets the focus; it hears of that unless it had it.
Clear ==
    /\ query # Empty
    /\ SetQuery(Empty)
    /\ \/ focused' = TRUE /\ posts' = 0
       \/ UNCHANGED <<focused, posts>>
    /\ UNCHANGED <<submitted, debounced, calls, skipped, result, selection, marked>>

\* Faulty: the box stays open, and the next Enter selects again.
HandleSelectStaysOpen(t) ==
    /\ SetQuery(t)
    /\ submitted' = t
    /\ selection' = [list |-> SuggestionList, index |-> 0]
    /\ posts' = posts + 1
    /\ UNCHANGED <<focused, debounced, calls, skipped, result, marked>>

\* handleSelect, with the POST it sends; what becomes of the POST is not looked at.
HandleSelect(t) ==
    /\ SetQuery(t)
    /\ focused' = FALSE
    /\ selection' = [list |-> SuggestionList, index |-> 0]
    /\ submitted' = t
    /\ posts' = posts + 1
    /\ UNCHANGED <<debounced, calls, skipped, result, marked>>

ClickRow ==
    /\ ShowsRows
    /\ \E i \in 1..Len(Suggestions) : HandleSelect(Suggestions[i])

\* handleKeyDown looks at keys while the box is open.
IsOpen == focused /\ (query # Empty \/ IsLoading)

MoveTo(index) ==
    /\ selection' = [list |-> SuggestionList, index |-> index]
    /\ marked' = IF index \in 1..Len(Suggestions) THEN Suggestions[index] ELSE Nothing
    /\ UNCHANGED <<boxVars, fetchVars, result, posts>>

\* Faulty: the highlight leaves the list.
ArrowDownUnbounded ==
    /\ IsOpen
    /\ MoveTo(SelectedIndex + 1)

ArrowDown ==
    /\ IsOpen
    /\ MoveTo(IF SelectedIndex < Len(Suggestions) THEN SelectedIndex + 1 ELSE SelectedIndex)

ArrowUp ==
    /\ IsOpen
    /\ MoveTo(IF SelectedIndex > 0 THEN SelectedIndex - 1 ELSE 0)

\* Enter takes the highlighted row ...
EnterRow ==
    /\ IsOpen
    /\ SelectedIndex \in 1..Len(Suggestions)
    /\ HandleSelect(Suggestions[SelectedIndex])

\* ... or without one the text itself.
EnterText ==
    /\ IsOpen
    /\ SelectedIndex \notin 1..Len(Suggestions)
    /\ ~IsBlank(query)
    /\ HandleSelect(Trimmed[query])

Escape ==
    /\ IsOpen
    /\ focused' = FALSE
    /\ UNCHANGED <<query, submitted, fetchVars, result, selection, marked, posts>>

-----------------------------------------------------------------------------
(* Fetching.                                                               *)

\* Faulty: suggest() creates its controller first and then aborts "the previous" one.
SuggestAbortsItself(t) ==
    {[c EXCEPT !.mounted = FALSE] : c \in calls}
        \cup {[query |-> t, mounted |-> TRUE, aborted |-> TRUE]}

\* ApiClient.suggest aborts the call before it; the cleanup of the effect has run.
Suggest(t) ==
    {[c EXCEPT !.mounted = FALSE, !.aborted = TRUE] : c \in calls}
        \cup {[query |-> t, mounted |-> TRUE, aborted |-> FALSE]}

\* The effect with [debouncedQuery]: its cleanup and, for a text that is neither
\* blank nor the one just selected, a request.
FetchEffect(t) ==
    IF IsBlank(t) \/ t = submitted
    THEN /\ calls' = {[c EXCEPT !.mounted = FALSE] : c \in calls}
         /\ skipped' = TRUE
    ELSE /\ calls' = Suggest(t)
         /\ skipped' = FALSE

\* 250 ms without a new text.
TimerFires ==
    /\ timer
    /\ timer' = FALSE
    /\ debounced' = query
    /\ IF query # debounced
       THEN FetchEffect(query)
       ELSE UNCHANGED <<calls, skipped>>
    /\ UNCHANGED <<boxVars, result, selection, marked, posts>>

SetResult(r) ==
    /\ result' = r
    /\ selection' = [selection EXCEPT !.list = IF @ = "stored" THEN "replaced" ELSE @]

\* Faulty: the reply is stored whatever has become of its effect.
ResolveAnyway(c) ==
    /\ ~c.aborted
    /\ calls' = calls \ {c}
    /\ SetResult([query |-> c.query, rows |-> Offered[c.query], error |-> FALSE])
    /\ UNCHANGED <<boxVars, debounced, timer, skipped, marked, posts>>

\* Faulty: the reply is stored under the text of the day.
ResolveForDebounced(c) ==
    /\ ~c.aborted
    /\ calls' = calls \ {c}
    /\ SetResult([query |-> debounced, rows |-> Offered[c.query], error |-> FALSE])
    /\ UNCHANGED <<boxVars, debounced, timer, skipped, marked, posts>>

\* The response arrives in time to be read.
Resolve(c) ==
    /\ ~c.aborted
    /\ calls' = calls \ {c}
    /\ IF c.mounted
       THEN SetResult([query |-> c.query, rows |-> Offered[c.query], error |-> FALSE])
       ELSE UNCHANGED <<result, selection>>
    /\ UNCHANGED <<boxVars, debounced, timer, skipped, marked, posts>>

\* A status that is not ok, or no connection.
Reject(c) ==
    /\ ~c.aborted
    /\ calls' = calls \ {c}
    /\ IF c.mounted
       THEN SetResult([query |-> c.query, rows |-> <<>>, error |-> TRUE])
       ELSE UNCHANGED <<result, selection>>
    /\ UNCHANGED <<boxVars, debounced, timer, skipped, marked, posts>>

\* AbortError: a newer request is taking over.
AbortError(c) ==
    /\ c.aborted
    /\ calls' = calls \ {c}
    /\ UNCHANGED <<boxVars, debounced, timer, skipped, result, selection, marked, posts>>

Reply(c) == Resolve(c) \/ Reject(c) \/ AbortError(c)

UserStep ==
    \/ \E t \in Text : Type(t)
    \/ Focus \/ ClickOutside \/ Clear \/ ClickRow
    \/ ArrowDown \/ ArrowUp \/ EnterRow \/ EnterText \/ Escape

Next ==
    \/ UserStep
    \/ TimerFires
    \/ \E c \in calls : Reply(c)

Spec == Init /\ [][Next]_vars

\* Timers fire and every request ends one way or the other (the browser's own
\* timeout sees to that).  The user may stop at any moment.
Fairness ==
    /\ WF_vars(TimerFires)
    /\ \A c \in Call : WF_vars(c \in calls /\ Reply(c))

FairSpec == Spec /\ Fairness

-----------------------------------------------------------------------------
(* Properties.                                                             *)

\* Types; the highlighted row is a row of the list.
TypeOK ==
    /\ query \in Text
    /\ focused \in BOOLEAN
    /\ submitted \in Text \cup {Nothing}
    /\ debounced \in Text
    /\ timer \in BOOLEAN
    /\ result \in [query : Text, rows : Seq(Text), error : BOOLEAN]
    /\ selection \in [list : List, index : Nat]
    /\ calls \subseteq Call
    /\ skipped \in BOOLEAN
    /\ marked \in Text \cup {Nothing}
    /\ posts \in Nat
    /\ SelectedIndex <= Len(Suggestions)

\* A late response never overwrites a newer one: whatever was typed, cleared or
\* selected meanwhile, a result is stored only while its text is the debounced one
\* (useSuggestions.ts:21-22, 44, 50).
OnlyCurrentAnswers == [][result' # result => result'.query = debounced]_vars

\* The rows on the screen answer the text they are shown for, unless that is the
\* text just selected, for which nothing was fetched (useSuggestions.ts:60-66).
RowsBelongToText ==
    ShowsRows /\ debounced # submitted =>
        result.query = debounced /\ Suggestions = Offered[debounced]

\* Enter takes the row the user went to, also when lists came and went between the
\* arrow key and Enter (SearchInput.tsx:20-28).
EnterTakesMarkedRow == [][EnterRow => query' = marked]_vars

\* A repeated Enter, or a click after it, does not post the search again before the
\* user types or returns to the box (SearchInput.tsx:70-74).
OneSearchPerOpening == posts <= 1

\* Every fetch ends the spinner, unless the text changes first: the request whose
\* reply is needed is never the one that was aborted (useSuggestions.ts:46-48).
FetchesAreAnswered ==
    \A t \in Text :
        debounced = t /\ ~IsBlank(t) /\ ~skipped ~> debounced # t \/ result.query = t

-----------------------------------------------------------------------------
(* What the documentation of useSuggestions says and the code does not     *)
(* keep.                                                                   *)

\* "null means fetch for everything": while nothing is submitted and the text is at
\* rest, its suggestions arrive.
FetchForEverything ==
    \A t \in Text :
        LET AtRest == query = t /\ debounced = t /\ submitted = Nothing
        IN AtRest /\ ~IsBlank(t) ~> ~AtRest \/ result.query = t

=============================================================================

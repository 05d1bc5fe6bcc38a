-------------------------- MODULE SuggestionBoxProofs --------------------------
(***************************************************************************)
(* What holds of SuggestionBox for any texts and suggestions.              *)
(***************************************************************************)
EXTENDS SuggestionBox, TLAPS

\* The types without the bound on the highlighted row.
Typed ==
    /\ query \in Text
    /\ focused \in BOOLEAN
    /\ submitted \in Text \cup {Nothing}
    /\ debounced \in Text
    /\ timer \in BOOLEAN
    /\ result \in [query : Text, rows : Seq(Text), error : BOOLEAN]
    /\ selection \in [list : List, index : Nat]
    /\ calls \subseteq Call
    /\ skipped \in BOOLEAN
    /\ marked \in Text \cup {Nothing}
    /\ posts \in Nat

\* The effect that made a call is mounted only for the debounced text.
MountedForDebounced == \A c \in calls : c.mounted => c.query = debounced

\* A stored result has the rows of its own text.
ResultOfItsText ==
    result = NoResult \/ result.error \/ result.rows = Offered[result.query]

\* A highlight is on the row the user went to, in the list it was set for.
HighlightIsMarked ==
    selection.index # 0 =>
        /\ selection.list # "empty"
        /\ selection.list = "stored" =>
             selection.index <= Len(result.rows) /\ marked = result.rows[selection.index]

\* A box that is open has posted nothing.
OpenHasNotPosted == posts <= 1 /\ (focused => posts = 0)

IInv ==
    Typed /\ MountedForDebounced /\ ResultOfItsText /\ HighlightIsMarked /\ OpenHasNotPosted

\* An empty box has asked for nothing and shows nothing.
LEMMA InitInvariant == Init => IInv
<1> SUFFICES ASSUME Init PROVE IInv
  OBVIOUS
<1>1. << >> \in Seq(Text)
  OBVIOUS
<1>2. focused \in BOOLEAN /\ timer \in BOOLEAN /\ skipped \in BOOLEAN
  BY Zenon DEF Init
<1>3. Typed
  BY <1>1, <1>2, BoxAssumption DEF Init, Typed, NoResult, List
<1> QED
  BY <1>3, BoxAssumption DEF Init, IInv, MountedForDebounced, ResultOfItsText, NoResult,
     HighlightIsMarked, OpenHasNotPosted

\* The rows of the dropdown and the highlight in them.
LEMMA Rows ==
    ASSUME IInv
    PROVE  /\ Suggestions \in Seq(Text) /\ Len(Suggestions) \in Nat
           /\ SuggestionList \in {"empty", "stored"}
           /\ SuggestionList = "empty" => Suggestions = << >>
           /\ SuggestionList = "stored" => Suggestions = result.rows
           /\ SelectedIndex \in 0..Len(Suggestions)
           /\ SelectedIndex # 0 => marked = Suggestions[SelectedIndex]
<1>1. Suggestions \in Seq(Text) /\ result.rows \in Seq(Text)
  BY DEF IInv, Typed, Suggestions
<1>2. Len(Suggestions) \in Nat
  BY <1>1
<1>3. /\ SuggestionList \in {"empty", "stored"}
      /\ SuggestionList = "empty" => Suggestions = << >>
      /\ SuggestionList = "stored" => Suggestions = result.rows
  BY DEF SuggestionList, Suggestions, NoResult
<1>4. SelectedIndex \in Nat
  BY DEF IInv, Typed, SelectedIndex
<1>5. SelectedIndex # 0 =>
         SelectedIndex <= Len(Suggestions) /\ marked = Suggestions[SelectedIndex]
  BY <1>3 DEF IInv, HighlightIsMarked, SelectedIndex
<1> QED
  BY <1>1, <1>2, <1>3, <1>4, <1>5

-----------------------------------------------------------------------------
\* A text is selected, by key or click, only in an open box.
LEMMA SelectKeeps ==
    ASSUME IInv, NEW t \in Text, HandleSelect(t), focused
    PROVE  IInv'
<1>1. timer' \in BOOLEAN /\ focused' \in BOOLEAN
  BY Zenon DEF HandleSelect, SetQuery, IInv, Typed
<1>2. posts' = 1 /\ ~focused'
  BY DEF HandleSelect, IInv, OpenHasNotPosted
<1>3. selection' \in [list : List, index : Nat] /\ selection'.index = 0
  BY Rows DEF HandleSelect, List
<1>4. Typed'
  BY <1>1, <1>2, <1>3 DEF HandleSelect, SetQuery, IInv, Typed
<1> QED
  BY <1>2, <1>3, <1>4 DEF HandleSelect, IInv, MountedForDebounced, ResultOfItsText,
     HighlightIsMarked, OpenHasNotPosted

\* An arrow key moves the highlight to a row of the list and marks it.
LEMMA MoveKeeps ==
    ASSUME IInv, NEW i \in 0..Len(Suggestions), MoveTo(i)
    PROVE  IInv'
<1>1. /\ selection' = [list |-> SuggestionList, index |-> i] /\ i \in Nat
      /\ i # 0 => marked' = Suggestions[i] /\ i <= Len(Suggestions)
      /\ marked' \in Text \cup {Nothing}
      /\ UNCHANGED <<query, focused, submitted, debounced, timer, calls, skipped, result, posts>>
  BY Rows DEF MoveTo, boxVars, fetchVars
<1>2. Typed'
  BY <1>1, Rows DEF IInv, Typed, List
<1>3. HighlightIsMarked'
  BY <1>1, Rows DEF HighlightIsMarked
<1> QED
  BY <1>1, <1>2, <1>3 DEF IInv, MountedForDebounced, ResultOfItsText, OpenHasNotPosted

\* Changing the text or the focus leaves requests and the debounced text as they are.
LEMMA EditKeeps ==
    ASSUME IInv, (\E t \in Text : Type(t)) \/ Focus \/ ClickOutside \/ Clear \/ Escape
    PROVE  IInv'
<1>1. focused' \in BOOLEAN /\ timer' \in BOOLEAN
  <2>1. CASE \E t \in Text : Type(t)
    BY <2>1, Zenon DEF Type, SetQuery
  <2>2. CASE Focus \/ ClickOutside \/ Escape
    BY <2>2, Zenon DEF Focus, ClickOutside, Escape, fetchVars, IInv, Typed
  <2>3. CASE Clear
    BY <2>3, Zenon DEF Clear, SetQuery, IInv, Typed
  <2> QED
    BY <2>1, <2>2, <2>3
<1>2. /\ query' \in Text /\ submitted' \in Text \cup {Nothing}
      /\ UNCHANGED <<debounced, calls, skipped, result, selection, marked>>
      /\ posts' = 0 \/ (posts' = posts /\ (focused' => focused))
  BY BoxAssumption DEF Type, Focus, ClickOutside, Clear, Escape, SetQuery, fetchVars, IInv, Typed
<1>3. OpenHasNotPosted'
  BY <1>2 DEF IInv, OpenHasNotPosted
<1> QED
  BY <1>1, <1>2, <1>3 DEF IInv, Typed, MountedForDebounced, ResultOfItsText, HighlightIsMarked

\* Every event of the user keeps the invariant.
LEMMA UserKeeps ==
    ASSUME IInv, UserStep
    PROVE  IInv'
<1>1. CASE ClickRow
  <2>1. PICK i \in 1..Len(Suggestions) : HandleSelect(Suggestions[i])
    BY <1>1 DEF ClickRow
  <2>2. Suggestions[i] \in Text /\ focused
    BY <1>1, Rows DEF ClickRow, ShowsRows
  <2> QED
    BY <2>1, <2>2, SelectKeeps
<1>2. CASE EnterRow
  <2>1. Suggestions[SelectedIndex] \in Text /\ focused
    BY <1>2, Rows DEF EnterRow, IsOpen
  <2> QED
    BY <1>2, <2>1, SelectKeeps DEF EnterRow
<1>3. CASE EnterText
  <2>1. Trimmed[query] \in Text /\ focused
    BY <1>3, BoxAssumption DEF EnterText, IsOpen, IInv, Typed
  <2> QED
    BY <1>3, <2>1, SelectKeeps DEF EnterText
<1>4. CASE ArrowDown
  <2>1. (IF SelectedIndex < Len(Suggestions) THEN SelectedIndex + 1 ELSE SelectedIndex)
          \in 0..Len(Suggestions)
    BY Rows
  <2> QED
    BY <1>4, <2>1, MoveKeeps DEF ArrowDown
<1>5. CASE ArrowUp
  <2>1. (IF SelectedIndex > 0 THEN SelectedIndex - 1 ELSE 0) \in 0..Len(Suggestions)
    BY Rows
  <2> QED
    BY <1>5, <2>1, MoveKeeps DEF ArrowUp
<1>6. CASE (\E t \in Text : Type(t)) \/ Focus \/ ClickOutside \/ Clear \/ Escape
  BY <1>6, EditKeeps
<1> QED
  BY <1>1, <1>2, <1>3, <1>4, <1>5, <1>6 DEF UserStep

-----------------------------------------------------------------------------
\* The effects of a new debounced text leave no call mounted for the old one.
LEMMA FetchKeeps ==
    ASSUME IInv, NEW t \in Text, FetchEffect(t)
    PROVE  /\ calls' \subseteq Call /\ skipped' \in BOOLEAN
           /\ \A c \in calls' : c.mounted => c.query = t
<1>1. CASE IsBlank(t) \/ t = submitted
  <2>1. calls' = {[c EXCEPT !.mounted = FALSE] : c \in calls} /\ skipped' = TRUE
    BY <1>1 DEF FetchEffect
  <2>2. \A c \in calls : /\ [c EXCEPT !.mounted = FALSE] \in Call
                         /\ ~[c EXCEPT !.mounted = FALSE].mounted
    BY DEF IInv, Typed, Call
  <2> QED
    BY <2>1, <2>2
<1>2. CASE ~(IsBlank(t) \/ t = submitted)
  <2>1. calls' = Suggest(t) /\ skipped' = FALSE
    BY <1>2 DEF FetchEffect
  <2>2. \A c \in calls : /\ [c EXCEPT !.mounted = FALSE, !.aborted = TRUE] \in Call
                         /\ ~[c EXCEPT !.mounted = FALSE, !.aborted = TRUE].mounted
    BY DEF IInv, Typed, Call
  <2>3. [query |-> t, mounted |-> TRUE, aborted |-> FALSE] \in Call
    BY DEF Call
  <2>4. skipped' \in BOOLEAN
    BY <2>1, Zenon
  <2>5. ASSUME NEW d \in Suggest(t) PROVE d \in Call /\ (d.mounted => d.query = t)
    <3>1. CASE d = [query |-> t, mounted |-> TRUE, aborted |-> FALSE]
      BY <2>3, <3>1
    <3>2. CASE \E c \in calls : d = [c EXCEPT !.mounted = FALSE, !.aborted = TRUE]
      BY <2>2, <3>2
    <3> QED
      BY <2>5, <3>1, <3>2 DEF Suggest
  <2> QED
    BY <2>1, <2>4, <2>5
<1> QED
  BY <1>1, <1>2

\* A new debounced text unmounts the requests for others before it asks for its own.
LEMMA TimerKeeps ==
    ASSUME IInv, TimerFires
    PROVE  IInv'
<1>1. timer' \in BOOLEAN
  BY Zenon DEF TimerFires
<1>2. debounced' = query /\ UNCHANGED <<boxVars, result, selection, marked, posts>>
  BY DEF TimerFires
<1>3. /\ calls' \subseteq Call /\ skipped' \in BOOLEAN
      /\ \A c \in calls' : c.mounted => c.query = debounced'
  <2>1. CASE query # debounced
    BY <1>2, <2>1, FetchKeeps DEF TimerFires, IInv, Typed
  <2>2. CASE query = debounced
    BY <1>2, <2>2 DEF TimerFires, IInv, Typed, MountedForDebounced
  <2> QED
    BY <2>1, <2>2
<1> QED
  BY <1>1, <1>2, <1>3 DEF IInv, Typed, boxVars, MountedForDebounced, ResultOfItsText,
     HighlightIsMarked, OpenHasNotPosted

\* What a reply may change: the stored result, and only for the debounced text.
LEMMA ReplyEffect ==
    ASSUME IInv, NEW c \in calls, Reply(c)
    PROVE  /\ calls' = calls \ {c}
           /\ UNCHANGED <<query, focused, submitted, debounced, timer, skipped, marked, posts>>
           /\ \/ UNCHANGED <<result, selection>>
              \/ /\ result'.query = debounced
                 /\ result' \in [query : Text, rows : Seq(Text), error : BOOLEAN]
                 /\ result'.error \/ result'.rows = Offered[result'.query]
                 /\ selection' = [selection EXCEPT !.list = IF @ = "stored" THEN "replaced" ELSE @]
<1>1. CASE AbortError(c)
  BY <1>1 DEF AbortError, boxVars
<1>2. CASE Resolve(c)
  <2>1. /\ calls' = calls \ {c}
        /\ UNCHANGED <<query, focused, submitted, debounced, timer, skipped, marked, posts>>
    BY <1>2 DEF Resolve, boxVars
  <2>2. CASE ~c.mounted
    BY <1>2, <2>1, <2>2 DEF Resolve
  <2>3. CASE c.mounted
    <3>1. c.query = debounced /\ c.query \in Text /\ Offered[c.query] \in Seq(Text)
      BY <2>3, BoxAssumption DEF IInv, Typed, Call, MountedForDebounced
    <3>2. SetResult([query |-> c.query, rows |-> Offered[c.query], error |-> FALSE])
      BY <1>2, <2>3 DEF Resolve
    <3> QED
      BY <2>1, <3>1, <3>2 DEF SetResult
  <2> QED
    BY <2>2, <2>3
<1>3. CASE Reject(c)
  <2>1. /\ calls' = calls \ {c}
        /\ UNCHANGED <<query, focused, submitted, debounced, timer, skipped, marked, posts>>
    BY <1>3 DEF Reject, boxVars
  <2>2. CASE ~c.mounted
    BY <1>3, <2>1, <2>2 DEF Reject
  <2>3. CASE c.mounted
    <3>1. c.query = debounced /\ c.query \in Text /\ << >> \in Seq(Text)
      BY <2>3, BoxAssumption DEF IInv, Typed, Call, MountedForDebounced
    <3>2. SetResult([query |-> c.query, rows |-> << >>, error |-> TRUE])
      BY <1>3, <2>3 DEF Reject
    <3> QED
      BY <2>1, <3>1, <3>2 DEF SetResult
  <2> QED
    BY <2>2, <2>3
<1> QED
  BY <1>1, <1>2, <1>3 DEF Reply

\* A reply is stored only if its request is mounted, so for the debounced text.
LEMMA ReplyKeeps ==
    ASSUME IInv, NEW c \in calls, Reply(c)
    PROVE  IInv'
<1>1. /\ calls' = calls \ {c}
      /\ UNCHANGED <<query, focused, submitted, debounced, timer, skipped, marked, posts>>
  BY ReplyEffect
<1>2. MountedForDebounced' /\ OpenHasNotPosted'
  BY <1>1 DEF IInv, MountedForDebounced, OpenHasNotPosted
<1>3. CASE UNCHANGED <<result, selection>>
  BY <1>1, <1>2, <1>3 DEF IInv, Typed, ResultOfItsText, HighlightIsMarked
<1>4. CASE ~UNCHANGED <<result, selection>>
  <2>1. /\ result' \in [query : Text, rows : Seq(Text), error : BOOLEAN]
        /\ result'.error \/ result'.rows = Offered[result'.query]
        /\ selection' = [selection EXCEPT !.list = IF @ = "stored" THEN "replaced" ELSE @]
    BY <1>4, ReplyEffect
  <2>2. /\ selection' \in [list : List, index : Nat] /\ selection'.index = selection.index
        /\ selection'.list # "stored" /\ (selection'.list = "empty" => selection.list = "empty")
    BY <2>1 DEF IInv, Typed, List
  <2>3. Typed' /\ ResultOfItsText'
    BY <1>1, <2>1, <2>2 DEF IInv, Typed, ResultOfItsText
  <2>4. HighlightIsMarked'
    BY <2>2 DEF IInv, HighlightIsMarked
  <2> QED
    BY <1>2, <2>3, <2>4 DEF IInv
<1> QED
  BY <1>3, <1>4

\* Every event keeps the invariant of the box.
LEMMA StepInvariant ==
    ASSUME IInv, [Next]_vars
    PROVE  IInv'
<1>1. CASE UNCHANGED vars
  BY <1>1 DEF vars, boxVars, fetchVars, IInv, Typed, MountedForDebounced, ResultOfItsText,
     HighlightIsMarked, OpenHasNotPosted
<1>2. CASE Next
  BY <1>2, UserKeeps, TimerKeeps, ReplyKeeps DEF Next
<1> QED
  BY <1>1, <1>2

-----------------------------------------------------------------------------
\* The inductive invariant of the box: types, which effect a call belongs to, what a
\* result holds, where the highlight came from, and what an open box has posted.
THEOREM Invariance == Spec => []IInv
BY InitInvariant, StepInvariant, PTL DEF Spec

\* Types, and a highlight within its list, for any texts and suggestions.
THEOREM TypeCorrect == Spec => []TypeOK
<1>1. IInv => TypeOK
  BY Rows DEF IInv, Typed, TypeOK
<1> QED
  BY <1>1, Invariance, PTL

\* The rows on the screen are those of the text they are shown for.
THEOREM RowsOfTheText == Spec => []RowsBelongToText
<1>1. IInv => RowsBelongToText
  BY DEF IInv, Typed, ResultOfItsText, RowsBelongToText, ShowsRows, IsLoading, Error, IsCurrent,
     Suggestions, NoResult
<1> QED
  BY <1>1, Invariance, PTL

\* A box posts at most one search between two openings.
THEOREM PostsOnce == Spec => []OneSearchPerOpening
<1>1. IInv => OneSearchPerOpening
  BY DEF IInv, OpenHasNotPosted, OneSearchPerOpening
<1> QED
  BY <1>1, Invariance, PTL

\* A result is stored only while its text is the debounced one.
THEOREM NoLateAnswer == Spec => OnlyCurrentAnswers
<1>1. ASSUME IInv, [Next]_vars
      PROVE  [result' # result => result'.query = debounced]_vars
  <2>1. CASE \E c \in calls : Reply(c)
    BY <1>1, <2>1, ReplyEffect
  <2>2. CASE UNCHANGED result
    BY <2>2
  <2> QED
    BY <1>1, <2>1, <2>2 DEF Next, UserStep, Type, Focus, ClickOutside, Clear, ClickRow, HandleSelect,
       ArrowDown, ArrowUp, MoveTo, EnterRow, EnterText, Escape, TimerFires, vars
<1> QED
  BY <1>1, Invariance, PTL DEF Spec, OnlyCurrentAnswers

\* Enter takes the row the last arrow key went to.
THEOREM EnterTakesRow == Spec => EnterTakesMarkedRow
<1>1. ASSUME IInv, [Next]_vars
      PROVE  [EnterRow => query' = marked]_vars
  <2>1. ASSUME EnterRow PROVE query' = marked
    BY <1>1, <2>1, Rows DEF EnterRow, HandleSelect, SetQuery
  <2> QED
    BY <2>1
<1> QED
  BY <1>1, Invariance, PTL DEF Spec, EnterTakesMarkedRow

-----------------------------------------------------------------------------
\* While the answer for a text that was asked for is missing, the request for it is under
\* way, its effect waits for it, and no newer request has aborted it: clean-ups and aborts
\* hit only requests nobody needs (useSuggestions.ts:46-56, api.ts:16-22).
AnswerIsOnItsWay ==
    ~IsBlank(debounced) /\ ~skipped /\ ~IsCurrent =>
        \E c \in calls : c.query = debounced /\ c.mounted /\ ~c.aborted

\* A new debounced text is either asked for, by a request that stays, or skipped.
LEMMA TimerAsks ==
    ASSUME IInv, AnswerIsOnItsWay, TimerFires
    PROVE  AnswerIsOnItsWay'
<1>1. debounced' = query /\ UNCHANGED result
  BY DEF TimerFires
<1>2. CASE query = debounced
  <2>1. UNCHANGED <<calls, skipped, debounced, result>>
    BY <1>1, <1>2 DEF TimerFires
  <2> QED
    BY <2>1 DEF AnswerIsOnItsWay, IsBlank, IsCurrent
<1>3. CASE query # debounced
  <2>1. FetchEffect(query)
    BY <1>3 DEF TimerFires
  <2>2. CASE IsBlank(query) \/ query = submitted
    <3>1. skipped' = TRUE
      BY <2>1, <2>2 DEF FetchEffect
    <3> QED
      BY <3>1 DEF AnswerIsOnItsWay
  <2>3. CASE ~(IsBlank(query) \/ query = submitted)
    <3>1. [query |-> query, mounted |-> TRUE, aborted |-> FALSE] \in calls'
      BY <2>1, <2>3 DEF FetchEffect, Suggest
    <3> QED
      BY <1>1, <3>1 DEF AnswerIsOnItsWay
  <2> QED
    BY <2>2, <2>3
<1> QED
  BY <1>2, <1>3

\* A reply takes the request away that is needed only when it brings the answer.
LEMMA ReplyAnswers ==
    ASSUME IInv, AnswerIsOnItsWay, NEW c \in calls, Reply(c)
    PROVE  AnswerIsOnItsWay'
<1>1. calls' = calls \ {c} /\ UNCHANGED <<debounced, skipped>>
  BY ReplyEffect
<1>2. CASE c.mounted /\ ~c.aborted
  <2>1. c.query = debounced
    BY <1>2 DEF IInv, MountedForDebounced
  <2>2. result'.query = debounced
    BY <1>2, <2>1 DEF Reply, Resolve, Reject, AbortError, SetResult
  <2> QED
    BY <1>1, <2>2 DEF AnswerIsOnItsWay, IsCurrent
<1>3. CASE ~(c.mounted /\ ~c.aborted)
  <2>1. UNCHANGED result
    BY <1>3 DEF Reply, Resolve, Reject, AbortError
  <2> QED
    BY <1>1, <1>3, <2>1 DEF AnswerIsOnItsWay, IsBlank, IsCurrent
<1> QED
  BY <1>2, <1>3

\* Whatever the user does and however replies come, a fetch that is due has a request that
\* will be heard.
THEOREM AnswerComes == Spec => []AnswerIsOnItsWay
<1>1. Init => AnswerIsOnItsWay
  BY BoxAssumption DEF Init, AnswerIsOnItsWay, IsBlank
<1>2. ASSUME IInv, AnswerIsOnItsWay, [Next]_vars PROVE AnswerIsOnItsWay'
  <2>1. CASE UNCHANGED <<calls, skipped, debounced, result>>
    BY <1>2, <2>1 DEF AnswerIsOnItsWay, IsBlank, IsCurrent
  <2>2. CASE TimerFires
    BY <1>2, <2>2, TimerAsks
  <2>3. CASE \E c \in calls : Reply(c)
    BY <1>2, <2>3, ReplyAnswers
  <2> QED
    BY <1>2, <2>1, <2>2, <2>3 DEF Next, UserStep, Type, Focus, ClickOutside, Clear, ClickRow,
       HandleSelect, ArrowDown, ArrowUp, MoveTo, EnterRow, EnterText, Escape, vars, fetchVars
<1> QED
  BY <1>1, <1>2, Invariance, PTL DEF Spec

=============================================================================

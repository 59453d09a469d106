------------------------------ MODULE TextReply ------------------------------
(***************************************************************************)
(* Tool calls in the text of a reply: providers/text_tools.py.  A model     *)
(* without native tools writes its calls into its reply, in the syntax of   *)
(* one of four dialects, and not always well; find_calls looks for them.    *)
(* What it finds is run, or reported to the model as a call with raw        *)
(* arguments; what it does not find is prose, and nobody hears of it.  The  *)
(* calls found are written back into the history by render_call.            *)
(*                                                                          *)
(* A text is a sequence of tokens:                                          *)
(*   "open"      what begins a call: `tool: NAME(`, `<tool_call>`, a fence, *)
(*               `<|tool_call>call:tool:NAME(`                              *)
(*   "bare"      `<|tool_call>` without a name and a parenthesis            *)
(*   "args"      a JSON object, or one with the arguments in it             *)
(*   "{" .. "}"  one with what ends a call in one of its strings            *)
(*   "value"     no object: another JSON value, or in xml and json_block    *)
(*               an object with one for arguments                           *)
(*   "string", "quoted"   in xml, where it is no "value": an object with a  *)
(*               string for arguments; one with an object in the string     *)
(*   "text"      in xml a string by itself, without an object               *)
(*   "word"      what such a string says, without its quotes                *)
(*   "unquoted"  an object but for quotes on its keys                       *)
(*   "broken"    no JSON, nor the beginning of any                          *)
(*   "paren", "close"  what ends a call: `)`, the closing tag, a fence      *)
(*   "nl"        white space with a line break                              *)
(*   "prose"     anything else                                              *)
(***************************************************************************)
EXTENDS Naturals, Sequences, SequencesExt

CONSTANTS
    Dialects,       \* the values of CALLING_CONVENTION
    MaxFragments    \* bound: calls and other pieces of one reply

ASSUME TextReplyAssumption ==
    /\ Dialects \subseteq {"ntcode", "xml", "json_block", "gemma"}
    /\ MaxFragments \in Nat

VARIABLES
    dialect,    \* TextToolsProvider.dialect
    text,       \* the reply; later, its calls written back
    meant,      \* history: the calls in the text, as the model meant them
    slips,      \* history: pieces of calls in the text that are no call
    fragments,  \* calls and other pieces written so far
    phase,      \* writing; reading, read; reading again, read again
    pos,        \* find_calls: where it goes on
    spans,      \* find_calls: the calls found so far
    kept        \* history: the arguments of the calls that are written back

vars == <<dialect, text, meant, slips, fragments, phase, pos, spans, kept>>

-----------------------------------------------------------------------------
(***************************************************************************)
(* What the model writes.                                                  *)
(***************************************************************************)

Ending ==
    CASE dialect = "ntcode" -> <<"paren">>
      [] dialect = "gemma"  -> <<"paren", "close">>
      [] OTHER              -> <<"close">>

\* The fragments, if there are any in this dialect.
Only(dialects, written) == IF dialect \in dialects THEN written ELSE {}

Bodies ==
    {<<"args">>, <<"value">>, <<"broken">>, <<"{">> \o Ending \o <<"}">>}
        \cup Only({"ntcode", "gemma"}, {<<>>})
        \cup Only({"gemma"}, {<<"unquoted">>})
        \cup Only({"xml"}, {<<"string">>, <<"quoted">>, <<"text">>})

\* The arguments of a call with this body.
Meant(body) ==
    CASE body \in {<<>>, <<"unquoted">>, <<"quoted">>} -> <<"args">>
      [] body = <<"string">> -> <<"word">>
      [] OTHER -> body

AtLineStart == text # <<>> => Last(text) = "nl"

Writes(fragment) ==
    /\ phase = "writing" /\ fragments < MaxFragments
    /\ text' = text \o fragment
    /\ fragments' = fragments + 1
    /\ UNCHANGED <<dialect, phase, pos, spans, kept>>

\* "a line in the following format and nothing else on that line"
WriteCall ==
    /\ dialect = "ntcode" => AtLineStart
    /\ \E body \in Bodies :
           LET call == <<"open">> \o body \o Ending IN
           /\ Writes(call \o IF dialect = "ntcode" THEN <<"nl">> ELSE <<>>)
           /\ meant' = Append(meant, [from |-> Len(text) + 1,
                                      to   |-> Len(text) + Len(call),
                                      args |-> Meant(body),
                                      after |-> slips])
    /\ UNCHANGED slips

Prose ==
    {<<"prose">>, <<"nl">>}
        \cup Only({"json_block"}, {<<"open", "prose", "close">>})

WriteProse ==
    /\ \E fragment \in Prose : Writes(fragment)
    /\ UNCHANGED <<meant, slips>>

\* A call that is not ended or not begun, or in the midst of a line.
Slips ==
    {<<"open">>, <<"open", "args">>, <<"open", "broken", "nl">>,
     <<"close">>}
        \cup Only({"ntcode", "gemma"},
                  {<<"paren">>, <<"open", "args", "close">>,
                   <<"open", "args", "paren", "prose">>})
        \cup Only({"gemma"}, {<<"bare">>})
        \cup Only({"ntcode"}, {<<"prose", "open", "args", "paren", "nl">>})

WriteSlip ==
    /\ \E fragment \in Slips : Writes(fragment)
    /\ slips' = slips + 1
    /\ UNCHANGED meant

-----------------------------------------------------------------------------
(***************************************************************************)
(* Looking at the text.                                                    *)
(***************************************************************************)

At(i, token) == i \in DOMAIN text /\ text[i] = token

\* The first i from start with P(i), 0 if there is none: re.search, str.find.
First(start, P(_)) ==
    IF \E i \in start..Len(text) : P(i)
    THEN CHOOSE i \in start..Len(text) :
             P(i) /\ \A j \in start..(i - 1) : ~P(j)
    ELSE 0

\* _skip_ws
SkipWs(start) ==
    CHOOSE i \in start..(Len(text) + 1) :
        ~At(i, "nl") /\ \A j \in start..(i - 1) : At(j, "nl")

IsValue(i) ==
    i \in DOMAIN text /\ text[i] \in {"args", "value", "string", "quoted", "text"}

\* Mutant: a value ends where something that ends a call begins.
DecodeUpToEnding(i) == IF IsValue(i) THEN i + 1 ELSE 0

\* _decode_at: where the JSON value at i ends, 0 if there is none.
Decode(i) ==
    IF IsValue(i) THEN i + 1
    ELSE IF At(i, "{") THEN First(i, LAMBDA j : At(j, "}")) + 1
    ELSE 0

\* The value at i and white space are followed by the token.
ValueThen(i, token) == Decode(i) # 0 /\ At(SkipWs(Decode(i)), token)

Value(i) == SubSeq(text, i, Decode(i) - 1)

\* text[from:to].strip(), from being past any white space: it ends after i.
Stripped(from, to) ==
    SubSeq(text, from, CHOOSE i \in (from - 1)..(to - 1) :
        /\ i >= from => ~At(i, "nl")
        /\ \A j \in (i + 1)..(to - 1) : At(j, "nl"))

-----------------------------------------------------------------------------
(***************************************************************************)
(* find_calls: what a turn of its loop makes of the head at h.  Either a    *)
(* call that ends at to, or none (to = 0); the next turn begins at next.    *)
(***************************************************************************)

CallUpTo(to, args) == [to |-> to, args |-> args, next |-> to + 1]
NoCall(next)       == [to |-> 0, args |-> <<>>, next |-> next]
Break              == NoCall(Len(text) + 1)

\* _TAIL: a parenthesis at the end of a line.
NtcodeTail(i) == At(i, "paren") /\ (i = Len(text) \/ At(i + 1, "nl"))

Ntcode(h) ==
    LET arg  == SkipWs(h + 1)
        tail == First(arg, NtcodeTail)
    IN  IF At(arg, "paren") THEN CallUpTo(arg, <<"args">>)
        ELSE IF ValueThen(arg, "paren")
             THEN CallUpTo(SkipWs(Decode(arg)), Value(arg))
        ELSE IF tail # 0 THEN CallUpTo(tail, Stripped(arg, tail))
        ELSE NoCall(h + 1)

IsClose(i) == At(i, "close")

\* A string for arguments is read for the JSON in it; otherwise what it says
\* is raw_arguments.
XmlArgs(object) ==
    CASE object = <<"string">> -> <<"word">>
      [] object = <<"quoted">> -> <<"args">>
      [] OTHER -> object

\* A string without an object is not looked into.
XmlObject(body) == ValueThen(body, "close") /\ ~At(body, "text")

\* Mutant: a call that cannot be read is passed over.
XmlSilently(h) ==
    LET body  == SkipWs(h + 1)
        close == First(body, IsClose)
    IN  IF XmlObject(body)
        THEN CallUpTo(SkipWs(Decode(body)), XmlArgs(Value(body)))
        ELSE IF close # 0 THEN NoCall(close + 1)
        ELSE Break

Xml(h) ==
    LET body  == SkipWs(h + 1)
        close == First(body, IsClose)
    IN  IF XmlObject(body)
        THEN CallUpTo(SkipWs(Decode(body)), XmlArgs(Value(body)))
        ELSE IF close # 0 THEN CallUpTo(close, Stripped(body, close))
        ELSE Break

\* Either fence opens a block, and either closes it.
IsFence(i) == At(i, "open") \/ At(i, "close")

JsonBlock(h) ==
    LET body  == SkipWs(h + 1)
        close == First(h + 1, IsFence)
    IN  IF Decode(body) # 0 /\ IsFence(SkipWs(Decode(body)))
        THEN CallUpTo(SkipWs(Decode(body)), Value(body))
        ELSE IF close # 0 THEN NoCall(close + 1)
        ELSE Break

\* _TAIL: a parenthesis before the closing tag.
GemmaTail(i) == At(i, "paren") /\ At(SkipWs(i + 1), "close")

\* From the call's parenthesis on: the closing tag has to follow.
GemmaClosed(paren, args) ==
    LET after == SkipWs(paren + 1)
    IN  IF At(after, "close") THEN CallUpTo(after, args) ELSE NoCall(after)

\* Mutant: without a closing tag the search begins where it began before.
GemmaBareAgain(h) ==
    LET close == First(h + 1, IsClose)
    IN  NoCall(IF close = 0 THEN h ELSE close + 1)

\* No name and parenthesis: past the closing tag, if there is one.
GemmaBare(h) ==
    LET close == First(h + 1, IsClose)
    IN  NoCall(IF close = 0 THEN h + 1 ELSE close + 1)

GemmaHead(h) ==
    LET arg  == SkipWs(h + 1)
        tail == First(arg, GemmaTail)
        raw  == Stripped(arg, tail)
    IN  IF At(arg, "paren") THEN GemmaClosed(arg, <<"args">>)
        ELSE IF ValueThen(arg, "paren")
             THEN GemmaClosed(SkipWs(Decode(arg)), Value(arg))
        ELSE IF tail # 0
             THEN GemmaClosed(tail, IF raw = <<"unquoted">> THEN <<"args">>
                                    ELSE raw)
        ELSE Break

Gemma(h) == IF At(h, "bare") THEN GemmaBare(h) ELSE GemmaHead(h)

IsHead(i) ==
    CASE dialect = "ntcode" -> At(i, "open") /\ (i = 1 \/ At(i - 1, "nl"))
      [] dialect = "xml"        -> At(i, "open")
      [] dialect = "json_block" -> IsFence(i)
      [] dialect = "gemma"      -> At(i, "open") \/ At(i, "bare")

\* The head that the search from pos on finds.
IsNextHead(h) == h >= pos /\ IsHead(h) /\ \A i \in pos..(h - 1) : ~IsHead(i)

Reading(h) ==
    CASE dialect = "ntcode"     -> Ntcode(h)
      [] dialect = "xml"        -> Xml(h)
      [] dialect = "json_block" -> JsonBlock(h)
      [] dialect = "gemma"      -> Gemma(h)

-----------------------------------------------------------------------------
(***************************************************************************)
(* Writing back: render_call, and to_text, which joins the calls of a       *)
(* message by blank lines.                                                  *)
(***************************************************************************)

\* What is neither a JSON object nor another JSON value is raw_arguments as
\* it was found.
IsJson(args) ==
    args \in {<<"args">>, <<"value">>, <<"{">> \o Ending \o <<"}">>}

\* Mutant: raw arguments are not kept, the call is written back with none.
RenderedEmpty(args) ==
    <<"open">> \o (IF IsJson(args) THEN args ELSE <<"args">>) \o Ending

\* As the arguments of an object: as they are, without the quotes they may
\* have had, so that they are not always JSON.  In xml the raw arguments are
\* also all that was between the tags.
InObject(args) ==
    CASE IsJson(args)      -> args
      [] args = <<"text">> -> <<"string">>
      [] OTHER             -> <<"broken">> \o args \o <<"broken">>

Rendered(args) ==
    IF dialect \in {"xml", "json_block"}
    THEN <<"open", "nl">> \o InObject(args) \o <<"nl", "close">>
    ELSE <<"open">> \o args \o Ending

-----------------------------------------------------------------------------

Init ==
    /\ dialect \in Dialects
    /\ text = <<>> /\ meant = <<>> /\ slips = 0 /\ fragments = 0
    /\ phase = "writing"
    /\ pos = 1 /\ spans = <<>> /\ kept = <<>>

\* The end of the reply; complete hands it to find_calls.
EndReply ==
    /\ phase = "writing"
    /\ phase' = "reading"
    /\ UNCHANGED <<dialect, text, meant, slips, fragments, pos, spans, kept>>

IsReading == phase \in {"reading", "reading again"}

ReadCall ==
    /\ IsReading
    /\ \E h \in DOMAIN text :
           /\ IsNextHead(h)
           /\ LET r == Reading(h) IN
              /\ r.to # 0
              /\ spans' = Append(spans,
                                 [from |-> h, to |-> r.to, args |-> r.args])
              /\ pos' = r.next
    /\ UNCHANGED <<dialect, text, meant, slips, fragments, phase, kept>>

PassOver ==
    /\ IsReading
    /\ \E h \in DOMAIN text :
           /\ IsNextHead(h)
           /\ Reading(h).to = 0
           /\ pos' = Reading(h).next
    /\ UNCHANGED <<dialect, text, meant, slips, fragments, phase, spans,
                   kept>>

EndOfText ==
    /\ IsReading
    /\ ~ \E h \in DOMAIN text : IsNextHead(h)
    /\ phase' = IF phase = "reading" THEN "read" ELSE "read again"
    /\ UNCHANGED <<dialect, text, meant, slips, fragments, pos, spans, kept>>

ArgsOf(found) == [i \in DOMAIN found |-> found[i].args]

\* to_text in the next request; the model may repeat what it sees there.
WriteBack ==
    /\ phase = "read" /\ spans # <<>>
    /\ kept' = ArgsOf(spans)
    /\ text' = FlattenSeq([i \in DOMAIN spans |->
                               Rendered(spans[i].args) \o <<"nl">>])
    /\ phase' = "reading again"
    /\ pos' = 1 /\ spans' = <<>>
    /\ UNCHANGED <<dialect, meant, slips, fragments>>

Finished ==
    /\ \/ phase = "read again"
       \/ phase = "read" /\ spans = <<>>
    /\ UNCHANGED vars

Read == ReadCall \/ PassOver \/ EndOfText

Next == WriteCall \/ WriteProse \/ WriteSlip \/ EndReply \/ Read
            \/ WriteBack \/ Finished

\* The loop of find_calls runs on its own.
Spec == Init /\ [][Next]_vars /\ WF_vars(Read)

-----------------------------------------------------------------------------
(***************************************************************************)
(* Properties.                                                             *)
(***************************************************************************)

\* json_block takes a block without a JSON object for code.
IsCode(call) == dialect = "json_block" /\ call.args = <<"broken">>

Asked == [i \in DOMAIN meant |->
             [from |-> meant[i].from, to |-> meant[i].to,
              args |-> meant[i].args]]

\* Up to the first slip the calls are read where they are, with what they
\* were given, whatever is in their strings, and nothing else is; a reply
\* without a slip is read as it was meant ("may span several lines and may
\* contain the call's closing delimiter inside strings",
\* providers/text_tools.py:15-17).
CallsAreReadAsMeant ==
    phase = "read" =>
        /\ \A i \in DOMAIN meant :
               meant[i].after = 0 /\ ~IsCode(meant[i]) =>
                   Asked[i] \in ToSet(spans)
        /\ slips = 0 => ToSet(spans) \subseteq ToSet(Asked)

\* A call that was written in full is read, or its beginning is in a call
\* reported to the model, whatever slips there are before it: it does not
\* disappear ("so the model is told what was wrong instead of the call
\* silently disappearing", providers/text_tools.py:19-20).  It does in
\* json_block, where a fence too many turns code and text around, and in
\* gemma, where an opening tag without a name hides what follows.
NoCallDisappears ==
    phase = "read" /\ dialect # "json_block" =>
        \A i \in DOMAIN meant :
            \/ Asked[i] \in ToSet(spans)
            \/ \E s \in ToSet(spans) :
                   /\ s.from < meant[i].from /\ meant[i].from <= s.to
                   /\ ~IsJson(s.args)
            \/ dialect = "gemma" /\ \E j \in 1..meant[i].from : At(j, "bare")

\* A call that the model finds in its history is the call it made: read
\* again, it is the same ("written back as the model would have written
\* them", providers/text_tools.py:8-9).  Not so in xml for raw arguments: what a string
\* says is put back without its quotes (text_tools.py:201, 218), and a body
\* that is no object becomes the arguments of one.
WrittenBackAsRead ==
    phase = "read again" =>
        \/ ArgsOf(spans) = kept
        \/ dialect = "xml" /\ \E i \in DOMAIN kept : ~IsJson(kept[i])

\* Whatever the text, the loop ends: every turn gets past the head it began
\* with (providers/text_tools.py:157, 207, 261, 310).
ReadingEnds == IsReading ~> ~IsReading

=============================================================================

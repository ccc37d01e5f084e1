------------------------------ MODULE JiraText ------------------------------
(***************************************************************************)
(* The description of a Jira ticket: a tree (the Atlassian Document        *)
(* Format) that is shown and edited as Markdown, and saved as a tree of    *)
(* plain paragraphs.  The editor is opened and saved, unchanged, again and *)
(* again.                                                                  *)
(*                                                                         *)
(* A word is a pair of the text and the Markdown marks around it, such as  *)
(* <<"a", "**">>.  Markdown is a sequence of lines, each an indentation    *)
(* and words; the last line is the one that is being written, so that text *)
(* which ends in a newline ends in an empty line.                          *)
(***************************************************************************)
EXTENDS Integers, Sequences, SequencesExt

CONSTANTS
    JtDocs,     \* descriptions on the site
    MaxSaves    \* saves (bound)

VARIABLES
    jtDoc,      \* fields.description of the ticket
    jtText,     \* the text in the editor
    jtSaves,    \* saves so far
    jtFirst     \* history: the description as it was at first

jtVars == <<jtDoc, jtText, jtSaves, jtFirst>>

EmptyLine == [ind |-> 0, ws |-> <<>>]
StartText == <<EmptyLine>>
NL(out) == Append(out, EmptyLine)
Put(out, w) == [out EXCEPT ![Len(out)].ws = Append(@, w)]
PutAll(out, ws) == [out EXCEPT ![Len(out)].ws = @ \o ws]
Indent(out, n) == [out EXCEPT ![Len(out)].ind = @ + n]
EndsNL(out) == Len(out) > 1 /\ Last(out) = EmptyLine
EndsNL2(out) == Len(out) > 2 /\ Last(out) = EmptyLine /\ out[Len(out) - 1] = EmptyLine
JtBlank(line) == line.ws = <<>>

(* Lines that hold nothing but spaces are dropped from the end.            *)
TrimEnd(out) ==
    LET full == {i \in 1..Len(out) : ~JtBlank(out[i])}
    IN  IF full = {} THEN StartText
        ELSE SubSeq(out, 1, CHOOSE i \in full : \A j \in full : j <= i)

Sign(s) == <<s, "sign">>
----------------------------------------------------------------------------
(* Reading: jira_description_to_markdown.                                  *)

MarkedWordEscaped(w) ==
    <<w[1], CASE w[2] = "" -> "esc" [] w[2] = "esc" -> "escaped twice" [] OTHER -> w[2]>>

(* Marks go around the text, colours and underlines are dropped; text      *)
(* without marks is taken as it is.                                        *)
MarkedWord(w) == IF w[2] \in {"underline", "textColor"} THEN <<w[1], "">> ELSE w

(* Text, hard breaks, mentions and the like; what else has content is      *)
(* looked into.  A status or a date keeps its text in an attribute and has *)
(* no content, so nothing of it is written.                                *)
RECURSIVE Inline(_, _)
Inline(out, content) ==
    IF content = <<>> THEN out
    ELSE LET c == Head(content)
             now == CASE c.t = "text" -> Put(out, MarkedWord(c.w))
                      [] c.t = "lines" -> FoldLeft(LAMBDA o, l : PutAll(Indent(NL(o), l.ind), l.ws),
                                            PutAll(Indent(out, c.c[1].ind), [i \in 1..Len(c.c[1].ws) |-> MarkedWord(c.c[1].ws[i])]),
                                            [i \in 1..Len(c.c) - 1 |->
                                              [c.c[i + 1] EXCEPT !.ws = [j \in 1..Len(@) |-> MarkedWord(@[j])]]])
                      [] c.t = "hardBreak" -> NL(IF JtBlank(Last(out)) THEN Indent(out, 2) ELSE out)
                      [] c.t = "mention" -> Put(out, c.w)
                      [] c.t \in {"status", "date"} -> out
                      [] OTHER -> Inline(out, c.c)
         IN  Inline(now, Tail(content))

RECURSIVE Block(_, _, _), JtBlocks(_, _, _), ListItem(_, _, _, _), ItemFirstOnly(_, _, _, _)

ItemFirstOnly(item, out, depth, bullet) ==
    LET head == Put(Indent(out, 4 * depth), bullet)
    IN  IF item.c = <<>> THEN out ELSE NL(NL(Inline(head, item.c[1].c)))

(* The first block of an item stands on the line of its bullet, those that *)
(* follow are indented; an item ends in an empty line.                     *)
ListItem(item, out, depth, bullet) ==
    LET head == Put(Indent(out, 4 * depth), bullet)
        fst == item.c[1]
        first == CASE fst.t = "paragraph" -> NL(Inline(head, fst.c))
                   [] fst.t = "list" -> Block(fst, NL(head), depth + 1)
                   [] OTHER -> LET b == TrimEnd(Block(fst, StartText, depth + 1))
                               IN  NL(PutAll(head, b[1].ws) \o Tail(b))
        rest == FoldLeft(LAMBDA o, b : Block(b, Indent(o, 4 * depth + 2), depth + 1),
                         first, Tail(item.c))
        done == IF item.c = <<>> THEN out ELSE rest
    IN  IF EndsNL(done) /\ ~EndsNL2(done) THEN NL(done) ELSE done

Quoted(inner, out) ==
    FoldLeft(LAMBDA o, l : NL(PutAll(Put(o, Sign(">")), l.ws)), out,
             IF EndsNL(inner) THEN Front(inner) ELSE inner)

Block(node, out, depth) ==
    CASE node.t = "paragraph" -> NL(NL(Inline(out, node.c)))
      [] node.t = "heading" -> NL(NL(Inline(Put(out, Sign("#")), node.c)))
      [] node.t = "list" -> FoldLeft(LAMBDA o, i : ListItem(i, o, depth, Sign(node.bullet)), out, node.c)
      [] node.t = "codeBlock" ->
           LET code == Inline(NL(Put(out, Sign("fence"))), node.c)
               open == IF EndsNL(code) THEN code ELSE NL(code)
           IN  NL(NL(Put(open, Sign("fence"))))
      [] node.t = "blockquote" ->
           NL(FoldLeft(LAMBDA o, c : Quoted(Block(c, StartText, depth), o), out, node.c))
      [] node.t = "rule" -> NL(NL(Put(out, Sign("---"))))
      [] node.t = "text" -> Put(out, MarkedWord(node.w))
      [] OTHER -> JtBlocks(node.c, out, depth)

JtBlocks(nodes, out, depth) ==
    FoldLeft(LAMBDA o, n : Block(n, o, depth), out, nodes)

ToMarkdown(doc) == TrimEnd(JtBlocks(doc, StartText, 0))
----------------------------------------------------------------------------
(* Saving: update_description, markdown_to_adf.                            *)

TrimStart(lines) ==
    LET full == {i \in 1..Len(lines) : ~JtBlank(lines[i])}
    IN  IF full = {} THEN <<>>
        ELSE LET f == CHOOSE i \in full : \A j \in full : i <= j
             IN  <<[lines[f] EXCEPT !.ind = 0]>> \o SubSeq(lines, f + 1, Len(lines))

(* Paragraphs between empty lines, each without the space around it, and   *)
(* the empty ones left out: a text node each, with its newlines inside.    *)
Split(text) ==
    FoldLeft(LAMBDA acc, l : IF l = EmptyLine THEN Append(acc, <<>>)
                             ELSE [acc EXCEPT ![Len(acc)] = Append(@, l)],
             << <<>> >>, text)

MarkdownToAdf(text) ==
    LET trimmed == [i \in 1..Len(Split(text)) |-> TrimStart(Split(text)[i])]
        kept == SelectSeq(trimmed, LAMBDA p : p # <<>>)
    IN  IF kept = <<>> THEN <<[t |-> "paragraph", c |-> <<>>]>>
        ELSE [i \in 1..Len(kept) |->
               [t |-> "paragraph", c |-> <<[t |-> "lines", c |-> kept[i]]>>]]
----------------------------------------------------------------------------
JtInit == jtDoc \in JtDocs /\ jtFirst = jtDoc /\ jtText = StartText /\ jtSaves = 0

OpenEditor ==
    /\ jtText' = ToMarkdown(jtDoc)
    /\ UNCHANGED <<jtDoc, jtSaves, jtFirst>>

SaveDescription ==
    /\ jtText # StartText /\ jtSaves < MaxSaves
    /\ jtDoc' = MarkdownToAdf(jtText) /\ jtSaves' = jtSaves + 1
    /\ UNCHANGED <<jtText, jtFirst>>

JtNext == OpenEditor \/ SaveDescription
JtSpec == JtInit /\ [][JtNext]_jtVars
----------------------------------------------------------------------------
(* The words of a description, in order, each with the place that holds    *)
(* it: the text of a node, or an attribute that only the site shows (the   *)
(* lozenge of a status, a date, the title of an expand).                   *)
RECURSIVE WordsOf(_)
WordsOf(node) ==
    CASE node.t \in {"text", "mention"} -> << <<node.w[1], "text">> >>
      [] node.t \in {"status", "date"} -> << <<node.w[1], "attribute">> >>
      [] node.t \in {"hardBreak", "rule"} -> <<>>
      [] node.t = "lines" -> FlattenSeq([i \in 1..Len(node.c) |->
            LET ws == SelectSeq(node.c[i].ws, LAMBDA w : w[2] # "sign")
            IN  [j \in 1..Len(ws) |-> <<ws[j][1], "text">>]])
      [] OTHER -> (IF node.t = "expand" THEN << <<node.title, "attribute">> >> ELSE <<>>)
                  \o FlattenSeq([i \in 1..Len(node.c) |-> WordsOf(node.c[i])])

DocWords(doc) == FlattenSeq([i \in 1..Len(doc) |-> WordsOf(doc[i])])
InText(words) == SelectSeq(words, LAMBDA w : w[2] = "text")

(* However the tree is nested, the first save keeps every word of the text *)
(* once and in its place, and no word that stands in an attribute only     *)
(* (adf_markdown.rs reads neither the lozenge of a status, nor a date that *)
(* is not a number, nor the title of an expand); the saves that follow     *)
(* keep what is left.                                                      *)
WordsKept ==
    IF jtSaves = 0 THEN jtDoc = jtFirst
    ELSE DocWords(jtDoc) = InText(DocWords(jtFirst))

(* Saving what the editor shows changes the ticket once: the first save   *)
(* flattens it to paragraphs, and however often it is opened and saved     *)
(* after that, the description stays as that save left it.                 *)
SaveSettles == [][SaveDescription /\ jtSaves > 0 => jtDoc' = jtDoc]_jtVars

(* "... so the text round-trips": what is shown after a save is what was   *)
(* saved.  Not so: the indentation of a line after an empty line goes.     *)
TextRoundTrips == [][OpenEditor /\ jtSaves > 0 => jtText' = jtText]_jtVars

(* A description that is opened and saved keeps the words of its text,     *)
(* loses those of its attributes, and settles.                             *)
TextSettles == []WordsKept /\ SaveSettles

============================================================================

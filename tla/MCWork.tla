------------------------------- MODULE MCWork -------------------------------
(***************************************************************************)
(* What the work on a ticket needs: its worktree, the agent session, the   *)
(* flows, the texts it exchanges with Jira, the clients that are installed,*)
(* the database the server came up with, the log, the marks of merged pull *)
(* requests and the locks of the handlers.  The modules share no           *)
(* variable, so a behaviour of them all is one of each: the run explores   *)
(* them one at a time, with the others in one initial state.               *)
(***************************************************************************)
EXTENDS TicketWorktree, AgentSession, UserSettings, DatabaseStart, JiraText,
        AgentClients, ServerTasks, TLC

VARIABLE part
Others == <<vars, asVars, fgVars, usVars, dbVars, jtVars, clVars, lgVars, prVars, lkVars>>
NotAdded == <<vars, asVars, fgVars, usVars, dbVars, jtVars, clVars>>
Added == <<lgVars, prVars, lkVars>>

----------------------------------------------------------------------------
(* Descriptions: every block inside every other, as far as the conversion  *)
(* of rest.rs tells them apart.                                            *)
Words(w) == [t |-> "text", w |-> w]
Para(w) == [t |-> "paragraph", c |-> <<Words(<<w, "">>)>>]
Marked == [t |-> "paragraph",
           c |-> <<Words(<<"a", "**">>), [t |-> "hardBreak"],
                   [t |-> "mention", w |-> <<"b", "">>], [t |-> "status", w |-> <<"s", "">>],
                Words(<<"c", "underline">>), [t |-> "date", w |-> <<"d", "">>]>>]
CodeBlock ==
    [t |-> "codeBlock",
     c |-> <<[t |-> "lines",
              c |-> <<[ind |-> 0, ws |-> <<<<"a", "">>>>], EmptyLine,
                      [ind |-> 2, ws |-> <<<<"b", "">>>>]>>]>>]
Heading == [t |-> "heading", c |-> <<Words(<<"h", "">>)>>]
BulletList(bs) ==
    [t |-> "list", bullet |-> "-",
     c |-> [i \in 1..Len(bs) |-> [t |-> "listItem", c |-> bs[i]]]]
SmallList == BulletList(<<<<Para("y")>>, <<Para("z")>>>>)
SimpleBlocks == {Para("a"), Marked, CodeBlock, Heading}
InnerBlocks == {Para("x"), CodeBlock, SmallList}
ItemBlocks == {<<b>> : b \in InnerBlocks} \cup {<<b, c>> : b \in InnerBlocks, c \in InnerBlocks}
ListBlocks == {BulletList(<<i>>) : i \in ItemBlocks}
              \cup {BulletList(<<i, j>>) : i \in ItemBlocks, j \in ItemBlocks}
QuoteBlocks == {[t |-> "blockquote", c |-> <<b>>] : b \in SimpleBlocks \cup {SmallList}}
OtherBlocks == {[t |-> "panel", c |-> <<b, c>>] : b \in SimpleBlocks, c \in SimpleBlocks}
               \cup {[t |-> "expand", title |-> "e", c |-> <<b>>] : b \in SimpleBlocks}
               \cup {[t |-> "rule", c |-> <<>>], [t |-> "paragraph", c |-> <<>>]}
MCDocs ==
    {<<b>> : b \in SimpleBlocks \cup ListBlocks \cup QuoteBlocks \cup OtherBlocks}
    \cup {<<b, c>> : b \in SimpleBlocks \cup QuoteBlocks \cup OtherBlocks,
                     c \in SimpleBlocks \cup {BulletList(<<i>>) : i \in ItemBlocks}}

----------------------------------------------------------------------------
MCInit ==
    /\ part \in {"worktree", "session", "files", "settings", "database", "text", "clients",
                "log", "pulls", "locks"}
    /\ part # "session" => asProvider = "claude" /\ asStream = TRUE /\ asResume = FALSE
    /\ part # "files" =>
         /\ fgDefs = [f \in Files |-> [kind |-> "agent", deps |-> <<>>]]
         /\ fgRoots = CHOOSE s \in SetToSeqs(Files) : TRUE
    /\ part # "database" => dbKind = "mysql"
    /\ part # "text" => jtDoc = <<>> /\ jtFirst = <<>> /\ jtText = StartText /\ jtSaves = 0
    /\ part = "text" => JtInit
    /\ FgInit
    /\ part = "files" => Cardinality({f \in Files : fgDefs[f].kind # "agent"}) <= 1
    /\ Init /\ SessInit /\ UsInit /\ DbInit /\ ClInit
    /\ LogInit /\ PrInit /\ LkInit
    /\ part = "clients" => (clPlat = {} <=> clConf.prov = "claude")
    /\ part # "clients" => /\ clConf.prov = "claude" /\ clPlat = {}
                           /\ clHost.login # {} /\ clHost.gh = "none"

MCNext ==
    \/ part = "worktree" /\ Next
          /\ UNCHANGED <<part, asVars, fgVars, usVars, dbVars, jtVars, clVars, Added>>
    \/ part = "session" /\ SessNext
          /\ UNCHANGED <<part, vars, fgVars, usVars, dbVars, jtVars, clVars, Added>>
    \/ part = "files" /\ FgNext
          /\ UNCHANGED <<part, vars, asVars, usVars, dbVars, jtVars, clVars, Added>>
    \/ part = "settings" /\ UsNext
          /\ UNCHANGED <<part, vars, asVars, fgVars, dbVars, jtVars, clVars, Added>>
    \/ part = "database" /\ DbNext
          /\ UNCHANGED <<part, vars, asVars, fgVars, usVars, jtVars, clVars, Added>>
    \/ part = "text" /\ JtNext
          /\ UNCHANGED <<part, vars, asVars, fgVars, usVars, dbVars, clVars, Added>>
    \/ part = "clients" /\ ClNext
          /\ UNCHANGED <<part, vars, asVars, fgVars, usVars, dbVars, jtVars, Added>>
    \/ part = "log" /\ LogNext /\ UNCHANGED <<part, NotAdded, prVars, lkVars>>
    \/ part = "pulls" /\ PrNext /\ UNCHANGED <<part, NotAdded, lgVars, lkVars>>
    \/ part = "locks" /\ LkNext /\ UNCHANGED <<part, NotAdded, lgVars, prVars>>
mcVars == <<part, Others>>
MCSpec == MCInit /\ [][MCNext]_mcVars
=============================================================================

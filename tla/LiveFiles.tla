----------------------------- MODULE LiveFiles -----------------------------
(***************************************************************************)
(* What live mode does to the project's files: live-wrap puts the chosen   *)
(* element into a wrapper, the agent writes variants into it, live-accept  *)
(* replaces the wrapper by a variant or by the original, the agent cleans  *)
(* up after an accept, live-inject puts the script tag into the pages.     *)
(* The scripts edit text by markers and by counting tags; a file is        *)
(* modelled as its lines, and of a line what the scripts look for: what it *)
(* opens or closes, the class or the text in it, its session, its variant  *)
(* and its indentation, in steps of two spaces.                            *)
(***************************************************************************)
EXTENDS Places, SequencesExt

CONSTANTS
  Sessions, None,
  Variants,     \* the number of variants
  Elements,     \* what can be picked
  TagOf, ClassOf,
  TwoLines,     \* elements whose class is on the second line of their tag
  Short,        \* elements whose text has less than eight characters
  Files,
  Jsx,          \* files with JSX comments
  Generated,    \* files that isGeneratedFile knows, by git or by their header
  Page, Output, \* a build copies Page to Output
  OutputFirst,  \* Output is in a directory that is searched before Page's
  Configured,   \* config.files
  Ports,
  Source,       \* the files before
  MaxBuilds

ASSUME ConstantsAssumption ==
  /\ None \notin Sessions \cup Elements
  /\ Variants \in Nat /\ MaxBuilds \in Nat
  /\ \A e \in Elements : TagOf[e] \notin {"nothing", "script", "style", "meta"}
  /\ TwoLines \subseteq Elements /\ Short \subseteq Elements
  /\ Jsx \subseteq Files /\ Generated \subseteq Files /\ Configured \subseteq Files
  /\ Page \in Files \ Generated /\ Output \in Generated /\ OutputFirst \in BOOLEAN

VARIABLES
  project,  \* the lines of each file
  phase,    \* how far each session is
  chosen,   \* the variant a session was accepted with, or 0
  picked,   \* the text that live-wrap was called with
  insert,   \* insertBefore or insertAfter, of config.json
  builds

vars == <<project, phase, chosen, picked, insert, builds>>

-----------------------------------------------------------------------------
(* Lines *)

\* A line of the element of, in the version n of session by; version 0 is
\* the source's own.
Line(kind, of, by, n, in) == [kind |-> kind, of |-> of, by |-> by, n |-> n, in |-> in]
Mark(kind, s, in) == Line(kind, None, s, 0, in)
Blank == Mark("blank", None, 0)

IsBlank(l) == l.kind = "blank"
IsUsers(l) == l.kind \in {"open", "attribute", "text", "close", "policy", "anchor"}
IsStyle(l) == l.kind \in {"style", "css", "styleEnd"}

\* The tag that a line opens or closes.
Opens(l) ==
  CASE l.kind = "open" -> TagOf[l.of]
    [] l.kind \in {"outer", "variant", "accepted"} -> "div"
    [] l.kind \in {"style", "script"} -> l.kind
    [] l.kind = "policy" -> "meta"
    [] OTHER -> "nothing"
Closes(l) ==
  CASE l.kind = "close" -> TagOf[l.of]
    [] l.kind \in {"outerEnd", "variantEnd"} -> "div"
    [] l.kind \in {"styleEnd", "script"} -> IF l.kind = "script" THEN "script" ELSE "style"
    [] l.kind = "policy" -> "meta"
    [] OTHER -> "nothing"

Lines(f, a, b, P(_)) == {k \in a..b : k \in DOMAIN f /\ P(f[k])}
First(S, otherwise) == IF S = {} THEN otherwise ELSE Min(S)
Enclosed(a, ls, b) == <<a>> \o ls \o <<b>>

\* The nesting of tag from line a to line b.
Depth(f, tag, a, b) ==
  Cardinality(Lines(f, a, b, LAMBDA l : Opens(l) = tag))
    - Cardinality(Lines(f, a, b, LAMBDA l : Closes(l) = tag))

\* minLeadingSpaces
Base(ls) ==
  LET used == {k \in DOMAIN ls : ~IsBlank(ls[k])}
  IN IF used = {} THEN 0 ELSE Min({ls[k].in : k \in used})

\* Mutant: every line gets the same indentation.
Flattened(ls, to) ==
  [k \in DOMAIN ls |-> IF IsBlank(ls[k]) THEN Blank ELSE [ls[k] EXCEPT !.in = to]]

\* Mutant: blank lines are cut like the others.
BlanksToo(ls, to) == [k \in DOMAIN ls |-> [ls[k] EXCEPT !.in = to + (@ - Base(ls))]]

\* deindentContent, and reindentOriginal: the lines at the indentation to,
\* their depths relative to each other kept.
Reindented(ls, to) ==
  [k \in DOMAIN ls |-> IF IsBlank(ls[k]) THEN Blank ELSE [ls[k] EXCEPT !.in = to + (@ - Base(ls))]]

Spliced(f, range, ls) ==
  SubSeq(f, 1, range[1] - 1) \o ls \o SubSeq(f, range[2] + 1, Len(f))

-----------------------------------------------------------------------------
(* live-wrap *)

HasClass(l, class) ==
  /\ l.of \in Elements /\ ClassOf[l.of] = class
  /\ l.kind = IF l.of \in TwoLines THEN "attribute" ELSE "open"

\* findOpenerLine: the line itself, or the first tag above it, at most ten
\* lines up; it has to be the tag that was picked.
OpenerLine(f, k, tag) ==
  LET at == IF Opens(f[k]) # "nothing" THEN k
            ELSE LET above == Lines(f, k - 10, k - 1, LAMBDA l : Opens(l) # "nothing")
                 IN IF above = {} THEN 0 ELSE Max(above)
  IN IF at # 0 /\ Opens(f[at]) = tag THEN at ELSE 0

\* Mutant: the first closing tag ends the element.
FirstClosingLine(f, k) ==
  First(Lines(f, k, Len(f), LAMBDA l : Closes(l) = Opens(f[k])), Len(f))

\* findClosingLine, with its guess for a tag that is not closed.
ClosingLine(f, k) ==
  First({m \in k..Len(f) : Depth(f, Opens(f[k]), k, m) <= 0}, Min({k + 50, Len(f)}))

\* findAllElements
Candidates(f, e) ==
  {<<k, ClosingLine(f, k)>> :
     k \in {OpenerLine(f, c, TagOf[e]) :
              c \in Lines(f, 1, Len(f), LAMBDA l : HasClass(l, ClassOf[e]))} \ {0}}

\* Mutant: among several candidates the first is taken, whatever its text.
FirstOfAll(f, cs, text) == {c \in cs : \A d \in cs : c[1] <= d[1]}

\* Whether the text is a line of the lines from a to b.
HasText(f, a, b, text) ==
  \E k \in a..b : f[k].kind = "text" /\ <<f[k].of, f[k].by, f[k].n>> = text

\* filterByText: a short text is too weak to tell candidates apart, and no
\* candidate has it.
FilterByText(f, cs, text) ==
  IF text[1] \in Short THEN {} ELSE {c \in cs : HasText(f, c[1], c[2], text)}

\* The element that is wrapped: the only candidate, the only one with the
\* text; the first, without a text or if no candidate has it; none if
\* several have it.
Match(f, cs, text) ==
  LET first == {c \in cs : \A d \in cs : c[1] <= d[1]}
      having == FilterByText(f, cs, text)
  IN IF Cardinality(cs) <= 1 THEN cs
     ELSE IF text = None \/ having = {} THEN first
     ELSE IF Cardinality(having) = 1 THEN having
     ELSE {}

Wrapper(s, original, in, jsx) ==
  LET marked(ls, at) == Enclosed(Mark("start", s, at), ls, Mark("end", s, at))
      outer(ls) == Enclosed(Mark("outer", s, in), ls, Mark("outerEnd", s, in))
      slot == Enclosed(Mark("variant", s, in + 1), Reindented(original, in + 2), Mark("variantEnd", s, in + 1))
      inner == Enclosed(Mark("note", s, in + 1), slot, Mark("insert", s, in + 1))
  IN IF jsx THEN outer(marked(inner, in + 1)) ELSE marked(outer(inner), in)

\* isGeneratedFile
IsGenerated(f) == f \in Generated

\* wrapCli in file f, the one given or the first that is not generated and
\* has the class, for an element with the class and the tag of e.
Wrap(s, f, e, text) ==
  /\ phase[s] = "new"
  /\ ~IsGenerated(f)
  /\ \E r \in Match(project[f], Candidates(project[f], e), text) :
       project' = [project EXCEPT ![f] =
         Spliced(@, r, Wrapper(s, SubSeq(@, r[1], r[2]), @[r[1]].in, f \in Jsx))]
  /\ phase' = [phase EXCEPT ![s] = "wrapped"]
  /\ picked' = [picked EXCEPT ![s] = text]
  /\ UNCHANGED <<chosen, insert, builds>>

-----------------------------------------------------------------------------
(* The agent writes the variants below the insert line, with CSS or not. *)

\* Variant n of the elements that the original slot of session s, at line
\* slot, was written around.
Variant(f, s, n, slot, in) ==
  LET original == SubSeq(f, slot + 1, ClosingLine(f, slot) - 1)
      elements == Picked(original, {j \in DOMAIN original :
                    LET l == original[j]
                    IN l.of # None /\ l.by = original[1].by /\ l.n = original[1].n})
  IN Enclosed(Line("variant", None, s, n, in),
              [j \in DOMAIN elements |-> [elements[j] EXCEPT !.by = s, !.n = n]],
              Mark("variantEnd", s, in))

WriteVariants(s, css) ==
  /\ phase[s] = "wrapped"
  /\ \E f \in Files \ Generated :
       \E k \in Lines(project[f], 1, Len(project[f]), LAMBDA l : l.kind = "insert" /\ l.by = s),
          slot \in Lines(project[f], 1, Len(project[f]),
                        LAMBDA l : l.kind = "variant" /\ l.by = s /\ l.n = 0) :
         LET in == project[f][k].in
             style == Enclosed(Mark("style", s, in), <<Mark("css", s, in + 1)>>, Mark("styleEnd", s, in))
             variants == [n \in 1..Variants |-> Variant(project[f], s, n, slot, in)]
         IN project' = [project EXCEPT ![f] =
              Spliced(@, <<k, k>>, <<@[k]>> \o (IF css THEN style ELSE <<>>) \o FlattenSeq(variants))]
  /\ phase' = [phase EXCEPT ![s] = "shown"]
  /\ UNCHANGED <<chosen, picked, insert, builds>>

-----------------------------------------------------------------------------
(* live-accept *)

\* findMarkerBlock: the first start marker and the first end marker, unless
\* the end comes first.
MarkerBlock(f, s) ==
  LET starts == Lines(f, 1, Len(f), LAMBDA l : l.kind = "start" /\ l.by = s)
      ends == Lines(f, 1, Len(f), LAMBDA l : l.kind = "end" /\ l.by = s)
  IN {r \in starts \X ends :
        r[1] < r[2] /\ (\A c \in starts : r[1] <= c) /\ (\A c \in ends : r[2] <= c)}

\* expandReplaceRange: in JSX the markers are inside of the wrapper; look for
\* its tag above them and for the end of that tag below them.
ReplaceRange(f, block, jsx) ==
  IF ~jsx THEN block
  ELSE LET above == Lines(f, block[1] - 12, block[1] - 1, LAMBDA l : l.kind = "outer")
           start == IF above = {} THEN block[1] ELSE Max(above)
       IN <<start, First({m \in block[2]..Len(f) : Depth(f, "div", start, m) <= 0}, block[2])>>

\* stripStyleAndJoin: of a style element only its tags' line breaks stay.
Stripped(ls) ==
  LET kept == Picked(ls, {k \in DOMAIN ls : ls[k].kind # "css"})
  IN [k \in DOMAIN kept |-> IF IsStyle(kept[k]) THEN Blank ELSE kept[k]]

\* extractInnerByAttr: what is between the first tag with the attribute of
\* variant n, whosever it is, and the tag's end; the rests of the lines of
\* the two tags are blank lines.
Inner(ls, n) ==
  LET k == First(Lines(ls, 1, Len(ls), LAMBDA l : l.kind \in {"variant", "accepted"} /\ l.n = n), 0)
      closing == {m \in (k + 1)..Len(ls) : k # 0 /\ Depth(ls, "div", k, m) = 0}
  IN IF closing = {} THEN {}
     ELSE {<<Blank>> \o SubSeq(ls, k + 1, Min(closing) - 1) \o <<Blank>>}

\* extractVariant cuts blank lines off, but for the last one.
Trimmed(ls) ==
  LET used == {k \in DOMAIN ls : ~IsBlank(ls[k])}
  IN IF used = {} THEN <<Blank>> ELSE SubSeq(ls, Min(used), Max(used))

\* extractCss: the lines of the first style element of the session.
Css(f, block, s) ==
  LET style == First(Lines(f, block[1], block[2], LAMBDA l : l.kind = "style" /\ l.by = s), 0)
  IN IF style = 0 THEN <<>>
     ELSE SubSeq(f, style + 1,
            First(Lines(f, style, block[2], LAMBDA l : l.kind = "styleEnd"), block[2] + 1) - 1)

\* The replacement: with CSS the variant stays in a tag for the CSS to
\* refer to, until the agent has cleaned up.
Replacement(s, n, variant, css, in) ==
  IF css = <<>> THEN Reindented(variant, in)
  ELSE LET style == Enclosed(Mark("style", s, in), [k \in DOMAIN css |-> [css[k] EXCEPT !.in = in]],
                             Mark("styleEnd", s, in))
       IN Enclosed(Mark("carbonStart", s, in), style, Mark("carbonEnd", s, in))
            \o Enclosed(Line("accepted", None, s, n, in), Reindented(variant, in),
                        Mark("variantEnd", s, in))

\* findSessionFile: the first file in the order of the search that has the
\* start marker, generated or not.  A second one can only be in the build's
\* output.
SessionFile(s) ==
  {f \in Files : MarkerBlock(project[f], s) # {}
     /\ \A g \in Files \ {f} : MarkerBlock(project[g], s) # {} => (f = Output) = OutputFirst}

\* handleAccept, unless the session is in a generated file.  The variant may
\* be missing; then nothing is written.
Accept(s, n) ==
  \E f \in SessionFile(s) :
    \E block \in MarkerBlock(project[f], s) :
      \E variant \in Inner(Stripped(SubSeq(project[f], block[1], block[2])), n) :
        LET range == ReplaceRange(project[f], block, f \in Jsx)
        IN
        /\ ~IsGenerated(f)
        /\ project' = [project EXCEPT ![f] =
             Spliced(@, range,
               Replacement(s, n, Trimmed(variant), Css(@, block, s), @[range[1]].in))]
        /\ phase' = [phase EXCEPT ![s] = "closed"]
        /\ chosen' = [chosen EXCEPT ![s] = n]
        /\ UNCHANGED <<picked, insert, builds>>

\* handleDiscard; without an original the wrapper goes and nothing comes.
Discard(s) ==
  \E f \in SessionFile(s) :
    \E block \in MarkerBlock(project[f], s) :
      LET range == ReplaceRange(project[f], block, f \in Jsx)
          inner == Inner(Stripped(SubSeq(project[f], block[1], block[2])), 0)
          original == IF inner = {} THEN <<>> ELSE CHOOSE ls \in inner : TRUE
      IN
      /\ ~IsGenerated(f)
      /\ project' = [project EXCEPT ![f] = Spliced(@, range, Reindented(original, @[range[1]].in))]
      /\ phase' = [phase EXCEPT ![s] = "closed"]
      /\ UNCHANGED <<chosen, picked, insert, builds>>

\* After an accept with CSS the agent moves the CSS to a stylesheet and
\* takes the accepted variant out of its tag.
CleanUp(s) ==
  \E f \in Files \ Generated :
    \E k \in Lines(project[f], 1, Len(project[f]), LAMBDA l : l.kind = "carbonStart" /\ l.by = s) :
      \E tag \in Lines(project[f], k, Len(project[f]), LAMBDA l : l.kind = "accepted" /\ l.by = s) :
        LET end == First(Lines(project[f], k, tag, LAMBDA l : l.kind = "carbonEnd"), k)
        IN project' = [project EXCEPT ![f] =
             Picked(@, DOMAIN @ \ ((k..end) \cup {tag, ClosingLine(@, tag)}))]
  /\ UNCHANGED <<phase, chosen, picked, insert, builds>>

-----------------------------------------------------------------------------
(* live-inject *)

\* A line that is a script of the helper at port, or a policy that lets it in.
At(kind, port, in) == Line(kind, None, None, port, in)

\* removeTag: from the first start marker to the next end marker; the
\* indentation of the start marker goes to the line below.
RemoveTag(f) ==
  LET start == First(Lines(f, 1, Len(f), LAMBDA l : l.kind = "tagStart"), 0)
      end == First(Lines(f, start, Len(f), LAMBDA l : l.kind = "tagEnd"), 0)
  IN IF start = 0 \/ end = 0 THEN f
     ELSE LET rest == SubSeq(f, end + 1, Len(f))
          IN SubSeq(f, 1, start - 1)
               \o [k \in DOMAIN rest |->
                     IF k = 1 THEN [rest[1] EXCEPT !.in = @ + f[start].in] ELSE rest[k]]

\* insertTag: before the last anchor, after its indentation, or below the
\* first one.
InsertTag(f, port, where) ==
  LET anchors == Lines(f, 1, Len(f), LAMBDA l : l.kind = "anchor")
      tag(in) == <<At("tagStart", None, in), At("script", port, 0), At("tagEnd", None, 0)>>
  IN IF anchors = {} THEN f
     ELSE IF where = "before"
     THEN LET k == Max(anchors)
          IN Spliced(f, <<k, k>>, tag(f[k].in) \o <<[f[k] EXCEPT !.in = 0]>>)
     ELSE LET k == Min(anchors) IN Spliced(f, <<k, k>>, <<f[k]>> \o tag(0))

\* patchCspMeta: a policy that is patched already stays; n is the port that
\* the policy lets in, or 0 for the author's own.
PatchCspMeta(f, port) ==
  [k \in DOMAIN f |-> IF f[k].kind = "policy" /\ f[k].n = 0 THEN [f[k] EXCEPT !.n = port] ELSE f[k]]

\* revertCspMeta
RevertCspMeta(f) ==
  [k \in DOMAIN f |-> IF f[k].kind = "policy" THEN [f[k] EXCEPT !.n = 0] ELSE f[k]]

\* Mutant: the old policy is not taken back first.
InjectedOver(f, port, where) ==
  LET without == RemoveTag(f)
      with == InsertTag(without, port, where)
  IN IF with = without THEN f ELSE PatchCspMeta(with, port)

\* live-inject --port on one file: without an anchor it stays as it is, with
\* an old tag if it has one.
Injected(f, port, where) ==
  LET without == RevertCspMeta(RemoveTag(f))
      with == InsertTag(without, port, where)
  IN IF with = without THEN f ELSE PatchCspMeta(with, port)

Inject(port) ==
  /\ project' = [f \in Files |-> IF f \in Configured THEN Injected(project[f], port, insert) ELSE project[f]]
  /\ UNCHANGED <<phase, chosen, picked, insert, builds>>

\* live-inject --remove
RemoveAll ==
  /\ project' = [f \in Files |->
       IF f \in Configured THEN RevertCspMeta(RemoveTag(project[f])) ELSE project[f]]
  /\ UNCHANGED <<phase, chosen, picked, insert, builds>>

\* The project's own build.  It may run at any time; the builds that matter
\* to a session are those that copy its variants.
Build ==
  /\ builds < MaxBuilds
  /\ \E s \in Sessions : phase[s] = "shown"
  /\ builds' = builds + 1
  /\ project' = [project EXCEPT ![Output] = project[Page]]
  /\ UNCHANGED <<phase, chosen, picked, insert>>

-----------------------------------------------------------------------------
Init ==
  /\ project = Source
  /\ phase = [s \in Sessions |-> "new"]
  /\ chosen = [s \in Sessions |-> 0]
  /\ picked = [s \in Sessions |-> None]
  /\ insert \in {"before", "after"}
  /\ builds = 0

\* The text of the element that was picked, as a line has it.
Texts(f, e) ==
  {<<e, l.by, l.n>> : l \in {m \in Range(project[f]) : m.kind = "text" /\ m.of = e}}

Next ==
  \/ \E s \in Sessions, f \in Files, e \in Elements :
       \E text \in Texts(f, e) \cup {None} : Wrap(s, f, e, text)
  \/ \E s \in Sessions : (\E css \in BOOLEAN : WriteVariants(s, css)) \/ Discard(s) \/ CleanUp(s)
  \/ \E s \in Sessions, n \in 1..Variants : Accept(s, n)
  \/ \E port \in Ports : Inject(port)
  \/ RemoveAll \/ Build

Spec == Init /\ [][Next]_vars

-----------------------------------------------------------------------------
(* Properties *)

Kinds ==
  {"open", "attribute", "text", "close", "policy", "anchor", "blank",
   "start", "outer", "note", "variant", "variantEnd", "insert", "outerEnd", "end",
   "carbonStart", "style", "css", "styleEnd", "carbonEnd", "accepted",
   "tagStart", "script", "tagEnd"}

AllLines ==
  [kind : Kinds, of : Elements \cup {None}, by : Sessions \cup {None},
   n : (0..Variants) \cup Ports \cup {None}, in : Nat]

TypeOK ==
  /\ \A f \in Files : project[f] \in Seq(AllLines)
  /\ phase \in [Sessions -> {"new", "wrapped", "shown", "closed"}]
  /\ chosen \in [Sessions -> 0..Variants]
  /\ builds \in 0..MaxBuilds

\* How many more tags are open after line b than before line a.
Balance(f, a, b) ==
  Cardinality(Lines(f, a, b, LAMBDA l : Opens(l) # "nothing"))
    - Cardinality(Lines(f, a, b, LAMBDA l : Closes(l) # "nothing"))

\* Every tag in f is closed, by the first line after which no more tags are
\* open than before it, and nothing else is closed.
Nests(f) ==
  /\ Balance(f, 1, Len(f)) = 0
  /\ \A k \in DOMAIN f : Opens(f[k]) # "nothing" =>
       \E j \in k..Len(f) :
         /\ Closes(f[j]) = Opens(f[k]) /\ Balance(f, k, j) = 0
         /\ \A i \in k..(j - 1) : Balance(f, k, i) > 0

\* The tags of every file nest, whatever the scripts cut out of it, and
\* wherever: one wrapper inside another included.
TagsNest == \A f \in Files : Nests(project[f])

\* The files before are the author's, and their tags nest.
AuthorsLines ==
  {l \in AllLines :
     /\ IsUsers(l) \/ IsBlank(l)
     /\ l.kind \in {"open", "attribute", "text", "close"} => l.of \in Elements
     /\ l.by = None /\ l.n = 0}

ASSUME SourceAssumption ==
  Source \in [Files -> Seq(AuthorsLines)] /\ \A f \in Files : Nests(Source[f])

\* The author's code in f, with its indentation, as it is without the
\* wrappers' lines, if of session s the variant shown[s] is taken.
Authored(f, shown) ==
  LET step(acc, l) ==
        LET top == Last(acc.tags)
            inner == IF l.kind # "variant" THEN top
                     ELSE [hidden |-> top.hidden \/ l.n # shown[l.by], deeper |-> top.deeper + 2]
            tags == IF Opens(l) = "nothing" THEN acc.tags ELSE Append(acc.tags, inner)
        IN [out |-> IF IsUsers(l) /\ ~top.hidden
                    THEN Append(acc.out, [l EXCEPT !.in = @ - top.deeper]) ELSE acc.out,
            tags |-> IF Closes(l) = "nothing" THEN tags ELSE Front(tags)]
      none == [out |-> <<>>, tags |-> <<[hidden |-> FALSE, deeper |-> 0]>>]
      upTo[k \in 0..Len(f)] == IF k = 0 THEN none ELSE step(upTo[k - 1], f[k])
  IN upTo[Len(f)].out

\* No variant of another session is inside of the block of session s.
Alone(f, s) ==
  \A block \in MarkerBlock(f, s) : \A k \in block[1]..block[2] :
    f[k].kind \in {"variant", "accepted"} => f[k].by = s

\* No step changes the author's code, up to blank lines, except that an
\* accept puts the chosen variant where the original was.  Wrapping and
\* discarding, injecting and removing, cleaning up give back every line at
\* its indentation.  An accept around another session's variants is left out.
\* And only the build writes a generated file, although it may be the first
\* in which a session is found.
OnlyTheChoiceChanges ==
  [][/\ project'[Output] # project[Output] => builds' # builds
     /\ \A f \in Files \ Generated :
          LET shown == [s \in Sessions |-> IF chosen'[s] # chosen[s] THEN chosen'[s] ELSE 0]
              without(g) == RevertCspMeta(RemoveTag(g))
          IN /\ project'[f] # project[f]
             /\ \A s \in Sessions : shown[s] # 0 => Alone(project[f], s)
             =>
               Authored(without(project'[f]), [s \in Sessions |-> 0])
                 = Authored(without(project[f]), shown)]_vars

\* live-wrap never picks a sibling of the same class, or a copy in another
\* session's variant, or an element around the one that was picked, if it is
\* told a text of eight characters or more and the text is in the file: the
\* element it wraps is the one whose own text it is, or it refuses.  With a
\* shorter text it wraps the first candidate, whichever was picked.
WrapsThePicked ==
  [][\A s \in Sessions, f \in Files :
       /\ phase[s] = "new" /\ phase'[s] = "wrapped" /\ project'[f] # project[f]
       /\ picked'[s] # None /\ picked'[s][1] \notin Short
       /\ HasText(project[f], 1, Len(project[f]), picked'[s])
       =>
         \E k \in DOMAIN project'[f] :
           /\ project'[f][k] = Line("variant", None, s, 0, project'[f][k].in)
           /\ LET l == project'[f][k + 1] IN <<l.of, l.by, l.n>> = picked'[s]]_vars

\* One tag or none in f, and policies that let in its port, or none.
TagMatches(f) ==
  LET lines(kind) == {k \in DOMAIN f : f[k].kind = kind}
  IN /\ \A j, k \in lines("script") : j = k
     /\ \A k \in lines("policy") :
          \/ lines("script") = {} /\ f[k].n = 0
          \/ \E j \in lines("script") : f[j].n = f[k].n

\* A page has one tag at a time, and its policy lets in the port that the
\* tag names and no other, whichever server wrote it, and edits in between.
TagMatchesPolicy == \A f \in Configured : TagMatches(project[f])
=============================================================================

------------------------- MODULE RepositorySelection -------------------------
(***************************************************************************)
(* Which repositories a scoped token is requested for: the words of a      *)
(* --repo list or of a profile's repo setting, the origin remote that      *)
(* "auto" stands for, and the canonical form that is part of the cache     *)
(* key.  GitHub ignores the case of owner and repository names.            *)
(***************************************************************************)
EXTENDS SequencesExt

\* A word is "all", "auto", empty, not of the form owner/repository, or a
\* repository in lower case or with capitals.  Names are numbers, to be sorted.
Repository(owner, name, capitals) ==
    [kind |-> "repository", owner |-> owner, name |-> name, capitals |-> capitals]
Word(kind) == [kind |-> kind, owner |-> 0, name |-> 0, capitals |-> FALSE]
All == Word("all")
AutoWord == Word("auto")

AnyWord == {All, AutoWord, Word("empty")}
             \union [kind: {"repository"}, owner: Nat, name: Nat, capitals: BOOLEAN]

-----------------------------------------------------------------------------
\* The origin remote: no Git repository, no such remote, or a URL with a host
\* and a path, in lower case or with capitals.
Remote(found, github, path, capitals) ==
    [found |-> found, github |-> github, path |-> path, capitals |-> capitals]

AnyRemote == [found: {"url", "NotFound", "OriginNotFound", "MissingOriginUrl"},
              github: BOOLEAN, path: Seq(Nat), capitals: BOOLEAN]

\* resolve_origin_repo: a URL of github.com whose path is owner/repository, as the
\* remote spells it.
ResolveOrigin(remote) ==
    IF remote.found # "url" THEN [error |-> remote.found, word |-> Word("none")]
    ELSE IF ~remote.github THEN [error |-> "UnsupportedRemote", word |-> Word("none")]
    ELSE IF Len(remote.path) # 2 THEN [error |-> "InvalidOriginUrl", word |-> Word("none")]
    ELSE [error |-> "none", word |-> Repository(remote.path[1], remote.path[2], remote.capitals)]

-----------------------------------------------------------------------------
\* Mutant: the names keep their capitals.
ParseAsSpelled(word) == word

\* Repository::parse, of a word that is owner/repository.
Parse(word) == [word EXCEPT !.capitals = FALSE]

Unselected == [error |-> "none", all |-> FALSE, repositories |-> {}]

\* Mutant: a repository of any owner is accepted.
WordErrorOfAnyone(account, origin, word) ==
    CASE word = AutoWord /\ origin.error # "none" -> origin.error
      [] word.kind \notin {"auto", "repository"} -> "InvalidScope"
      [] OTHER -> "none"

\* The error in a word that is not "all", or "none".
WordError(account, origin, word) ==
    CASE word = AutoWord /\ origin.error # "none" -> origin.error
      [] word.kind \notin {"auto", "repository"} -> "InvalidScope"
      [] (IF word = AutoWord THEN origin.word ELSE word).owner # account -> "OwnerMismatch"
      [] OTHER -> "none"

\* The words that count: those of the command line, or else the profile's.
Words(cli, configured) == IF cli = <<>> THEN configured ELSE cli

\* RepositorySelection::resolve: one word after another, up to the first error.
Resolve(words, account, remote) ==
    LET origin == ResolveOrigin(remote)
        wrong == {i \in DOMAIN words: WordError(account, origin, words[i]) # "none"}
    IN  CASE words = <<>> -> [Unselected EXCEPT !.error = "InvalidScope"]
          [] ToSet(words) = {All} -> [Unselected EXCEPT !.all = TRUE]
          [] All \in ToSet(words) /\ ToSet(words) # {All} -> [Unselected EXCEPT !.error = "InvalidScope"]
          [] All \notin ToSet(words) /\ wrong # {} ->
               [Unselected EXCEPT !.error = WordError(account, origin, words[Min(wrong)])]
          [] OTHER ->
               [Unselected EXCEPT !.repositories =
                    {Parse(IF w = AutoWord THEN origin.word ELSE w): w \in ToSet(words)}]

Selected(selection) == selection.error = "none"

Before(a, b) == a.owner < b.owner \/ (a.owner = b.owner /\ a.name < b.name)

\* A BTreeSet, iterated.
InOrder(repositories) ==
    CHOOSE names \in [1..Cardinality(repositories) -> repositories]:
      /\ Range(names) = repositories
      /\ \A i, j \in DOMAIN names: i < j => ~Before(names[j], names[i])

\* canonical: "all", or the full names in order.
Canonical(selection) == IF selection.all THEN <<All>> ELSE InOrder(selection.repositories)

\* repository_names: GitHub is asked for names alone, within the account of the
\* installation.
RepositoryNames(selection) == {r.name: r \in selection.repositories}

-----------------------------------------------------------------------------
(***************************************************************************)
(* What a list of words stands for, whatever its order and spelling.       *)
(***************************************************************************)
Meant(words, remote) ==
    {IF w = AutoWord THEN <<remote.path[1], remote.path[2]>> ELSE <<w.owner, w.name>>:
        w \in ToSet(words)}

OriginKnown(remote) == remote.found = "url" /\ remote.github /\ Len(remote.path) = 2

Acceptable(words, account, remote) ==
    /\ words # <<>>
    /\ \/ ToSet(words) = {All}
       \/ /\ \A w \in ToSet(words): w.kind \in {"auto", "repository"}
          /\ AutoWord \in ToSet(words) => OriginKnown(remote)
          /\ \A meant \in Meant(words, remote): meant[1] = account

AllScope == [all |-> TRUE, repositories |-> {}]

Scope(words, remote) ==
    IF ToSet(words) = {All} THEN AllScope
    ELSE [all |-> FALSE, repositories |-> Meant(words, remote)]
=============================================================================

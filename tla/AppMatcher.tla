----------------------------- MODULE AppMatcher -----------------------------
(***************************************************************************)
(* The pure functions of appmatcher.h: which profile owns an application,  *)
(* which target a focused window stands for, and which routes a settings   *)
(* save must withdraw.  Names are compared by Similar, the outcome of      *)
(* appIdMatches (either contains the other, also without punctuation);     *)
(* candidates are only ever searched for one that fits, so they are sets.  *)
(***************************************************************************)
EXTENDS Settings

CONSTANTS App,          \* names: of applications, binaries, aliases
          Similar       \* the pairs of names that appIdMatches accepts

ASSUME SimilarAssumption ==
    /\ NoApp \notin App
    /\ Similar \subseteq App \X App
    /\ \A a \in App : <<a, a>> \in Similar
    /\ \A a, b \in App : <<a, b>> \in Similar => <<b, a>> \in Similar

\* An alias: what it matches, the label and the target it gives; an
\* application of the list: the name and the binary it goes by.
Alias == [match : App, display : App \cup {NoApp}, target : App \cup {NoApp}]
AudioApp == [name : App, binary : App \cup {NoApp}]

AppIdMatches(candidate, needle) == <<candidate, needle>> \in Similar

\* The names an application may go by.
AppMatchCandidates(app, aliases) ==
    LET NamesOf(alias) == {alias.match, alias.display, alias.target}
        hits == {i \in DOMAIN aliases : \E n \in NamesOf(aliases[i]) : AppIdMatches(n, app)}
    IN  ({app} \cup UNION {NamesOf(aliases[i]) : i \in hits}) \ {NoApp}

ProfileListsApp(p, app) ==
    \/ \E i \in DOMAIN p.apps : AppIdMatches(p.apps[i], app)
    \/ app \in p.app_regex

ProfileMatchesApp(p, app, aliases) ==
    \E c \in AppMatchCandidates(app, aliases) : ProfileListsApp(p, c)

\* The name an application of the list is controlled by.
Control(a) == IF a.binary = NoApp THEN a.name ELSE a.binary

\* The first application of the list that the binary belongs to, else what an
\* alias makes of it.
MatchBinaryToApp(binary, cache, aliases) ==
    LET Fits(a) == \E n \in {a.name, a.binary}
                       \cup AppMatchCandidates(Control(a), aliases)
                       \cup AppMatchCandidates(a.name, aliases) : AppIdMatches(n, binary)
        live == FirstOf(cache, {i \in DOMAIN cache : Fits(cache[i])})
        Names(alias) == (AppIdMatches(alias.match, binary) \/ AppIdMatches(alias.display, binary))
                        /\ {alias.target, alias.display} # {NoApp}
        named == FirstOf(aliases, {i \in DOMAIN aliases : Names(aliases[i])})
    IN  IF binary = NoApp THEN NoApp
        ELSE IF live # <<>> THEN Control(live[1])
        ELSE IF named = <<>> THEN NoApp
        ELSE IF named[1].target # NoApp THEN named[1].target ELSE named[1].display

\* The first profile that fits, as a sequence of none or one.
FindAutoSwitchProfileForApp(app, profiles, aliases) ==
    LET fit == {i \in DOMAIN profiles : profiles[i].auto_switch
                                         /\ ProfileMatchesApp(profiles[i], app, aliases)}
    IN  IF app = NoApp THEN <<>> ELSE FirstOf(profiles, fit)

-----------------------------------------------------------------------------
(* The target that follows the focus.                                      *)

ValidateStickyAutoProfileTarget(target, profiles, aliases) ==
    IF FindAutoSwitchProfileForApp(target, profiles, aliases) = <<>> THEN NoApp ELSE target

\* A window that no profile knows leaves the target as it was.
ResolveStickyAutoProfileTarget(binary, cache, profiles, target, aliases) ==
    LET app == MatchBinaryToApp(binary, cache, aliases)
        preferred == IF app = NoApp THEN binary ELSE app
        tried == AppMatchCandidates(preferred, aliases) \cup AppMatchCandidates(binary, aliases)
    IN  IF binary # NoApp
           /\ \E c \in tried : FindAutoSwitchProfileForApp(c, profiles, aliases) # <<>>
        THEN preferred ELSE target

-----------------------------------------------------------------------------
(* Withdrawing routes.                                                     *)

StillRouted(app, profiles, aliases) ==
    \E i \in DOMAIN profiles : profiles[i].sink # NoSink
                               /\ ProfileMatchesApp(profiles[i], app, aliases)

\* Mutant: only the applications that the profile lists.
ListedTargets(previous, current, routed, aliases) ==
    {a \in UNION {Range(previous[i].apps) :
                      i \in {j \in DOMAIN previous : previous[j].sink # NoSink}} :
        ~StillRouted(a, current, aliases)}

\* profileSinkCleanupTargets: what a profile with a sink listed, or what was
\* routed in its name, and no profile routes any more.
ProfileSinkCleanupTargets(previous, current, routed, aliases) ==
    {a \in UNION {Range(previous[i].apps) \cup Get(routed, previous[i].id, {}) :
                      i \in {j \in DOMAIN previous : previous[j].sink # NoSink}} :
        ~StillRouted(a, current, aliases)}
=============================================================================

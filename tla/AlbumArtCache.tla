-------------------------- MODULE AlbumArtCache --------------------------
(***************************************************************************)
(* albumartcache.cpp: pictures by address, the least recently used one     *)
(* first, and downloads under way.  An address that needs no download (a   *)
(* file, or data:) is like one whose picture is on the disk already.       *)
(***************************************************************************)
EXTENDS SequencesExt, FiniteSets

CONSTANT MaxArt     \* kMaxMemoryEntries

ASSUME ArtAssumption == MaxArt \in Nat \ {0}

Art0 == [memory |-> <<>>, pending |-> {}, disk |-> {}]

Has(a, url) == \E i \in DOMAIN a.memory : a.memory[i].url = url
Good(a, url) == \E i \in DOMAIN a.memory : a.memory[i].url = url /\ a.memory[i].good

\* m_lruOrder.removeAll: an address is there once at most.
Without(memory, url) ==
    LET places == {i \in DOMAIN memory : memory[i].url = url}
    IN  IF places = {} THEN memory ELSE RemoveAt(memory, CHOOSE i \in places : TRUE)
Newest(memory, url, good) == Append(Without(memory, url), [url |-> url, good |-> good])

Announce(a, memory, url, good) ==
    [art |-> [a EXCEPT !.memory = Newest(memory, url, good)], ready |-> TRUE, good |-> good]

\* Mutant: nothing makes room.
StoresBeside(a, url, good) == Announce(a, a.memory, url, good)

\* storeAndEmit: a full memory first gives up its oldest picture.  The answer
\* is the new cache and what ready() announces.
Stores(a, url, good) ==
    Announce(a, IF Len(a.memory) >= MaxArt THEN Tail(a.memory) ELSE a.memory, url, good)

\* request(): what is in memory, local or on disk is ready at once; anything
\* else is downloaded, once at a time.
Requested(a, url) ==
    IF Has(a, url)
    THEN [art |-> [a EXCEPT !.memory = Newest(@, url, Good(a, url))],
          ready |-> TRUE, good |-> Good(a, url)]
    ELSE IF url \in a.disk THEN Stores(a, url, TRUE)
    ELSE [art |-> [a EXCEPT !.pending = @ \cup {url}], ready |-> FALSE, good |-> FALSE]

\* onReplyFinished: a picture also goes to the disk; a failure is remembered
\* like a picture.
Finished(a, url, good) ==
    Stores([a EXCEPT !.pending = @ \ {url},
                     !.disk = IF good THEN @ \cup {url} ELSE @], url, good)
=============================================================================

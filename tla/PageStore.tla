------------------------------ MODULE PageStore ------------------------------
(***************************************************************************)
(* The values of db/block_storage.go, block data and undo records, which   *)
(* PageInsert of db/dbwrapper.go cuts into pages and PageGet puts together *)
(* again.  A page has a key of its own, <<key, page number>>, where the    *)
(* page number is a byte; one that is continued is one byte longer than    *)
(* the maximum.  Each page is a durable write of its own, and the process  *)
(* may die, or the write fail, between two of them.                        *)
(*                                                                         *)
(* PageInsert appends the continuation byte to a slice of the value, which *)
(* puts it over the first byte of the next page.                           *)
(***************************************************************************)
EXTENDS DBwrapper, SequencesExt, FiniteSetsExt

CONSTANTS
  PagedKey,     \* the block hashes
  Contents,     \* Contents[k]: the values that may be written under k
  MaxPageSize,  \* maxPageSize
  PageNumbers,  \* 256
  None          \* no call, no value

VARIABLES
  call,        \* the PageInsert under way, or None
  lastWritten  \* history: key -> the value of the last PageInsert, if it returned nil

pageVars == <<call, lastWritten>>

\* A key may have values of several lengths: the hash of a block leaves out the
\* signatures of its transactions, its data do not.
ASSUME PageStoreAssumption ==
  /\ MaxPageSize \in Nat \ {0}
  /\ PageNumbers \in Nat \ {0}
  /\ Contents \in [PagedKey -> SUBSET Seq(Nat)]

InitPages == call = None /\ lastWritten = [k \in PagedKey |-> None]

PageInsert(k, c) ==
  /\ open /\ call = None
  /\ call' = [key |-> k, value |-> c, idx |-> 0, page |-> 0, given |-> c]
  /\ lastWritten' = [lastWritten EXCEPT ![k] = None]
  /\ UNCHANGED dbVars

PageKey == <<call.key, call.page>>
Rem == Len(call.value) - call.idx

\* Mutant: every page is cut from the start of the value.
InsertPage_FromStart ==
  /\ call # None
  /\ Rem > MaxPageSize
  /\ Insert(PageKey, Append(SubSeq(call.value, 1, MaxPageSize), 0))
  /\ call' = [call EXCEPT !.value[call.idx + MaxPageSize + 1] = 0,
                          !.page = (@ + 1) % PageNumbers,
                          !.idx = @ + MaxPageSize]
  /\ UNCHANGED lastWritten

\* A page that is continued.
InsertPage ==
  /\ call # None
  /\ Rem > MaxPageSize
  /\ Insert(PageKey,
            Append(SubSeq(call.value, call.idx + 1, call.idx + MaxPageSize), 0))
  /\ call' = [call EXCEPT !.value[call.idx + MaxPageSize + 1] = 0,
                          !.page = (@ + 1) % PageNumbers,
                          !.idx = @ + MaxPageSize]
  /\ UNCHANGED lastWritten

\* The last page; PageInsert returns nil.
InsertLastPage ==
  /\ call # None
  /\ Rem <= MaxPageSize
  /\ Insert(PageKey, SubSeq(call.value, call.idx + 1, Len(call.value)))
  /\ call' = None
  /\ lastWritten' = [lastWritten EXCEPT ![call.key] = call.given]

\* A write fails and PageInsert returns its error.
InsertPageFails ==
  /\ call # None
  /\ call' = None
  /\ UNCHANGED <<dbVars, lastWritten>>

PageStep ==
  \/ \E k \in PagedKey : \E c \in Contents[k] : PageInsert(k, c)
  \/ InsertPage
  \/ InsertLastPage
  \/ InsertPageFails

(***************************************************************************)
(* PageGet.                                                                *)
(***************************************************************************)
Noise == -1

\* What Get returns for page n of k.
GetPage(k, n) ==
  LET e == Get(<<k, n>>)
  IN  IF e.mask = {} THEN e.data ELSE [i \in DOMAIN e.data |-> Noise]

\* The page numbers at which the loop stops: the page is missing, or is not as
\* long as one that is continued.
Stops(k) ==
  {n \in 0 .. PageNumbers - 1 :
     <<k, n>> \notin DOMAIN store \/ Len(GetPage(k, n)) # MaxPageSize + 1}

\* Mutant: a page that is missing ends the value.
PageGet_MissingEnds(k) ==
  IF Stops(k) = {} THEN [result |-> "loops", data |-> <<>>] ELSE
    LET last == Min(Stops(k))
        Part(n) == IF n < last THEN Front(GetPage(k, n))
                   ELSE IF <<k, n>> \in DOMAIN store THEN GetPage(k, n) ELSE <<>>
    IN  [result |-> IF <<k, 0>> \in DOMAIN store THEN "found" ELSE "notFound",
         data |-> FlattenSeq([n \in 1 .. last + 1 |-> Part(n - 1)])]

\* With a full page under every number, the loop never stops.
PageGet(k) ==
  IF Stops(k) = {} THEN [result |-> "loops", data |-> <<>>] ELSE
    LET last == Min(Stops(k))
        Part(n) == IF n < last THEN Front(GetPage(k, n)) ELSE GetPage(k, n)
    IN  IF <<k, last>> \notin DOMAIN store
        THEN [result |-> "notFound", data |-> <<>>]
        ELSE [result |-> "found",
              data |-> FlattenSeq([n \in 1 .. last + 1 |-> Part(n - 1)])]

-----------------------------------------------------------------------------
NoOfPages(c) == Max({1, (Len(c) + MaxPageSize - 1) \div MaxPageSize})
Fits(c) == NoOfPages(c) <= PageNumbers
AllFit(k) == \A c \in Contents[k] : Fits(c)

\* The page the i-th byte is on, and what is stored of c there: the first byte
\* of every page but the first is lost.
PageOf(i) == (i - 1) \div MaxPageSize
StoredByte(c, i) == IF i > 1 /\ (i - 1) % MaxPageSize = 0 THEN 0 ELSE c[i]

\* Whenever the process died or a write failed in the middle of a value, what
\* PageGet finds is as long as some value written under the key: it never returns
\* a beginning.  A value with more pages than a byte can number is never found
\* whole, and only for such a value does PageGet fail to end.
ReadIsWhole ==
  open => \A k \in PagedKey :
    LET r == PageGet(k)
    IN  /\ r.result = "loops" => ~AllFit(k)
        /\ r.result = "found" =>
             /\ AllFit(k) => \E c \in Contents[k] : Len(r.data) = Len(c)
             /\ \A c \in Contents[k] : Len(r.data) = Len(c) => Fits(c)

\* Every page that PageGet finds comes as a whole from one value written under
\* the key, but two pages may come from different ones, if a rewrite was cut off.
ReadIsPagewise ==
  open => \A k \in {j \in PagedKey : AllFit(j) /\ PageGet(j).result = "found"} :
    LET data == PageGet(k).data
    IN  \A n \in {PageOf(i) : i \in DOMAIN data} : \E c \in Contents[k] :
          \A i \in {j \in DOMAIN data : PageOf(j) = n} :
            i <= Len(c) /\ data[i] = StoredByte(c, i)

\* A value whose PageInsert returned nil is what PageGet finds, but for the lost
\* bytes, from then on: across restarts, writes under other keys and calls that
\* are cut off there, until its key is written again.
ReadLastWritten ==
  open => \A k \in {j \in PagedKey : lastWritten[j] # None /\ Fits(lastWritten[j])} :
    PageGet(k) = [result |-> "found",
                  data |-> [i \in DOMAIN lastWritten[k] |-> StoredByte(lastWritten[k], i)]]

=============================================================================

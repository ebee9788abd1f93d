---------------------- MODULE CollectorPipelineProofs ----------------------
(***************************************************************************)
(* Proofs about CollectorPipeline for any input, any number of workers and *)
(* any capacities: what its enrichment queue keeps in order, that every    *)
(* packet is in one place, and that shutdown closes nothing in use.        *)
(***************************************************************************)
EXTENDS CollectorPipeline, OrderedSeqTheorems

-----------------------------------------------------------------------------
(* Records and sequences of them.                                          *)

DistinctItems(s) == \A i, j \in 1..Len(s) : s[i].item = s[j].item => i = j

\* Items are positive numbers.
LEMMA FeedLength == Len(Feed) \in Nat
<1>1. Feed \in Seq([kind : Kinds, vo : STRING, path : STRING])
  BY PipelineAssumption
<1>2. QED
  BY <1>1

LEMMA ItemFacts == \A i \in Items : i \in Nat /\ i # 0
BY FeedLength DEF Items

LEMMA Bounds == {InputCap, GStreamCap, Capacity, PageSize, ResultsCap} \subseteq Nat \ {0}
BY PipelineAssumption

\* A request is the record of its item.
LEMMA RequestFacts ==
    ASSUME NEW r \in Requests
    PROVE  /\ r.item \in Items
           /\ r = Record(r.item)
           /\ r # NoRecord
<1>1. PICK i \in Items : r = Record(i)
  BY DEF Requests
<1>2. r.item = i /\ i # 0
  BY <1>1, ItemFacts DEF Record
<1>3. NoRecord.item = 0
  BY DEF NoRecord
<1>4. QED
  BY <1>1, <1>2, <1>3

LEMMA RequestInt == \A r \in Requests : r.item \in Int
<1>1. TAKE r \in Requests
<1>2. r.item \in Items
  BY RequestFacts
<1>3. r.item \in Nat
  BY <1>2, ItemFacts
<1>4. QED
  BY <1>3

\* An enriched record is made of the request of its item.
LEMMA EnrichedFacts ==
    ASSUME NEW e \in EnrichedRecords
    PROVE  /\ e.item \in Items
           /\ e = BuildEnrichedRecord(Record(e.item))
<1>1. PICK i \in Items : e = BuildEnrichedRecord(Record(i))
  BY DEF EnrichedRecords, Requests
<1>2. e.item = i
  BY <1>1 DEF BuildEnrichedRecord, Record
<1>3. QED
  BY <1>1, <1>2

\* The items of a lengthened sequence.
LEMMA ItemsAppend ==
    ASSUME NEW S, NEW s \in Seq(S), NEW x \in S
    PROVE  ItemsOf(Append(s, x)) = ItemsOf(s) \cup {x.item}
<1>1. /\ Len(Append(s, x)) = Len(s) + 1
      /\ Len(s) \in Nat
      /\ \A i \in 1..Len(s) : Append(s, x)[i] = s[i]
      /\ Append(s, x)[Len(s) + 1] = x
  OBVIOUS
<1>2. QED
  BY <1>1 DEF ItemsOf

\* A non-empty sequence has the item of its head and those of its tail.
LEMMA ItemsHeadTail ==
    ASSUME NEW S, NEW s \in Seq(S), s # <<>>
    PROVE  ItemsOf(s) = {Head(s).item} \cup ItemsOf(Tail(s))
<1>1. /\ Len(s) \in Nat \ {0}
      /\ Len(Tail(s)) = Len(s) - 1
      /\ Head(s) = s[1]
      /\ \A i \in 1..(Len(s) - 1) : Tail(s)[i] = s[i + 1]
  OBVIOUS
<1>2. ASSUME NEW i \in 1..Len(s)
      PROVE  s[i].item \in {Head(s).item} \cup ItemsOf(Tail(s))
  <2>1. CASE i = 1
    BY <1>1, <2>1
  <2>2. CASE i # 1
    <3>1. i - 1 \in 1..Len(Tail(s)) /\ s[i] = Tail(s)[i - 1]
      BY <1>1, <2>2
    <3>2. QED
      BY <3>1 DEF ItemsOf
  <2>3. QED
    BY <2>1, <2>2
<1>3. ASSUME NEW i \in 1..Len(Tail(s))
      PROVE  Tail(s)[i].item \in ItemsOf(s)
  <2>1. i + 1 \in 1..Len(s) /\ Tail(s)[i] = s[i + 1]
    BY <1>1
  <2>2. QED
    BY <2>1 DEF ItemsOf
<1>4. Head(s).item \in ItemsOf(s)
  BY <1>1 DEF ItemsOf
<1>5. QED
  BY <1>2, <1>3, <1>4 DEF ItemsOf

\* Distinct items stay distinct in a tail, which lacks the item of the head.
LEMMA DistinctTail ==
    ASSUME NEW S, NEW s \in Seq(S), s # <<>>, DistinctItems(s)
    PROVE  /\ DistinctItems(Tail(s))
           /\ Head(s).item \notin ItemsOf(Tail(s))
<1>1. /\ Len(s) \in Nat \ {0}
      /\ Len(Tail(s)) = Len(s) - 1
      /\ Head(s) = s[1]
      /\ \A i \in 1..(Len(s) - 1) : Tail(s)[i] = s[i + 1]
  OBVIOUS
<1>2. ASSUME NEW i \in 1..Len(Tail(s)), NEW j \in 1..Len(Tail(s)),
             Tail(s)[i].item = Tail(s)[j].item
      PROVE  i = j
  <2>1. i + 1 \in 1..Len(s) /\ j + 1 \in 1..Len(s)
    BY <1>1
  <2>2. i + 1 = j + 1
    BY <1>1, <1>2, <2>1 DEF DistinctItems
  <2>3. QED
    BY <1>1, <2>2
<1>3. ASSUME NEW i \in 1..Len(Tail(s)), Tail(s)[i].item = Head(s).item
      PROVE  FALSE
  <2>1. i + 1 \in 1..Len(s) /\ 1 \in 1..Len(s) /\ i + 1 # 1
    BY <1>1
  <2>2. QED
    BY <1>1, <1>3, <2>1 DEF DistinctItems
<1>4. QED
  BY <1>2, <1>3 DEF DistinctItems, ItemsOf

\* A new item keeps the items distinct.
LEMMA DistinctAppend ==
    ASSUME NEW S, NEW s \in Seq(S), NEW x \in S, DistinctItems(s), x.item \notin ItemsOf(s)
    PROVE  DistinctItems(Append(s, x))
<1>1. /\ Len(Append(s, x)) = Len(s) + 1
      /\ Len(s) \in Nat
      /\ \A i \in 1..Len(s) : Append(s, x)[i] = s[i]
      /\ Append(s, x)[Len(s) + 1] = x
  OBVIOUS
<1>2. QED
  BY <1>1 DEF DistinctItems, ItemsOf

\* Likewise for items in order, which are distinct.
LEMMA OrderedTail ==
    ASSUME NEW S, NEW s \in Seq(S), s # <<>>, InItemOrder(s),
           \A x \in S : x.item \in Int
    PROVE  /\ InItemOrder(Tail(s))
           /\ Head(s).item \notin ItemsOf(Tail(s))
<1>1. /\ Len(s) \in Nat \ {0}
      /\ Len(Tail(s)) = Len(s) - 1
      /\ Head(s) = s[1]
      /\ \A i \in 1..(Len(s) - 1) : Tail(s)[i] = s[i + 1]
      /\ \A i \in 1..Len(s) : s[i] \in S
  OBVIOUS
<1>2. \A i \in 1..Len(s) : s[i].item \in Int
  BY <1>1
<1>3. ASSUME NEW i \in 1..Len(Tail(s)), NEW j \in 1..Len(Tail(s)), i < j
      PROVE  Tail(s)[i].item < Tail(s)[j].item
  <2>1. i + 1 \in 1..Len(s) /\ j + 1 \in 1..Len(s) /\ i + 1 < j + 1
    BY <1>1, <1>3
  <2>2. QED
    BY <1>1, <2>1 DEF InItemOrder
<1>4. ASSUME NEW i \in 1..Len(Tail(s)), Tail(s)[i].item = Head(s).item
      PROVE  FALSE
  <2>1. i + 1 \in 1..Len(s) /\ 1 \in 1..Len(s) /\ 1 < i + 1
    BY <1>1
  <2>2. s[1].item < s[i + 1].item /\ s[1].item \in Int
    BY <1>2, <2>1 DEF InItemOrder
  <2>3. QED
    BY <1>1, <1>4, <2>1, <2>2
<1>5. QED
  BY <1>3, <1>4 DEF InItemOrder, ItemsOf

LEMMA OrderedAppend ==
    ASSUME NEW S, NEW s \in Seq(S), NEW x \in S, InItemOrder(s),
           \A i \in ItemsOf(s) : i < x.item
    PROVE  InItemOrder(Append(s, x))
<1>1. /\ Len(Append(s, x)) = Len(s) + 1
      /\ Len(s) \in Nat
      /\ \A i \in 1..Len(s) : Append(s, x)[i] = s[i]
      /\ Append(s, x)[Len(s) + 1] = x
  OBVIOUS
<1>2. ASSUME NEW i \in 1..Len(Append(s, x)), NEW j \in 1..Len(Append(s, x)), i < j
      PROVE  Append(s, x)[i].item < Append(s, x)[j].item
  <2>1. CASE j <= Len(s)
    BY <1>1, <1>2, <2>1 DEF InItemOrder
  <2>2. CASE j = Len(s) + 1
    <3>1. i \in 1..Len(s)
      BY <1>1, <1>2, <2>2
    <3>2. QED
      BY <1>1, <2>2, <3>1 DEF ItemsOf
  <2>3. QED
    BY <1>1, <2>1, <2>2
<1>3. QED
  BY <1>2 DEF InItemOrder

-----------------------------------------------------------------------------
(* The paged queue.                                                        *)

Page == [reqs : Seq(Requests), cap : Nat]

PagesTyped == pages \in Seq(Page) /\ size \in 0..Capacity

\* There are finitely many requests.
LEMMA QueuedFinite ==
    ASSUME PagesTyped
    PROVE  IsFiniteSet(Queued) /\ Queued \subseteq Items
<1>1. \A k \in 1..Len(pages) : pages[k] \in Page
  BY DEF PagesTyped
<1>2. \A k \in 1..Len(pages) : ItemsOf(pages[k].reqs) \subseteq Items
  <2>1. \A s \in Seq(Requests) : \A j \in 1..Len(s) : s[j] \in Requests
    OBVIOUS
  <2>2. QED
    BY <1>1, <2>1, RequestFacts DEF ItemsOf, Page
<1>3. Queued \subseteq Items
  BY <1>2 DEF Queued
<1>4. IsFiniteSet(Items)
  BY FeedLength, FS_Interval DEF Items
<1>5. QED
  BY <1>3, <1>4, FS_Subset

\* Room in the last page: the request joins it.
LEMMA AppendToLast ==
    ASSUME PagesTyped, PagesConsistent, NEW r \in Requests,
           \A i \in Queued : i < r.item,
           pages # <<>>, Len(LastPage.reqs) # LastPage.cap, size < Capacity,
           pages' = [pages EXCEPT ![Len(pages)] = [reqs |-> Append(@.reqs, r), cap |-> @.cap]],
           size' = size + 1
    PROVE  /\ PagesTyped'
           /\ Queued' = Queued \cup {r.item}
           /\ PagesConsistent'
<1> DEFINE n == Len(pages)
           last == pages[n]
           page == [reqs |-> Append(last.reqs, r), cap |-> last.cap]
<1>1. n \in Nat \ {0} /\ n \in 1..n /\ \A k \in 1..n : pages[k] \in Page
  BY DEF PagesTyped
<1>2. last \in Page /\ last.reqs \in Seq(Requests) /\ last.cap \in Nat /\ Len(last.reqs) \in Nat
  BY <1>1 DEF Page
<1>3. /\ page.reqs = Append(last.reqs, r) /\ page.cap = last.cap
      /\ page.reqs \in Seq(Requests) /\ page \in Page
      /\ Len(page.reqs) = Len(last.reqs) + 1
  BY <1>2 DEF Page
<1>4. pages' = [pages EXCEPT ![n] = page]
  OBVIOUS
<1>5. ItemsOf(page.reqs) = ItemsOf(last.reqs) \cup {r.item}
  BY <1>2, <1>3, ItemsAppend
<1>6. last = pages[n] /\ Len(last.reqs) # last.cap
  BY DEF LastPage
<1>7. Len(pages) = n
  OBVIOUS
<1> HIDE DEF n, last, page
<1>8. /\ pages' \in Seq(Page)
      /\ Len(pages') = n
      /\ \A k \in 1..n : pages'[k] = IF k = n THEN page ELSE pages[k]
  <2>1. pages \in Seq(Page)
    BY DEF PagesTyped
  <2>2. QED
    <3>1. n \in 1..Len(pages) /\ page \in Page
      BY <1>1, <1>3, <1>7
    <3>2. /\ [pages EXCEPT ![n] = page] \in Seq(Page)
          /\ Len([pages EXCEPT ![n] = page]) = Len(pages)
          /\ \A j \in 1..Len(pages) :
                [pages EXCEPT ![n] = page][j] = IF j = n THEN page ELSE pages[j]
      BY <2>1, <3>1, ExceptSeq
    <3>3. QED
      BY <1>4, <1>7, <3>2, Zenon
<1>9. Queued' = Queued \cup {r.item}
  <2>1. \A i : i \in Queued <=> \E k \in 1..n : i \in ItemsOf(pages[k].reqs)
    BY <1>7 DEF Queued
  <2>2. \A i : i \in Queued' <=> \E k \in 1..n : i \in ItemsOf(pages'[k].reqs)
    BY <1>8 DEF Queued
  <2>3. \A k \in 1..n : ItemsOf(pages'[k].reqs) =
           IF k = n THEN ItemsOf(last.reqs) \cup {r.item} ELSE ItemsOf(pages[k].reqs)
    <3>1. TAKE k \in 1..n
    <3>2. CASE k = n
      BY <1>5, <1>8, <3>2
    <3>3. CASE k # n
      BY <1>8, <3>3
    <3>4. QED
      BY <3>2, <3>3
  <2>4. QED
    BY <1>1, <1>6, <2>1, <2>2, <2>3
<1>10. PagesTyped'
  BY <1>8, Bounds DEF PagesTyped
<1>11. size' = Cardinality(Queued')
  <2>1. IsFiniteSet(Queued) /\ r.item \notin Queued
    BY QueuedFinite, RequestFacts, ItemFacts
  <2>2. QED
    BY <1>9, <2>1, FS_AddElement DEF PagesConsistent
<1>12. \A k \in 1..n : Len(pages'[k].reqs) \in 1..pages'[k].cap
  BY <1>1, <1>2, <1>3, <1>6, <1>7, <1>8 DEF PagesConsistent
<1>13. \A k \in 1..(n - 1) : Len(pages'[k].reqs) = pages'[k].cap
  BY <1>1, <1>7, <1>8 DEF PagesConsistent
<1>14. size' - Len(pages'[n].reqs) + pages'[n].cap <= Capacity
  BY <1>1, <1>2, <1>3, <1>6, <1>7, <1>8 DEF PagesConsistent, LastPage, PagesTyped
<1>15. \A k \in 1..n : InItemOrder(pages'[k].reqs)
  <2>1. InItemOrder(page.reqs)
    <3>1. InItemOrder(last.reqs) /\ ItemsOf(last.reqs) \subseteq Queued
      BY <1>1, <1>6, <1>7 DEF PagesConsistent, Queued
    <3>2. QED
      BY <1>2, <1>3, <3>1, OrderedAppend
  <2>2. QED
    BY <1>7, <1>8, <2>1 DEF PagesConsistent
<1>16. \A k, l \in 1..n : k < l => Precedes(ItemsOf(pages'[k].reqs), ItemsOf(pages'[l].reqs))
  <2>1. SUFFICES ASSUME NEW k \in 1..n, NEW l \in 1..n, k < l
                 PROVE  Precedes(ItemsOf(pages'[k].reqs), ItemsOf(pages'[l].reqs))
    OBVIOUS
  <2>2. pages'[k] = pages[k] /\ Precedes(ItemsOf(pages[k].reqs), ItemsOf(pages[l].reqs))
    BY <1>1, <1>7, <1>8, <2>1 DEF PagesConsistent
  <2>3. ItemsOf(pages[k].reqs) \subseteq Queued
    BY <1>7 DEF Queued
  <2>4. CASE l = n
    BY <1>5, <1>6, <1>8, <2>2, <2>3, <2>4 DEF Precedes
  <2>5. CASE l # n
    BY <1>8, <2>2, <2>5
  <2>6. QED
    BY <2>4, <2>5
<1>17. PagesConsistent'
  BY <1>8, <1>11, <1>12, <1>13, <1>14, <1>15, <1>16 DEF PagesConsistent, LastPage
<1>18. QED
  BY <1>9, <1>10, <1>17

\* No room: the request opens a page, no larger than the capacity allows.
LEMMA AppendPage ==
    ASSUME PagesTyped, PagesConsistent, NEW r \in Requests,
           \A i \in Queued : i < r.item,
           pages = <<>> \/ Len(LastPage.reqs) = LastPage.cap, size < Capacity,
           pages' = Append(pages, [reqs |-> <<r>>, cap |-> Smaller(PageSize, Capacity - size)]),
           size' = size + 1
    PROVE  /\ PagesTyped'
           /\ Queued' = Queued \cup {r.item}
           /\ PagesConsistent'
<1> DEFINE n == Len(pages)
           cap == Smaller(PageSize, Capacity - size)
           page == [reqs |-> <<r>>, cap |-> cap]
<1>1. n \in Nat /\ \A k \in 1..n : pages[k] \in Page
  BY DEF PagesTyped
<1>2. cap \in Nat \ {0} /\ cap <= Capacity - size /\ size \in Nat /\ Capacity \in Nat
  BY Bounds DEF Smaller, PagesTyped
<1>3. /\ page.reqs = <<r>> /\ page.cap = cap
      /\ page.reqs \in Seq(Requests) /\ page \in Page
      /\ Len(page.reqs) = 1
  BY <1>2 DEF Page
<1>4. pages' = Append(pages, page) /\ Len(pages) = n
  OBVIOUS
<1>5. ItemsOf(page.reqs) = {r.item} /\ InItemOrder(page.reqs)
  BY <1>3 DEF ItemsOf, InItemOrder
<1>6. n # 0 => Len(pages[n].reqs) = pages[n].cap
  BY <1>1 DEF LastPage
<1> HIDE DEF n, cap, page
<1>7. /\ pages' \in Seq(Page)
      /\ Len(pages') = n + 1
      /\ \A k \in 1..n : pages'[k] = pages[k]
      /\ pages'[n + 1] = page
  BY <1>3, <1>4, AppendProperties DEF PagesTyped
<1>8. 1..(n + 1) = (1..n) \cup {n + 1}
  BY <1>1
<1>9. Queued' = Queued \cup {r.item}
  <2>1. \A i : i \in Queued <=> \E k \in 1..n : i \in ItemsOf(pages[k].reqs)
    BY <1>4 DEF Queued
  <2>2. \A i : i \in Queued' <=> \E k \in 1..(n + 1) : i \in ItemsOf(pages'[k].reqs)
    BY <1>7 DEF Queued
  <2>3. QED
    BY <1>5, <1>7, <1>8, <2>1, <2>2
<1>10. PagesTyped'
  BY <1>7, Bounds DEF PagesTyped
<1>11. size' = Cardinality(Queued')
  <2>1. IsFiniteSet(Queued) /\ r.item \notin Queued
    <3>1. r.item \in Nat
      BY RequestFacts, ItemFacts
    <3>2. QED
      BY <3>1, QueuedFinite
  <2>2. QED
    BY <1>9, <2>1, FS_AddElement DEF PagesConsistent
<1>12. \A k \in 1..(n + 1) : Len(pages'[k].reqs) \in 1..pages'[k].cap
  BY <1>2, <1>3, <1>4, <1>7, <1>8 DEF PagesConsistent
<1>13. \A k \in 1..((n + 1) - 1) : Len(pages'[k].reqs) = pages'[k].cap
  <2>1. TAKE k \in 1..((n + 1) - 1)
  <2>2. k \in 1..n /\ pages'[k] = pages[k]
    BY <1>1, <1>7
  <2>3. CASE k = n
    <3>1. n # 0
      BY <1>1, <2>2
    <3>2. QED
      BY <1>6, <2>2, <2>3, <3>1
  <2>4. CASE k # n
    <3>1. k \in 1..(n - 1)
      BY <1>1, <2>2, <2>4
    <3>2. QED
      BY <1>4, <2>2, <3>1 DEF PagesConsistent
  <2>5. QED
    BY <2>3, <2>4
<1>14. size' - Len(pages'[n + 1].reqs) + pages'[n + 1].cap <= Capacity
  <2>1. Len(pages'[n + 1].reqs) = 1 /\ pages'[n + 1].cap = cap
    BY <1>3, <1>7
  <2>2. size' - 1 + cap <= Capacity
    <3>1. size' = size + 1 /\ size' - 1 = size
      BY <1>2
    <3>2. QED
      BY <1>2, <3>1
  <2>3. QED
    BY <2>1, <2>2
<1>15. \A k \in 1..(n + 1) : InItemOrder(pages'[k].reqs)
  BY <1>4, <1>5, <1>7, <1>8 DEF PagesConsistent
<1>16. \A k, l \in 1..(n + 1) :
          k < l => Precedes(ItemsOf(pages'[k].reqs), ItemsOf(pages'[l].reqs))
  <2>1. SUFFICES ASSUME NEW k \in 1..(n + 1), NEW l \in 1..(n + 1), k < l
                 PROVE  Precedes(ItemsOf(pages'[k].reqs), ItemsOf(pages'[l].reqs))
    OBVIOUS
  <2>2. k \in 1..n /\ pages'[k] = pages[k]
    BY <1>1, <1>7, <2>1
  <2>3. ItemsOf(pages[k].reqs) \subseteq Queued
    BY <1>4, <2>2 DEF Queued
  <2>4. CASE l = n + 1
    BY <1>5, <1>7, <2>2, <2>3, <2>4 DEF Precedes
  <2>5. CASE l \in 1..n
    BY <1>4, <1>7, <2>1, <2>2, <2>5 DEF PagesConsistent
  <2>6. QED
    BY <1>8, <2>4, <2>5
<1>17. PagesConsistent'
  BY <1>7, <1>11, <1>12, <1>13, <1>14, <1>15, <1>16 DEF PagesConsistent, LastPage
<1>18. QED
  BY <1>9, <1>10, <1>17

\* A request with the largest item yet joins the queue.
LEMMA AppendKeepsPages ==
    ASSUME PagesTyped, PagesConsistent, NEW r \in Requests,
           \A i \in Queued : i < r.item, size < Capacity,
           pages' = AppendRequest(r), size' = size + 1
    PROVE  /\ PagesTyped'
           /\ Queued' = Queued \cup {r.item}
           /\ PagesConsistent'
<1>1. CASE pages = <<>> \/ Len(LastPage.reqs) = LastPage.cap
  BY <1>1, AppendPage DEF AppendRequest
<1>2. CASE ~(pages = <<>> \/ Len(LastPage.reqs) = LastPage.cap)
  BY <1>2, AppendToLast DEF AppendRequest
<1>3. QED
  BY <1>1, <1>2

\* The request that is dequeued next.
First == pages[1].reqs[1]

\* Dequeueing takes the one with the smallest item, and it alone.
LEMMA FirstFacts ==
    ASSUME PagesTyped, PagesConsistent, size > 0
    PROVE  /\ pages # <<>>
           /\ First \in Requests
           /\ First = Head(pages[1].reqs)
           /\ pages[1] \in Page
           /\ pages[1].reqs \in Seq(Requests) \ {<<>>}
           /\ First.item \in Queued
           /\ First.item \notin ItemsOf(Tail(pages[1].reqs))
           /\ \A k \in 2..Len(pages) : First.item \notin ItemsOf(pages[k].reqs)
<1>1. pages # <<>>
  <2>1. SUFFICES ASSUME pages = <<>>
                 PROVE  FALSE
    OBVIOUS
  <2>2. Queued = {}
    BY <2>1 DEF Queued
  <2>3. Cardinality({}) = 0
    BY FS_EmptySet, Zenon
  <2>4. size = Cardinality(Queued)
    BY DEF PagesConsistent
  <2>5. QED
    BY <2>2, <2>3, <2>4
<1>2. Len(pages) \in Nat \ {0} /\ 1 \in 1..Len(pages) /\ pages[1] \in Page
  BY <1>1 DEF PagesTyped
<1>3. pages[1].reqs \in Seq(Requests) /\ pages[1].cap \in Nat
  BY <1>2 DEF Page
<1>4. Len(pages[1].reqs) \in 1..pages[1].cap
  BY <1>2 DEF PagesConsistent
<1>5. pages[1].reqs # <<>>
  BY <1>3, <1>4
<1>6. First = Head(pages[1].reqs) /\ First \in Requests
  BY <1>3, <1>5 DEF First
<1>7. First.item \in ItemsOf(pages[1].reqs)
  BY <1>3, <1>5, <1>6, ItemsHeadTail
<1>8. First.item \in Queued
  BY <1>2, <1>7 DEF Queued
<1>9. First.item \notin ItemsOf(Tail(pages[1].reqs))
  <2>1. InItemOrder(pages[1].reqs)
    BY <1>2 DEF PagesConsistent
  <2>2. \A x \in Requests : x.item \in Int
    BY RequestInt
  <2>3. QED
    BY <1>3, <1>5, <1>6, <2>1, <2>2, OrderedTail
<1>10. ASSUME NEW k \in 2..Len(pages), First.item \in ItemsOf(pages[k].reqs)
       PROVE  FALSE
  <2>1. k \in 1..Len(pages) /\ 1 < k
    BY <1>2
  <2>2. Precedes(ItemsOf(pages[1].reqs), ItemsOf(pages[k].reqs))
    BY <1>2, <2>1 DEF PagesConsistent
  <2>3. First.item < First.item
    BY <1>7, <1>10, <2>2 DEF Precedes
  <2>4. First.item \in Items
    BY <1>6, RequestFacts
  <2>5. First.item \in Nat
    BY <2>4, ItemFacts
  <2>6. QED
    BY <2>3, <2>5
<1>11. QED
  BY <1>1, <1>2, <1>3, <1>5, <1>6, <1>8, <1>9, <1>10

\* A page with one request less needs no more of the capacity.
LEMMA OneLess ==
    ASSUME NEW a \in Int, NEW b \in Int, NEW c \in Int, NEW d \in Int, a - b + c <= d
    PROVE  a - 1 - b + c <= d
OBVIOUS

\* The page had one request: it goes.
LEMMA RemovePage ==
    ASSUME PagesTyped, PagesConsistent, size > 0,
           Len(pages[1].reqs) = 1, pages' = Tail(pages), size' = size - 1
    PROVE  /\ PagesTyped'
           /\ Queued' = Queued \ {First.item}
           /\ PagesConsistent'
<1> DEFINE n == Len(pages)
<1>1. /\ n \in Nat \ {0}
      /\ pages # <<>>
      /\ pages[1].reqs \in Seq(Requests) \ {<<>>}
      /\ First = Head(pages[1].reqs)
      /\ First.item \in Queued
      /\ \A k \in 2..n : First.item \notin ItemsOf(pages[k].reqs)
  BY FirstFacts DEF PagesTyped
<1>2. ItemsOf(pages[1].reqs) = {First.item}
  <2>1. pages[1].reqs[1] = First
    BY DEF First
  <2>2. QED
    BY <2>1 DEF ItemsOf
<1>3. Len(pages) = n
  OBVIOUS
<1> HIDE DEF n
<1>4. /\ pages' \in Seq(Page)
      /\ Len(pages') = n - 1
      /\ \A k \in 1..(n - 1) : pages'[k] = pages[k + 1]
  BY <1>1, <1>3, HeadTailProperties DEF PagesTyped
<1>5. \A k \in 1..(n - 1) : k + 1 \in 1..n /\ k + 1 \in 2..n
  BY <1>1
<1>6. Queued' = Queued \ {First.item}
  <2>1. \A i : i \in Queued <=> \E k \in 1..n : i \in ItemsOf(pages[k].reqs)
    BY <1>3 DEF Queued
  <2>2. \A i : i \in Queued' <=> \E k \in 1..(n - 1) : i \in ItemsOf(pages'[k].reqs)
    BY <1>4 DEF Queued
  <2>3. ASSUME NEW i \in Queued'
        PROVE  i \in Queued \ {First.item}
    <3>1. PICK k \in 1..(n - 1) : i \in ItemsOf(pages'[k].reqs)
      BY <2>2
    <3>2. k + 1 \in 1..n /\ k + 1 \in 2..n /\ i \in ItemsOf(pages[k + 1].reqs)
      BY <1>4, <1>5, <3>1
    <3>3. QED
      BY <1>1, <2>1, <3>2
  <2>4. ASSUME NEW i \in Queued, i # First.item
        PROVE  i \in Queued'
    <3>1. PICK k \in 1..n : i \in ItemsOf(pages[k].reqs)
      BY <2>1
    <3>2. k # 1
      BY <1>2, <2>4, <3>1
    <3>3. k - 1 \in 1..(n - 1) /\ (k - 1) + 1 = k
      BY <1>1, <3>2
    <3>4. i \in ItemsOf(pages'[k - 1].reqs)
      BY <1>4, <3>1, <3>3
    <3>5. QED
      BY <2>2, <3>3, <3>4
  <2>5. QED
    BY <2>3, <2>4
<1>7. size \in Nat /\ size' \in 0..Capacity
  BY Bounds DEF PagesTyped
<1>8. PagesTyped'
  BY <1>4, <1>7 DEF PagesTyped
<1>9. size' = Cardinality(Queued')
  BY <1>1, <1>6, QueuedFinite, FS_RemoveElement DEF PagesConsistent
<1>10. \A k \in 1..(n - 1) : Len(pages'[k].reqs) \in 1..pages'[k].cap
  BY <1>3, <1>4, <1>5 DEF PagesConsistent
<1>11. \A k \in 1..((n - 1) - 1) : Len(pages'[k].reqs) = pages'[k].cap
  <2>1. TAKE k \in 1..((n - 1) - 1)
  <2>2. k \in 1..(n - 1) /\ k + 1 \in 1..(n - 1)
    BY <1>1
  <2>3. QED
    BY <1>3, <1>4, <2>2 DEF PagesConsistent
<1>12. pages' # <<>> => size' - Len(pages'[n - 1].reqs) + pages'[n - 1].cap <= Capacity
  <2>1. SUFFICES ASSUME pages' # <<>>
                 PROVE  size' - Len(pages'[n - 1].reqs) + pages'[n - 1].cap <= Capacity
    OBVIOUS
  <2>2. n - 1 \in 1..(n - 1) /\ (n - 1) + 1 = n /\ n \in 1..n
    BY <1>1, <1>4, <2>1
  <2>3. pages'[n - 1] = pages[n] /\ pages[n] \in Page
    BY <1>3, <1>4, <2>2 DEF PagesTyped
  <2>4. pages[n].cap \in Int /\ Len(pages[n].reqs) \in Int
    BY <2>3 DEF Page
  <2>5. size - Len(pages[n].reqs) + pages[n].cap <= Capacity
    BY <1>1, <1>3 DEF PagesConsistent, LastPage
  <2>6. size \in Int /\ Capacity \in Int
    BY <1>7, Bounds
  <2>7. size' = size - 1
    OBVIOUS
  <2>8. size - 1 - Len(pages[n].reqs) + pages[n].cap <= Capacity
    BY ONLY <2>4, <2>5, <2>6, OneLess
  <2>9. QED
    BY <2>3, <2>7, <2>8
<1>13. \A k \in 1..(n - 1) : InItemOrder(pages'[k].reqs)
  BY <1>3, <1>4, <1>5 DEF PagesConsistent
<1>14. \A k, l \in 1..(n - 1) :
          k < l => Precedes(ItemsOf(pages'[k].reqs), ItemsOf(pages'[l].reqs))
  <2>1. SUFFICES ASSUME NEW k \in 1..(n - 1), NEW l \in 1..(n - 1), k < l
                 PROVE  Precedes(ItemsOf(pages'[k].reqs), ItemsOf(pages'[l].reqs))
    OBVIOUS
  <2>2. k + 1 \in 1..n /\ l + 1 \in 1..n /\ k + 1 < l + 1
    BY <1>1, <2>1
  <2>3. QED
    BY <1>3, <1>4, <2>2 DEF PagesConsistent
<1>15. PagesConsistent'
  BY <1>4, <1>9, <1>10, <1>11, <1>12, <1>13, <1>14 DEF PagesConsistent, LastPage
<1>16. QED
  BY <1>6, <1>8, <1>15

\* The page has more: it shrinks, and what it may still take with it.
LEMMA ShrinkPage ==
    ASSUME PagesTyped, PagesConsistent, size > 0,
           Len(pages[1].reqs) # 1,
           pages' = RemoveRequest,
           size' = size - 1
    PROVE  /\ PagesTyped'
           /\ Queued' = Queued \ {First.item}
           /\ PagesConsistent'
<1> DEFINE n == Len(pages)
           old == pages[1]
           page == [reqs |-> Tail(old.reqs), cap |-> old.cap - 1]
<1>1. /\ n \in Nat \ {0} /\ 1 \in 1..n /\ pages # <<>>
      /\ \A k \in 1..n : pages[k] \in Page
  BY FirstFacts DEF PagesTyped
<1>2. /\ old \in Page /\ old.reqs \in Seq(Requests) \ {<<>>}
      /\ First = Head(old.reqs)
      /\ First.item \in Queued
      /\ First.item \notin ItemsOf(Tail(old.reqs))
      /\ \A k \in 2..n : First.item \notin ItemsOf(pages[k].reqs)
  BY FirstFacts
<1>3. Len(old.reqs) \in 1..old.cap /\ old.cap \in Nat
  BY <1>1, <1>2 DEF PagesConsistent, Page
<1>4. /\ page.reqs = Tail(old.reqs) /\ page.cap = old.cap - 1
      /\ page.reqs \in Seq(Requests)
      /\ Len(page.reqs) = Len(old.reqs) - 1
      /\ Len(page.reqs) \in 1..page.cap
      /\ page.cap \in Nat
  <2>1. page.reqs = Tail(old.reqs) /\ page.cap = old.cap - 1
    OBVIOUS
  <2>2. /\ Tail(old.reqs) \in Seq(Requests)
        /\ Len(Tail(old.reqs)) = Len(old.reqs) - 1
    BY <1>2, HeadTailProperties
  <2>3. Len(old.reqs) # 1
    OBVIOUS
  <2>4. Len(old.reqs) - 1 \in 1..(old.cap - 1) /\ old.cap - 1 \in Nat
    <3>1. ASSUME NEW a \in Nat, NEW b \in Nat, b \in 1..a, b # 1
          PROVE  b - 1 \in 1..(a - 1) /\ a - 1 \in Nat
      BY <3>1
    <3> HIDE DEF old
    <3>2. Len(old.reqs) \in Nat
      BY <1>3
    <3>3. QED
      BY <1>3, <2>3, <3>1, <3>2
  <2>5. QED
    BY <2>1, <2>2, <2>4
<1>5. page \in Page
  BY <1>4 DEF Page
<1>6. ItemsOf(old.reqs) = {First.item} \cup ItemsOf(page.reqs)
  BY <1>2, <1>4, ItemsHeadTail
<1>7. InItemOrder(page.reqs)
  <2>1. InItemOrder(old.reqs)
    BY <1>1 DEF PagesConsistent
  <2>2. \A x \in Requests : x.item \in Int
    BY RequestInt
  <2>3. QED
    BY <1>2, <1>4, <2>1, <2>2, OrderedTail
<1>8. /\ pages' = [pages EXCEPT ![1] = page] /\ Len(pages) = n /\ old = pages[1]
      /\ Len(old.reqs) - old.cap = Len(page.reqs) - page.cap
  <2>1. Len(old.reqs) - old.cap = Len(page.reqs) - page.cap
    <3>1. \A a, b \in Nat : b - a = (b - 1) - (a - 1)
      OBVIOUS
    <3>2. Len(old.reqs) \in Nat
      BY <1>3
    <3> HIDE DEF old, page
    <3>3. QED
      BY <1>3, <1>4, <3>1, <3>2
  <2>2. pages' = [pages EXCEPT ![1] = page]
    BY DEF RemoveRequest
  <2>3. QED
    BY <2>1, <2>2
<1> HIDE DEF n, old, page
<1>9. /\ pages' \in Seq(Page)
      /\ Len(pages') = n
      /\ \A k \in 1..n : pages'[k] = IF k = 1 THEN page ELSE pages[k]
  <2>1. pages \in Seq(Page)
    BY DEF PagesTyped
  <2>2. 1 \in 1..Len(pages)
    BY <1>1, <1>8
  <2>3. /\ [pages EXCEPT ![1] = page] \in Seq(Page)
        /\ Len([pages EXCEPT ![1] = page]) = Len(pages)
        /\ \A j \in 1..Len(pages) :
              [pages EXCEPT ![1] = page][j] = IF j = 1 THEN page ELSE pages[j]
    BY <1>5, <2>1, <2>2, ExceptSeq
  <2>4. QED
    BY <1>8, <2>3, Zenon
<1>10. \A k \in 1..n : k = 1 \/ k \in 2..n
  BY <1>1
<1>11. \A k \in 1..n : ItemsOf(pages'[k].reqs) = ItemsOf(pages[k].reqs) \ {First.item}
  <2>1. TAKE k \in 1..n
  <2>2. CASE k = 1
    BY <1>2, <1>4, <1>6, <1>8, <1>9, <2>2
  <2>3. CASE k # 1
    BY <1>2, <1>9, <1>10, <2>3
  <2>4. QED
    BY <2>2, <2>3
<1>12. Queued' = Queued \ {First.item}
  <2>1. \A i : i \in Queued <=> \E k \in 1..n : i \in ItemsOf(pages[k].reqs)
    BY <1>8 DEF Queued
  <2>2. \A i : i \in Queued' <=> \E k \in 1..n : i \in ItemsOf(pages'[k].reqs)
    BY <1>9 DEF Queued
  <2>3. ASSUME NEW i
        PROVE  i \in Queued' <=> i \in Queued /\ i # First.item
    BY <1>11, <2>1, <2>2
  <2>4. QED
    BY <2>3
<1>13. size \in Nat /\ size' \in 0..Capacity
  BY Bounds DEF PagesTyped
<1>14. PagesTyped'
  BY <1>9, <1>13 DEF PagesTyped
<1>15. size' = Cardinality(Queued')
  BY <1>2, <1>12, QueuedFinite, FS_RemoveElement DEF PagesConsistent
<1>16. \A k \in 1..n : Len(pages'[k].reqs) \in 1..pages'[k].cap
  BY <1>4, <1>8, <1>9 DEF PagesConsistent
<1>17. \A k \in 1..(n - 1) : Len(pages'[k].reqs) = pages'[k].cap
  <2>1. TAKE k \in 1..(n - 1)
  <2>2. k \in 1..n /\ Len(pages[k].reqs) = pages[k].cap
    BY <1>1, <1>8 DEF PagesConsistent
  <2>3. CASE k = 1
    BY <1>3, <1>4, <1>8, <1>9, <2>2, <2>3
  <2>4. CASE k # 1
    BY <1>9, <2>2, <2>4
  <2>5. QED
    BY <2>3, <2>4
<1>18. size' - Len(pages'[n].reqs) + pages'[n].cap <= Capacity
  <2>1. n \in 1..n /\ pages[n] \in Page
    BY <1>1
  <2>2. size - Len(pages[n].reqs) + pages[n].cap <= Capacity
    BY <1>1, <1>8 DEF PagesConsistent, LastPage
  <2>3. Capacity \in Nat /\ pages[n].cap \in Nat /\ Len(pages[n].reqs) \in Nat
    BY <2>1, Bounds DEF Page
  <2>4. size' = size - 1
    OBVIOUS
  <2> DEFINE len == Len(pages[n].reqs)
             cap == pages[n].cap
             newlen == Len(page.reqs)
             newcap == page.cap
  <2> HIDE DEF len, cap, newlen, newcap
  <2>cap. size - len + cap <= Capacity /\ len \in Nat /\ cap \in Nat
    BY <2>2, <2>3 DEF len, cap
  <2>new. newlen \in Nat /\ newcap \in Nat
    BY <1>4 DEF newlen, newcap
  <2>5. CASE n = 1
    <3>1. Len(page.reqs) - page.cap = Len(pages[n].reqs) - pages[n].cap
      BY <1>8, <2>5
    <3>2. newlen - newcap = len - cap
      BY <3>1 DEF len, cap, newlen, newcap
    <3>3. size - newlen + newcap <= Capacity
      BY <1>13, <2>3, <2>cap, <2>new, <3>2
    <3>4. size - 1 - newlen + newcap <= Capacity
      BY <1>13, <2>3, <2>new, <3>3, OneLess
    <3>5. QED
      BY <1>9, <2>1, <2>4, <2>5, <3>4 DEF newlen, newcap
  <2>6. CASE n # 1
    <3>1. size - 1 - len + cap <= Capacity
      BY <1>13, <2>3, <2>cap, OneLess
    <3>2. QED
      BY <1>9, <2>1, <2>4, <2>6, <3>1 DEF len, cap
  <2>7. QED
    BY <2>5, <2>6
<1>19. \A k \in 1..n : InItemOrder(pages'[k].reqs)
  BY <1>7, <1>8, <1>9 DEF PagesConsistent
<1>20. \A k, l \in 1..n :
          k < l => Precedes(ItemsOf(pages'[k].reqs), ItemsOf(pages'[l].reqs))
  <2>1. SUFFICES ASSUME NEW k \in 1..n, NEW l \in 1..n, k < l
                 PROVE  Precedes(ItemsOf(pages'[k].reqs), ItemsOf(pages'[l].reqs))
    OBVIOUS
  <2>2. Precedes(ItemsOf(pages[k].reqs), ItemsOf(pages[l].reqs))
    BY <1>8, <2>1 DEF PagesConsistent
  <2>3. /\ ItemsOf(pages'[k].reqs) \subseteq ItemsOf(pages[k].reqs)
        /\ ItemsOf(pages'[l].reqs) \subseteq ItemsOf(pages[l].reqs)
    BY <1>11
  <2>4. QED
    BY <2>2, <2>3 DEF Precedes
<1>21. PagesConsistent'
  BY <1>9, <1>15, <1>16, <1>17, <1>18, <1>19, <1>20 DEF PagesConsistent, LastPage
<1>22. QED
  BY <1>12, <1>14, <1>21

\* Taking the first request keeps the queue consistent.
LEMMA RemoveKeepsPages ==
    ASSUME PagesTyped, PagesConsistent, size > 0,
           pages' = RemoveRequest, size' = size - 1
    PROVE  /\ PagesTyped'
           /\ Queued' = Queued \ {First.item}
           /\ PagesConsistent'
<1>1. CASE Len(pages[1].reqs) = 1
  BY <1>1, RemovePage DEF RemoveRequest
<1>2. CASE Len(pages[1].reqs) # 1
  BY <1>2, ShrinkPage
<1>3. QED
  BY <1>1, <1>2

-----------------------------------------------------------------------------
(* The inductive invariant.                                                *)

\* What each stage of the pipeline has, and what has no fate yet.
InInput == Elements(input)
InGStream == Elements(gstream)
InGWorkers == {gitem[g] : g \in GStreamWorkers} \cap Items
InWorkers == {wrec[w].item : w \in Workers} \cap Items
InResults == ItemsOf(results)
InFlight == {i \in Items : i <= next /\ fate[i] = "none"}

Partition(A, B, C, D, E, F, whole) ==
    /\ whole = A \cup B \cup C \cup D \cup E \cup F
    /\ A \cap (B \cup C \cup D \cup E \cup F) = {}
    /\ B \cap (C \cup D \cup E \cup F) = {}
    /\ C \cap (D \cup E \cup F) = {}
    /\ D \cap (E \cup F) = {}
    /\ E \cap F = {}

\* Every packet that was read and has no fate is in one stage.
StageInv == Partition(InInput, InGStream, InGWorkers, Queued, InWorkers, InResults, InFlight)

\* And it is there once; what waits behind the packet loop came earlier than
\* what waits before it, and what was not read has no fate.
OnceInv ==
    /\ Increasing(input)
    /\ Increasing(gstream)
    /\ \A g, h \in GStreamWorkers : gitem[g] \in Items /\ gitem[g] = gitem[h] => g = h
    /\ \A v, w \in Workers : wrec[v].item \in Items /\ wrec[v].item = wrec[w].item => v = w
    /\ DistinctItems(results)
    /\ Precedes(Queued \cup InGStream, InInput)
    /\ \A i \in Items : i > next => fate[i] = "none"

\* How far shutdown is, and what has ended for good by then.
ShutdownInv ==
    /\ mpc # "loop" => inputClosed /\ input = <<>>
    /\ gstreamClosed <=> mpc # "loop"
    /\ closed <=> mpc \notin {"loop", "wait gstream"}
    /\ closed => \A g \in GStreamWorkers : gitem[g] = -1
    /\ \A g \in GStreamWorkers : gitem[g] = -1 => gstreamClosed /\ gstream = <<>>
    /\ \A w \in Workers : wpc[w] = "returned" => closed /\ size = 0
    /\ resultsClosed <=> mpc \in {"wait publisher", "exited"}
    /\ resultsClosed => \A w \in Workers : wpc[w] = "returned"
    /\ publisherDone => resultsClosed /\ results = <<>>
    /\ outClosed <=> mpc = "exited"
    /\ mpc = "exited" => publisherDone

\* Events and records keep to their ways, and what the filter drops goes no
\* further than the worker that dequeued it.
RouteInv ==
    /\ \A i \in Queued \cup InWorkers \cup InResults : Feed[i].kind = "close"
    /\ \A i \in InGStream \cup InGWorkers : Feed[i].kind \in GStreamKinds
    /\ \A w \in Workers : wpc[w] = "send" => ~ShouldDrop(wrec[w])
    /\ \A i \in InResults : ~ShouldDrop(Record(i))
    /\ RoutedByOwnVO

IInv == TypeOK /\ PagesConsistent /\ StageInv /\ OnceInv /\ ShutdownInv /\ RouteInv

-----------------------------------------------------------------------------
(* Types.                                                                  *)

\* The types of the queue are among the types.
LEMMA PagesAreTyped == TypeOK => PagesTyped
BY DEF TypeOK, QueueTypes, PagesTyped, Page

\* A step that leaves the variables of a part alone leaves their types.
LEMMA TypesKept ==
    ASSUME TypeOK
    PROVE  /\ UNCHANGED inputVars => InputTypes'
           /\ UNCHANGED gstreamVars => GStreamTypes'
           /\ UNCHANGED queueVars => QueueTypes'
           /\ UNCHANGED workerVars => WorkerTypes'
           /\ UNCHANGED outVars => OutTypes'
<1>1. UNCHANGED inputVars => InputTypes'
  BY DEF TypeOK, InputTypes, inputVars
<1>2. UNCHANGED gstreamVars => GStreamTypes'
  BY DEF TypeOK, GStreamTypes, gstreamVars
<1>3. UNCHANGED queueVars => QueueTypes'
  BY DEF TypeOK, QueueTypes, queueVars
<1>4. UNCHANGED workerVars => WorkerTypes'
  BY DEF TypeOK, WorkerTypes, workerVars
<1>5. UNCHANGED outVars => OutTypes'
  BY DEF TypeOK, OutTypes, outVars
<1>6. QED
  BY <1>1, <1>2, <1>3, <1>4, <1>5

\* Main is somewhere, the context is live or done, items have one of the fates.
RestTypes ==
    /\ mpc \in {"loop", "wait gstream", "cancel", "wait workers", "wait publisher", "exited"}
    /\ ctxDone \in BOOLEAN
    /\ fate \in [Items -> {"none", "stored", "emitted", "dropped", "cancelled"}]

LEMMA TypeParts ==
    /\ TypeOK <=> InputTypes /\ GStreamTypes /\ QueueTypes /\ WorkerTypes /\ OutTypes /\ RestTypes
    /\ InputTypes' /\ GStreamTypes' /\ QueueTypes' /\ WorkerTypes' /\ OutTypes' /\ RestTypes'
          => TypeOK'
BY DEF TypeOK, RestTypes

LEMMA RestKept ==
    ASSUME TypeOK, mpc' = mpc, ctxDone' = ctxDone
    PROVE  /\ fate' = fate => RestTypes'
           /\ \A i \in Items : \A f \in {"stored", "emitted", "dropped", "cancelled"} :
                 Settle(i, f) => RestTypes'
BY DEF TypeOK, RestTypes, Settle

\* The request a worker holds.
LEMMA HeldRequest ==
    ASSUME TypeOK, NEW w \in Workers, wpc[w] \in {"process", "send"}
    PROVE  /\ wrec[w] \in Requests
           /\ wrec[w].item \in Items
           /\ BuildEnrichedRecord(wrec[w]) \in EnrichedRecords
<1>1. wrec[w] \in Requests
  BY DEF TypeOK, WorkerTypes
<1>2. QED
  BY <1>1, RequestFacts DEF EnrichedRecords

\* The worker that goes back for its next request has none.
LEMMA NextRequestTypes ==
    ASSUME TypeOK, NEW w \in Workers, NextRequest(w)
    PROVE  WorkerTypes'
BY DEF TypeOK, WorkerTypes, NextRequest

LEMMA ReaderTypes ==
    ASSUME TypeOK, Reader
    PROVE  TypeOK'
<1>0. InputTypes
  BY TypeParts
<1>1. CASE ReadNext
  <2>1. /\ next' = next + 1 /\ next + 1 <= written /\ written' = written
        /\ source' = source /\ eof' = eof /\ inputClosed' = inputClosed
        /\ mpc' = mpc /\ ctxDone' = ctxDone
        /\ UNCHANGED <<gstreamVars, queueVars, workerVars, outVars>>
    BY <1>1 DEF ReadNext
  <2>2. /\ next + 1 \in Items /\ next + 1 \in 0..written
        /\ input \in Seq(Items) /\ Len(input) <= InputCap
    BY <1>0, <2>1, FeedLength DEF InputTypes, Items
  <2>3. \/ input' = input /\ Settle(next + 1, "dropped")
        \/ input' = Append(input, next + 1) /\ Len(input) < InputCap /\ fate' = fate
    BY <1>1 DEF ReadNext, Offer
  <2>4. input' \in Seq(Items) /\ Len(input') <= InputCap
    <3>1. /\ Append(input, next + 1) \in Seq(Items)
          /\ Len(Append(input, next + 1)) = Len(input) + 1
          /\ Len(input) \in Nat
          /\ InputCap \in Nat
      BY <2>2, Bounds
    <3>2. QED
      BY <2>2, <2>3, <3>1
  <2>5. InputTypes'
    BY <1>0, <2>1, <2>2, <2>4 DEF InputTypes
  <2>6. RestTypes'
    BY <2>1, <2>2, <2>3, RestKept
  <2>7. QED
    BY <2>1, <2>5, <2>6, TypesKept, TypeParts
<1>2. CASE ReadEOF \/ ReadError
  <2>1. /\ source' = source /\ written' = written /\ next' = next /\ input' = input
        /\ eof' \in {eof, TRUE} /\ inputClosed' \in BOOLEAN
        /\ mpc' = mpc /\ ctxDone' = ctxDone /\ fate' = fate
        /\ UNCHANGED <<gstreamVars, queueVars, workerVars, outVars>>
    BY <1>2 DEF ReadEOF, ReadError
  <2>2. InputTypes'
    BY <1>0, <2>1 DEF InputTypes
  <2>3. QED
    BY <2>1, <2>2, TypesKept, TypeParts, RestKept
<1>3. QED
  BY <1>1, <1>2 DEF Reader

LEMMA HandleTypes ==
    ASSUME TypeOK, PagesConsistent, OnceInv, HandleParsedPacket
    PROVE  TypeOK'
<1> DEFINE i == Head(input)
<1>0. InputTypes /\ GStreamTypes /\ QueueTypes
  BY TypeParts
<1>1. /\ source' = source /\ written' = written /\ next' = next /\ eof' = eof
      /\ inputClosed' = inputClosed /\ input # <<>> /\ input' = Tail(input)
      /\ mpc' = mpc /\ ctxDone' = ctxDone
      /\ UNCHANGED <<workerVars, outVars>>
  BY DEF HandleParsedPacket
<1>2. ParseFails(i) \/ HandleState(i) \/ HandleGStream(i) \/ EnqueueForEnrichment(i)
  BY DEF HandleParsedPacket
<1>3. i \in Items /\ Tail(input) \in Seq(Items) /\ i \in InInput
      /\ Len(Tail(input)) = Len(input) - 1 /\ Len(input) \in Nat /\ Len(input) <= InputCap
  BY <1>0, <1>1, ElementsHeadTail DEF InInput, InputTypes
<1>4. InputTypes'
  <2>1. InputCap \in Nat
    BY Bounds
  <2>2. Len(Tail(input)) <= InputCap
    BY <1>3, <2>1
  <2>3. QED
    BY <1>0, <1>1, <1>3, <2>2 DEF InputTypes
<1>5. WorkerTypes' /\ OutTypes'
  BY <1>1, TypesKept
<1> HIDE DEF i
<1>6. CASE ParseFails(i) \/ HandleState(i)
  <2>1. /\ \E f \in {"dropped", "stored"} : Settle(i, f)
        /\ UNCHANGED <<gstreamVars, queueVars>>
    BY <1>6 DEF ParseFails, HandleState
  <2>2. QED
    BY <1>1, <1>3, <1>4, <1>5, <2>1, TypesKept, TypeParts, RestKept
<1>7. CASE HandleGStream(i)
  <2>1. /\ \/ gstream' = Append(gstream, i) /\ Len(gstream) < GStreamCap /\ fate' = fate
           \/ gstream' = gstream /\ Settle(i, "dropped")
        /\ gstreamClosed' = gstreamClosed /\ gitem' = gitem
        /\ UNCHANGED queueVars
    BY <1>7 DEF HandleGStream
  <2>2. RestTypes'
    BY <1>1, <1>3, <2>1, RestKept
  <2>3. /\ Append(gstream, i) \in Seq(Items)
        /\ Len(Append(gstream, i)) = Len(gstream) + 1
        /\ Len(gstream) \in Nat
        /\ GStreamCap \in Nat
    BY <1>0, <1>3, Bounds DEF GStreamTypes
  <2>4. gstream' \in Seq(Items) /\ Len(gstream') <= GStreamCap
    BY <1>0, <2>1, <2>3 DEF GStreamTypes
  <2>5. GStreamTypes'
    BY <1>0, <2>1, <2>4 DEF GStreamTypes
  <2>6. QED
    BY <1>4, <1>5, <2>1, <2>2, <2>5, TypesKept, TypeParts
<1>8. CASE EnqueueForEnrichment(i)
  <2>1. /\ \/ /\ pages' = AppendRequest(Record(i)) /\ size' = size + 1 /\ size < Capacity
              /\ asleep' \subseteq asleep /\ fate' = fate
           \/ UNCHANGED <<pages, size, asleep>> /\ Settle(i, "dropped")
        /\ closed' = closed
        /\ UNCHANGED gstreamVars
    BY <1>8 DEF EnqueueForEnrichment, Signal
  <2>2. RestTypes'
    BY <1>1, <1>3, <2>1, RestKept
  <2>3. GStreamTypes'
    BY <2>1, TypesKept
  <2>4. QueueTypes'
    <3>1. CASE UNCHANGED <<pages, size, asleep>>
      BY <2>1, <3>1, TypesKept DEF queueVars
    <3>2. CASE size < Capacity /\ pages' = AppendRequest(Record(i)) /\ size' = size + 1
      <4>1. Record(i) \in Requests /\ Record(i).item = i
        BY <1>3 DEF Requests, Record
      <4>2. \A q \in Queued : q < Record(i).item
        BY <1>3, <4>1 DEF OnceInv, Precedes
      <4>3. PagesTyped'
        BY <3>2, <4>1, <4>2, PagesAreTyped, AppendKeepsPages
      <4>4. closed' \in BOOLEAN /\ asleep' \subseteq Workers
        BY <1>0, <2>1 DEF QueueTypes
      <4>5. QED
        BY <4>3, <4>4 DEF QueueTypes, PagesTyped, Page
    <3>3. QED
      BY <2>1, <3>1, <3>2
  <2>5. QED
    BY <1>4, <1>5, <2>2, <2>3, <2>4, TypeParts
<1>9. QED
  BY <1>2, <1>6, <1>7, <1>8

LEMMA GStreamWorkerTypes ==
    ASSUME TypeOK, NEW g \in GStreamWorkers, GStreamWorker(g)
    PROVE  TypeOK'
<1>0. GStreamTypes /\ OutTypes
  BY TypeParts
<1>1. CASE GStreamTake(g)
  <2>1. /\ gstream # <<>> /\ gstream' = Tail(gstream) /\ gstreamClosed' = gstreamClosed
        /\ gitem' = [gitem EXCEPT ![g] = Head(gstream)]
        /\ mpc' = mpc /\ ctxDone' = ctxDone /\ fate' = fate
        /\ UNCHANGED <<inputVars, queueVars, workerVars, outVars>>
    BY <1>1 DEF GStreamTake
  <2>2. Head(gstream) \in Items /\ Tail(gstream) \in Seq(Items)
        /\ Len(Tail(gstream)) = Len(gstream) - 1 /\ Len(gstream) \in Nat
    BY <1>0, <2>1 DEF GStreamTypes
  <2>3. GStreamTypes'
    BY <1>0, <2>1, <2>2, Bounds DEF GStreamTypes
  <2>4. QED
    BY <2>1, <2>3, TypesKept, TypeParts, RestKept
<1>2. CASE GStreamEmit(g)
  <2>1. /\ gitem[g] > 0 /\ gitem' = [gitem EXCEPT ![g] = 0]
        /\ gstream' = gstream /\ gstreamClosed' = gstreamClosed
        /\ out' \in {out, out \cup {GStreamEvent(gitem[g])}}
        /\ \E f \in {"emitted", "dropped"} : Settle(gitem[g], f)
        /\ mpc' = mpc /\ ctxDone' = ctxDone
        /\ UNCHANGED <<inputVars, queueVars, workerVars, results, resultsClosed, publisherDone,
                       outClosed>>
    BY <1>2 DEF GStreamEmit, WriteToExchange
  <2>2. gitem[g] \in Items
    BY <1>0, <2>1 DEF GStreamTypes
  <2>3. GStreamTypes'
    BY <1>0, <2>1 DEF GStreamTypes
  <2>4. OutTypes'
    BY <1>0, <2>1, <2>2 DEF OutTypes
  <2>5. RestTypes'
    BY <2>1, <2>2, RestKept
  <2>6. QED
    BY <2>1, <2>3, <2>4, <2>5, TypesKept, TypeParts
<1>3. CASE GStreamReturn(g)
  <2>1. /\ gitem' = [gitem EXCEPT ![g] = -1] /\ gstream' = gstream
        /\ gstreamClosed' = gstreamClosed
        /\ mpc' = mpc /\ ctxDone' = ctxDone /\ fate' = fate
        /\ UNCHANGED <<inputVars, queueVars, workerVars, outVars>>
    BY <1>3 DEF GStreamReturn
  <2>2. GStreamTypes'
    BY <1>0, <2>1 DEF GStreamTypes
  <2>3. QED
    BY <2>1, <2>2, TypesKept, TypeParts, RestKept
<1>4. QED
  BY <1>1, <1>2, <1>3 DEF GStreamWorker

LEMMA EnrichmentWorkerTypes ==
    ASSUME TypeOK, PagesConsistent, NEW w \in Workers, EnrichmentWorker(w)
    PROVE  TypeOK'
<1>0. QueueTypes /\ WorkerTypes /\ OutTypes
  BY TypeParts
<1>1. CASE Dequeue(w)
  <2>1. /\ size > 0 /\ pages' = RemoveRequest /\ size' = size - 1
        /\ closed' = closed /\ asleep' = asleep
        /\ wpc' = [wpc EXCEPT ![w] = "process"]
        /\ wrec' = [wrec EXCEPT ![w] = First]
        /\ mpc' = mpc /\ ctxDone' = ctxDone /\ fate' = fate
        /\ UNCHANGED <<inputVars, gstreamVars, outVars>>
    BY <1>1 DEF Dequeue, First
  <2>2. First \in Requests /\ First # NoRecord
    BY <2>1, PagesAreTyped, FirstFacts, RequestFacts
  <2>3. PagesTyped'
    BY <2>1, PagesAreTyped, RemoveKeepsPages
  <2>4. QueueTypes'
    BY <1>0, <2>1, <2>3 DEF QueueTypes, PagesTyped, Page
  <2>5. WorkerTypes'
    BY <1>0, <2>1, <2>2 DEF WorkerTypes
  <2>6. QED
    BY <2>1, <2>4, <2>5, TypesKept, TypeParts, RestKept
<1>2. CASE DequeueWaits(w)
  <2>1. QueueTypes'
    BY <1>0, <1>2 DEF DequeueWaits, QueueTypes
  <2>2. QED
    BY <1>2, <2>1, TypesKept, TypeParts, RestKept DEF DequeueWaits
<1>3. CASE WorkerReturns(w)
  <2>1. /\ wpc' = [wpc EXCEPT ![w] = "returned"] /\ wpc[w] = "dequeue" /\ wrec' = wrec
        /\ mpc' = mpc /\ ctxDone' = ctxDone /\ fate' = fate
        /\ UNCHANGED <<inputVars, gstreamVars, queueVars, outVars>>
    BY <1>3 DEF WorkerReturns
  <2>2. WorkerTypes'
    BY <1>0, <2>1 DEF WorkerTypes
  <2>3. QED
    BY <2>1, <2>2, TypesKept, TypeParts, RestKept
<1>4. CASE FilterDrops(w) \/ SendCancelled(w)
  <2>1. /\ wpc[w] \in {"process", "send"}
        /\ \E f \in {"dropped", "cancelled"} : Settle(wrec[w].item, f)
        /\ NextRequest(w)
        /\ mpc' = mpc /\ ctxDone' = ctxDone
        /\ UNCHANGED <<inputVars, gstreamVars, queueVars, outVars>>
    BY <1>4 DEF FilterDrops, SendCancelled
  <2>2. wrec[w].item \in Items
    BY <2>1, HeldRequest
  <2>3. QED
    BY <2>1, <2>2, NextRequestTypes, TypesKept, TypeParts, RestKept
<1>5. CASE Enrich(w)
  <2>1. /\ wpc[w] = "process"
        /\ \/ wpc' = [wpc EXCEPT ![w] = "send"] /\ wrec' = wrec /\ fate' = fate
           \/ Settle(wrec[w].item, "dropped") /\ NextRequest(w)
        /\ mpc' = mpc /\ ctxDone' = ctxDone
        /\ UNCHANGED <<inputVars, gstreamVars, queueVars, outVars>>
    BY <1>5 DEF Enrich
  <2>2. wrec[w].item \in Items
    BY <2>1, HeldRequest
  <2>3. CASE wpc' = [wpc EXCEPT ![w] = "send"] /\ wrec' = wrec /\ fate' = fate
    <3>1. WorkerTypes'
      BY <1>0, <2>1, <2>3 DEF WorkerTypes
    <3>2. QED
      BY <2>1, <2>3, <3>1, TypesKept, TypeParts, RestKept
  <2>4. CASE Settle(wrec[w].item, "dropped") /\ NextRequest(w)
    BY <2>1, <2>2, <2>4, NextRequestTypes, TypesKept, TypeParts, RestKept
  <2>5. QED
    BY <2>1, <2>3, <2>4
<1>6. CASE Send(w)
  <2>1. /\ wpc[w] = "send" /\ NextRequest(w)
        /\ Len(results) < ResultsCap
        /\ results' = Append(results, BuildEnrichedRecord(wrec[w]))
        /\ mpc' = mpc /\ ctxDone' = ctxDone /\ fate' = fate
        /\ UNCHANGED <<inputVars, gstreamVars, queueVars, resultsClosed, publisherDone, out,
                       outClosed>>
    BY <1>6 DEF Send
  <2>2. BuildEnrichedRecord(wrec[w]) \in EnrichedRecords
    BY <2>1, HeldRequest
  <2> DEFINE e == BuildEnrichedRecord(wrec[w])
  <2> HIDE DEF e
  <2>3. /\ Append(results, e) \in Seq(EnrichedRecords)
        /\ Len(Append(results, e)) = Len(results) + 1
        /\ Len(results) \in Nat /\ ResultsCap \in Nat
    BY <1>0, <2>2, Bounds DEF OutTypes, e
  <2>4. OutTypes'
    BY <1>0, <2>1, <2>3 DEF OutTypes, e
  <2>5. QED
    BY <2>1, <2>4, NextRequestTypes, TypesKept, TypeParts, RestKept
<1>7. QED
  BY <1>1, <1>2, <1>3, <1>4, <1>5, <1>6 DEF EnrichmentWorker

LEMMA TypeStep ==
    ASSUME TypeOK, PagesConsistent, OnceInv, [Next]_vars
    PROVE  TypeOK'
<1>0. InputTypes /\ GStreamTypes /\ QueueTypes /\ OutTypes /\ RestTypes
  BY TypeParts
<1>1. CASE LineAppended
  <2>1. InputTypes'
    BY <1>0, <1>1, FeedLength DEF LineAppended, InputTypes
  <2>2. QED
    BY <1>1, <2>1, TypesKept, TypeParts, RestKept DEF LineAppended
<1>2. CASE Reader
  BY <1>2, ReaderTypes
<1>3. CASE HandleParsedPacket
  BY <1>3, HandleTypes
<1>4. ASSUME NEW g \in GStreamWorkers, GStreamWorker(g)
      PROVE  TypeOK'
  BY <1>4, GStreamWorkerTypes
<1>5. ASSUME NEW w \in Workers, EnrichmentWorker(w)
      PROVE  TypeOK'
  BY <1>5, EnrichmentWorkerTypes
<1>6. CASE Publish
  <2>1. /\ results # <<>> /\ results' = Tail(results) /\ out' = out \cup {Head(results)}
        /\ Settle(Head(results).item, "emitted")
        /\ mpc' = mpc /\ ctxDone' = ctxDone
        /\ UNCHANGED <<inputVars, gstreamVars, queueVars, workerVars, resultsClosed,
                       publisherDone, outClosed>>
    BY <1>6 DEF Publish, WriteToExchange
  <2>2. /\ Head(results) \in EnrichedRecords /\ Tail(results) \in Seq(EnrichedRecords)
        /\ Len(Tail(results)) = Len(results) - 1 /\ Len(results) \in Nat
    BY <1>0, <2>1 DEF OutTypes
  <2>3. Head(results).item \in Items
    BY <2>2, EnrichedFacts
  <2>4. OutTypes'
    BY <1>0, <2>1, <2>2, Bounds DEF OutTypes
  <2>5. RestTypes'
    BY <2>1, <2>3, RestKept
  <2>6. QED
    BY <2>1, <2>4, <2>5, TypesKept, TypeParts
<1>7. CASE PublisherReturns
  <2>1. OutTypes'
    BY <1>0, <1>7 DEF PublisherReturns, OutTypes
  <2>2. QED
    BY <1>7, <2>1, TypesKept, TypeParts, RestKept DEF PublisherReturns
<1>8. CASE LoopEnds \/ StopClosesQueue \/ StopCancels
  <2>1. GStreamTypes'
    BY <1>0, <1>8 DEF LoopEnds, StopClosesQueue, StopCancels, gstreamVars, GStreamTypes
  <2>2. QueueTypes'
    BY <1>0, <1>8 DEF LoopEnds, StopClosesQueue, StopCancels, queueVars, QueueTypes
  <2>3. RestTypes'
    BY <1>0, <1>8 DEF LoopEnds, StopClosesQueue, StopCancels, RestTypes
  <2>4. UNCHANGED <<inputVars, workerVars, outVars>>
    BY <1>8 DEF LoopEnds, StopClosesQueue, StopCancels
  <2>5. QED
    BY <2>1, <2>2, <2>3, <2>4, TypesKept, TypeParts
<1>9. CASE ClosesResults \/ ClosesOutput
  <2>1. OutTypes'
    BY <1>0, <1>9 DEF ClosesResults, ClosesOutput, OutTypes
  <2>2. RestTypes'
    BY <1>0, <1>9 DEF ClosesResults, ClosesOutput, RestTypes
  <2>3. UNCHANGED <<inputVars, gstreamVars, queueVars, workerVars>>
    BY <1>9 DEF ClosesResults, ClosesOutput
  <2>4. QED
    BY <2>1, <2>2, <2>3, TypesKept, TypeParts
<1>10. CASE UNCHANGED vars
  BY <1>10, TypesKept, TypeParts, RestKept DEF vars
<1>11. QED
  BY <1>1, <1>2, <1>3, <1>4, <1>5, <1>6, <1>7, <1>8, <1>9, <1>10 DEF Next, Main, Publisher

-----------------------------------------------------------------------------
(* The paged queue stays consistent, and shutdown goes its way.            *)

LEMMA PagesStep ==
    ASSUME TypeOK, PagesConsistent, OnceInv, [Next]_vars
    PROVE  PagesConsistent'
<1>1. CASE UNCHANGED <<pages, size>>
  <2>1. Queued' = Queued /\ pages' = pages /\ size' = size /\ LastPage' = LastPage
    BY <1>1 DEF Queued, LastPage
  <2>2. QED
    BY <2>1 DEF PagesConsistent
<1>2. ASSUME NEW i \in Items, i = Head(input), input # <<>>, EnqueueForEnrichment(i)
      PROVE  PagesConsistent'
  <2>1. CASE size < Capacity
    <3>1. Record(i) \in Requests /\ Record(i).item = i
      BY DEF Requests, Record
    <3>2. i \in InInput
      BY <1>2, ElementsHeadTail DEF InInput, TypeOK, InputTypes
    <3>3. \A q \in Queued : q < Record(i).item
      BY <3>1, <3>2 DEF OnceInv, Precedes
    <3>4. pages' = AppendRequest(Record(i)) /\ size' = size + 1
      BY <1>2, <2>1 DEF EnqueueForEnrichment
    <3>5. QED
      BY <2>1, <3>1, <3>3, <3>4, PagesAreTyped, AppendKeepsPages
  <2>2. CASE ~(size < Capacity)
    BY <1>1, <1>2, <2>2 DEF EnqueueForEnrichment
  <2>3. QED
    BY <2>1, <2>2
<1>3. CASE HandleParsedPacket
  <2>1. input # <<>> /\ Head(input) \in Items
    BY <1>3, ElementsHeadTail DEF HandleParsedPacket, TypeOK, InputTypes
  <2>2. \/ UNCHANGED queueVars
        \/ EnqueueForEnrichment(Head(input))
    BY <1>3 DEF HandleParsedPacket, ParseFails, HandleState, HandleGStream
  <2>3. QED
    BY <1>1, <1>2, <2>1, <2>2 DEF queueVars
<1>4. ASSUME NEW w \in Workers, EnrichmentWorker(w)
      PROVE  PagesConsistent'
  <2>1. CASE Dequeue(w)
    BY <2>1, PagesAreTyped, RemoveKeepsPages DEF Dequeue
  <2>2. CASE ~Dequeue(w)
    <3>1. UNCHANGED <<pages, size>>
      BY <1>4, <2>2 DEF EnrichmentWorker, DequeueWaits, WorkerReturns, FilterDrops, Enrich, Send,
                        SendCancelled, queueVars
    <3>2. QED
      BY <1>1, <3>1
  <2>3. QED
    BY <2>1, <2>2
<1>5. CASE LineAppended \/ Reader \/ Publisher \/ UNCHANGED vars
  BY <1>1, <1>5 DEF LineAppended, Reader, ReadNext, ReadEOF, ReadError, Publisher, Publish,
                    PublisherReturns, queueVars, vars
<1>6. CASE LoopEnds \/ StopClosesQueue \/ StopCancels \/ ClosesResults \/ ClosesOutput
  BY <1>1, <1>6 DEF LoopEnds, StopClosesQueue, StopCancels, ClosesResults, ClosesOutput, queueVars
<1>7. ASSUME NEW g \in GStreamWorkers, GStreamWorker(g)
      PROVE  PagesConsistent'
  BY <1>1, <1>7 DEF GStreamWorker, GStreamTake, GStreamEmit, GStreamReturn, queueVars
<1>8. QED
  BY <1>3, <1>4, <1>5, <1>6, <1>7 DEF Next, Main

LEMMA ShutdownStep ==
    ASSUME TypeOK, ShutdownInv, [Next]_vars
    PROVE  ShutdownInv'
<1>0. /\ mpc \in {"loop", "wait gstream", "cancel", "wait workers", "wait publisher", "exited"}
      /\ wpc \in [Workers -> {"dequeue", "process", "send", "returned"}]
      /\ gitem \in [GStreamWorkers -> Items \cup {0, -1}]
      /\ size \in Nat
      /\ inputClosed \in BOOLEAN /\ gstreamClosed \in BOOLEAN /\ closed \in BOOLEAN
      /\ resultsClosed \in BOOLEAN /\ publisherDone \in BOOLEAN /\ outClosed \in BOOLEAN
  <2>1. Capacity \in Nat
    BY Bounds
  <2>2. size \in 0..Capacity
    BY DEF TypeOK, QueueTypes
  <2>3. size \in Nat
    BY <2>1, <2>2
  <2>4. QED
    BY <2>3 DEF TypeOK, InputTypes, WorkerTypes, GStreamTypes, QueueTypes, OutTypes
<1>1. CASE LineAppended \/ Reader
  <2>1. UNCHANGED <<mpc, gstreamVars, queueVars, workerVars, outVars>>
    BY <1>1 DEF LineAppended, Reader, ReadNext, ReadEOF, ReadError
  <2>2. \/ UNCHANGED <<input, inputClosed>>
        \/ mpc = "loop"
    BY <1>1 DEF LineAppended, Reader, ReadNext, ReadEOF, ReadError, ShutdownInv
  <2>3. QED
    BY <2>1, <2>2 DEF ShutdownInv, gstreamVars, queueVars, workerVars, outVars
<1>2. CASE HandleParsedPacket
  <2>1. /\ mpc = "loop" /\ mpc' = "loop"
        /\ UNCHANGED <<inputClosed, gstreamClosed, closed, gitem, wpc, results, resultsClosed,
                       publisherDone, outClosed>>
    BY <1>2 DEF HandleParsedPacket, ParseFails, HandleState, HandleGStream, EnqueueForEnrichment,
                gstreamVars, queueVars, workerVars, outVars
  <2>2. QED
    BY <2>1 DEF ShutdownInv
<1>3. ASSUME NEW g \in GStreamWorkers, GStreamWorker(g)
      PROVE  ShutdownInv'
  <2>1. UNCHANGED <<input, inputClosed, mpc, gstreamClosed, closed, size, wpc, results,
                    resultsClosed, publisherDone, outClosed>>
    BY <1>3 DEF GStreamWorker, GStreamTake, GStreamEmit, GStreamReturn, inputVars, queueVars,
                workerVars, outVars
  <2>2. CASE GStreamTake(g)
    <3>1. gstream # <<>> /\ \A h \in GStreamWorkers : gitem[h] # -1
      BY <2>2 DEF GStreamTake, ShutdownInv
    <3>2. \A h \in GStreamWorkers : gitem'[h] # -1
      <4>1. gitem' = [gitem EXCEPT ![g] = Head(gstream)] /\ Head(gstream) \in Items
        BY <2>2, <3>1, ElementsHeadTail DEF GStreamTake, TypeOK, GStreamTypes
      <4>2. Head(gstream) # -1
        BY <4>1, ItemFacts
      <4>3. QED
        BY <1>0, <3>1, <4>1, <4>2
    <3>3. QED
      BY <2>1, <3>1, <3>2 DEF ShutdownInv
  <2>3. CASE GStreamEmit(g)
    <3>1. gitem[g] > 0 /\ gitem' = [gitem EXCEPT ![g] = 0] /\ gstream' = gstream
      BY <2>3 DEF GStreamEmit
    <3>2. gitem[g] # -1
      BY <3>1
    <3>3. ~closed
      BY <3>2 DEF ShutdownInv
    <3>4. \A h \in GStreamWorkers : gitem'[h] = -1 => gitem[h] = -1
      <4>1. gitem \in [GStreamWorkers -> Items \cup {0, -1}]
        BY <1>0
      <4>2. QED
        BY <3>1, <4>1
    <3>5. QED
      BY <2>1, <3>1, <3>3, <3>4 DEF ShutdownInv
  <2>4. CASE GStreamReturn(g)
    <3>1. gitem' = [gitem EXCEPT ![g] = -1] /\ gstream = <<>> /\ gstream' = gstream /\ gstreamClosed
      BY <2>4 DEF GStreamReturn
    <3>2. QED
      BY <1>0, <2>1, <3>1 DEF ShutdownInv
  <2>5. QED
    BY <1>3, <2>2, <2>3, <2>4 DEF GStreamWorker
<1>4. ASSUME NEW w \in Workers, EnrichmentWorker(w)
      PROVE  ShutdownInv'
  <2>1. UNCHANGED <<input, inputClosed, mpc, gstreamVars, closed, resultsClosed, publisherDone,
                    outClosed>>
    BY <1>4 DEF EnrichmentWorker, Dequeue, DequeueWaits, WorkerReturns, FilterDrops, Enrich, Send,
                SendCancelled, inputVars, queueVars, outVars
  <2>2. wpc[w] # "returned"
    BY <1>4 DEF EnrichmentWorker, Dequeue, DequeueWaits, WorkerReturns, FilterDrops, Enrich, Send,
                SendCancelled
  <2>3. ~resultsClosed /\ ~publisherDone /\ mpc \notin {"wait publisher", "exited"}
    BY <2>2 DEF ShutdownInv
  <2>4. \/ size' = size
        \/ size > 0
    BY <1>4 DEF EnrichmentWorker, Dequeue, DequeueWaits, WorkerReturns, FilterDrops, Enrich, Send,
                SendCancelled, queueVars
  <2>5. \A v \in Workers : wpc'[v] = "returned" => \/ wpc[v] = "returned"
                                                   \/ size = 0 /\ closed /\ size' = size
    BY <1>0, <1>4 DEF EnrichmentWorker, Dequeue, DequeueWaits, WorkerReturns, FilterDrops, Enrich,
                Send, SendCancelled, NextRequest, workerVars, queueVars
  <2>6. \A v \in Workers : wpc'[v] = "returned" => closed' /\ size' = 0
    <3>1. size \in Nat /\ closed' = closed
      BY <1>0, <2>1
    <3>2. ASSUME NEW v \in Workers, wpc[v] = "returned"
          PROVE  closed /\ size' = 0
      <4>1. closed /\ size = 0
        BY <3>2 DEF ShutdownInv
      <4>2. QED
        BY <2>4, <3>1, <4>1
    <3>3. QED
      BY <2>5, <3>1, <3>2
  <2>7. QED
    BY <2>1, <2>3, <2>6 DEF ShutdownInv, gstreamVars
<1>5. CASE Publisher
  <2>1. /\ UNCHANGED <<inputVars, mpc, gstreamVars, queueVars, workerVars, resultsClosed, outClosed>>
        /\ \/ results # <<>> /\ publisherDone' = publisherDone
           \/ results = <<>> /\ resultsClosed /\ results' = results
    BY <1>5 DEF Publisher, Publish, PublisherReturns
  <2>2. publisherDone => publisherDone' /\ results' = results
    BY <1>5 DEF Publisher, Publish, PublisherReturns, ShutdownInv
  <2>3. publisherDone' => resultsClosed /\ results' = <<>>
    BY <2>1, <2>2 DEF ShutdownInv
  <2>4. /\ mpc' = mpc /\ inputClosed' = inputClosed /\ input' = input /\ gstream' = gstream
        /\ gstreamClosed' = gstreamClosed /\ gitem' = gitem /\ closed' = closed /\ size' = size
        /\ wpc' = wpc /\ resultsClosed' = resultsClosed /\ outClosed' = outClosed
    BY <2>1 DEF inputVars, gstreamVars, queueVars, workerVars
  <2>5. QED
    BY <2>2, <2>3, <2>4 DEF ShutdownInv
<1>6. CASE LoopEnds \/ StopClosesQueue \/ StopCancels \/ ClosesResults \/ ClosesOutput
  <2>1. /\ UNCHANGED <<input, inputClosed, gstream, gitem, size, wpc, results, publisherDone>>
    BY <1>6 DEF LoopEnds, StopClosesQueue, StopCancels, ClosesResults, ClosesOutput, inputVars,
                gstreamVars, queueVars, workerVars, outVars
  <2>2. CASE LoopEnds
    <3>1. /\ input = <<>> /\ inputClosed /\ mpc = "loop" /\ mpc' = "wait gstream"
          /\ gstreamClosed' = TRUE /\ closed' = closed /\ resultsClosed' = resultsClosed
          /\ outClosed' = outClosed
      BY <2>2 DEF LoopEnds, queueVars, outVars
    <3>2. QED
      BY <1>0, <2>1, <3>1 DEF ShutdownInv
  <2>3. CASE StopClosesQueue
    <3>1. /\ mpc = "wait gstream" /\ mpc' = "cancel" /\ closed' = TRUE
          /\ \A g \in GStreamWorkers : gitem[g] = -1
          /\ gstreamClosed' = gstreamClosed /\ resultsClosed' = resultsClosed
          /\ outClosed' = outClosed
      BY <2>3 DEF StopClosesQueue, gstreamVars, outVars
    <3>2. QED
      BY <1>0, <2>1, <3>1 DEF ShutdownInv
  <2>4. CASE StopCancels
    <3>1. /\ mpc = "cancel" /\ mpc' = "wait workers" /\ closed' = closed
          /\ gstreamClosed' = gstreamClosed /\ resultsClosed' = resultsClosed
          /\ outClosed' = outClosed
      BY <2>4 DEF StopCancels, gstreamVars, queueVars, outVars
    <3>2. QED
      BY <1>0, <2>1, <3>1 DEF ShutdownInv
  <2>5. CASE ClosesResults
    <3>1. /\ mpc = "wait workers" /\ mpc' = "wait publisher" /\ closed' = closed
          /\ gstreamClosed' = gstreamClosed /\ resultsClosed' = TRUE
          /\ outClosed' = outClosed
          /\ \A w \in Workers : wpc[w] = "returned"
      BY <2>5 DEF ClosesResults, gstreamVars, queueVars
    <3>2. QED
      BY <1>0, <2>1, <3>1 DEF ShutdownInv
  <2>6. CASE ClosesOutput
    <3>1. /\ mpc = "wait publisher" /\ mpc' = "exited" /\ closed' = closed
          /\ gstreamClosed' = gstreamClosed /\ resultsClosed' = resultsClosed
          /\ outClosed' = TRUE /\ publisherDone
      BY <2>6 DEF ClosesOutput, gstreamVars, queueVars
    <3>2. QED
      BY <1>0, <2>1, <3>1 DEF ShutdownInv
  <2>7. QED
    BY <1>6, <2>2, <2>3, <2>4, <2>5, <2>6
<1>7. CASE UNCHANGED vars
  BY <1>7 DEF vars, inputVars, gstreamVars, queueVars, workerVars, outVars, ShutdownInv
<1>8. QED
  BY <1>1, <1>2, <1>3, <1>4, <1>5, <1>6, <1>7 DEF Next, Main

-----------------------------------------------------------------------------
(* Every packet is in one place.                                           *)

\* A stage is what its variable says.
LEMMA StagesKept ==
    /\ input' = input => InInput' = InInput
    /\ gstream' = gstream => InGStream' = InGStream
    /\ gitem' = gitem => InGWorkers' = InGWorkers
    /\ pages' = pages => Queued' = Queued
    /\ wrec' = wrec => InWorkers' = InWorkers
    /\ results' = results => InResults' = InResults
    /\ next' = next /\ fate' = fate => InFlight' = InFlight
BY DEF InInput, InGStream, InGWorkers, Queued, InWorkers, InResults, InFlight

\* A packet that is settled is in flight no more.
LEMMA SettledFlight ==
    ASSUME TypeOK, OnceInv, NEW i \in InFlight, next' = next,
           NEW f \in {"stored", "emitted", "dropped", "cancelled"}, Settle(i, f)
    PROVE  /\ InFlight' = InFlight \ {i}
           /\ \A j \in Items : j > next' => fate'[j] = "none"
<1>1. /\ fate' = [fate EXCEPT ![i] = f] /\ f # "none"
      /\ fate \in [Items -> {"none", "stored", "emitted", "dropped", "cancelled"}]
      /\ i \in Items /\ i <= next
  BY DEF Settle, TypeOK, InFlight
<1>2. \A j \in Items : fate'[j] = IF j = i THEN f ELSE fate[j]
  BY <1>1
<1>3. InFlight' = InFlight \ {i}
  BY <1>1, <1>2 DEF InFlight
<1>4. ASSUME NEW j \in Items, j > next
      PROVE  fate'[j] = "none"
  <2>1. next \in Int /\ j \in Int /\ i \in Int
    <3>1. next \in 0..written /\ written \in 0..Len(Feed)
      BY DEF TypeOK, InputTypes
    <3>2. QED
      BY <1>1, <3>1, ItemFacts, FeedLength
  <2>2. j # i
    BY <1>1, <1>4, <2>1
  <2>3. QED
    BY <1>2, <1>4, <2>2 DEF OnceInv
<1>5. QED
  BY <1>3, <1>4

\* A gstream worker puts down one packet and takes up another, or none.
LEMMA GWorkerMoves ==
    ASSUME TypeOK, OnceInv, NEW g \in GStreamWorkers, NEW v \in Items \cup {0, -1},
           gitem' = [gitem EXCEPT ![g] = v], v \notin InGWorkers
    PROVE  /\ InGWorkers' = (InGWorkers \ {gitem[g]}) \cup ({v} \cap Items)
           /\ \A x, h \in GStreamWorkers : gitem'[x] \in Items /\ gitem'[x] = gitem'[h] => x = h
<1>1. \A h \in GStreamWorkers : gitem'[h] = IF h = g THEN v ELSE gitem[h]
  BY DEF TypeOK, GStreamTypes
<1>2. \A x, h \in GStreamWorkers : gitem[x] \in Items /\ gitem[x] = gitem[h] => x = h
  BY DEF OnceInv
<1>3. InGWorkers' = (InGWorkers \ {gitem[g]}) \cup ({v} \cap Items)
  BY <1>1, <1>2 DEF InGWorkers
<1>4. ASSUME NEW x \in GStreamWorkers, NEW h \in GStreamWorkers,
             gitem'[x] \in Items, gitem'[x] = gitem'[h]
      PROVE  x = h
  BY <1>1, <1>2, <1>4 DEF InGWorkers
<1>5. QED
  BY <1>3, <1>4

\* Likewise for a worker and its record.
LEMMA WorkerMoves ==
    ASSUME TypeOK, OnceInv, NEW w \in Workers, NEW r, r.item \notin InWorkers,
           wrec' = [wrec EXCEPT ![w] = r]
    PROVE  /\ InWorkers' = (InWorkers \ {wrec[w].item}) \cup ({r.item} \cap Items)
           /\ \A v, x \in Workers :
                 wrec'[v].item \in Items /\ wrec'[v].item = wrec'[x].item => v = x
<1>1. \A v \in Workers : wrec'[v] = IF v = w THEN r ELSE wrec[v]
  BY DEF TypeOK, WorkerTypes
<1>2. \A v, x \in Workers : wrec[v].item \in Items /\ wrec[v].item = wrec[x].item => v = x
  BY DEF OnceInv
<1>3. InWorkers' = (InWorkers \ {wrec[w].item}) \cup ({r.item} \cap Items)
  BY <1>1, <1>2 DEF InWorkers
<1>4. ASSUME NEW v \in Workers, NEW x \in Workers,
             wrec'[v].item \in Items, wrec'[v].item = wrec'[x].item
      PROVE  v = x
  BY <1>1, <1>2, <1>4 DEF InWorkers
<1>5. QED
  BY <1>3, <1>4

\* A worker that goes back for its next request has no item.
LEMMA WorkerLetsGo ==
    ASSUME TypeOK, OnceInv, NEW w \in Workers, NextRequest(w)
    PROVE  /\ InWorkers' = InWorkers \ {wrec[w].item}
           /\ \A v, x \in Workers :
                 wrec'[v].item \in Items /\ wrec'[v].item = wrec'[x].item => v = x
<1>1. NoRecord.item = 0 /\ 0 \notin Items
  BY ItemFacts DEF NoRecord
<1>2. NoRecord.item \notin InWorkers
  BY <1>1 DEF InWorkers
<1>3. wrec' = [wrec EXCEPT ![w] = NoRecord]
  BY DEF NextRequest
<1>4. /\ InWorkers' = (InWorkers \ {wrec[w].item}) \cup ({NoRecord.item} \cap Items)
      /\ \A v, x \in Workers :
            wrec'[v].item \in Items /\ wrec'[v].item = wrec'[x].item => v = x
  BY <1>2, <1>3, WorkerMoves
<1>5. QED
  BY <1>1, <1>4

\* All that is in a stage is among the items.
LEMMA StagesAreItems ==
    ASSUME TypeOK
    PROVE  InInput \cup InGStream \cup InGWorkers \cup Queued \cup InWorkers \cup InResults
              \subseteq Items
<1>1. InInput \subseteq Items /\ InGStream \subseteq Items
  <2>1. \A s \in Seq(Items) : \A k \in 1..Len(s) : s[k] \in Items
    OBVIOUS
  <2>2. input \in Seq(Items) /\ gstream \in Seq(Items)
    BY DEF TypeOK, InputTypes, GStreamTypes
  <2>3. QED
    BY <2>1, <2>2 DEF InInput, InGStream, Elements
<1>2. InResults \subseteq Items
  <2>1. results \in Seq(EnrichedRecords)
    BY DEF TypeOK, OutTypes
  <2>2. \A k \in 1..Len(results) : results[k] \in EnrichedRecords
    BY <2>1
  <2>3. QED
    BY <2>2, EnrichedFacts DEF InResults, ItemsOf
<1>3. QED
  BY <1>1, <1>2, PagesAreTyped, QueuedFinite DEF InGWorkers, InWorkers

\* What was not read is in no stage.
LEMMA StagesBelow ==
    ASSUME TypeOK, StageInv
    PROVE  /\ InFlight = InInput \cup InGStream \cup InGWorkers \cup Queued \cup InWorkers
                            \cup InResults
           /\ \A i \in InFlight : i \in Items /\ i <= next
BY DEF StageInv, Partition, InFlight

\* The reader puts in what comes after all that was read.
LEMMA ReaderStages ==
    ASSUME TypeOK, StageInv, OnceInv, Reader
    PROVE  StageInv' /\ OnceInv'
<1> DEFINE i == next + 1
<1>1. UNCHANGED <<gstream, gitem, pages, wrec, results>>
  BY DEF Reader, ReadNext, ReadEOF, ReadError, gstreamVars, queueVars, workerVars, outVars
<1>2. /\ InGStream' = InGStream /\ InGWorkers' = InGWorkers /\ Queued' = Queued
      /\ InWorkers' = InWorkers /\ InResults' = InResults
  BY <1>1, StagesKept
<1>3. CASE ReadEOF \/ ReadError
  <2>1. next' = next /\ fate' = fate /\ input' = input
    BY <1>3 DEF ReadEOF, ReadError
  <2>2. InInput' = InInput /\ InFlight' = InFlight
    BY <2>1, StagesKept
  <2>3. StageInv'
    BY <1>2, <2>2 DEF StageInv, Partition
  <2>4. OnceInv'
    BY <1>1, <1>2, <2>1, <2>2 DEF OnceInv
  <2>5. QED
    BY <2>3, <2>4
<1>4. CASE ReadNext
  <2>1. /\ next' = i /\ i <= written
        /\ \/ input' = input /\ Settle(i, "dropped")
           \/ input' = Append(input, i) /\ fate' = fate
    BY <1>4 DEF ReadNext, Offer
  <2>2. /\ next \in Nat /\ i \in Items
        /\ input \in Seq(Items)
        /\ fate \in [Items -> {"none", "stored", "emitted", "dropped", "cancelled"}]
    <3>1. /\ next \in 0..written /\ written \in 0..Len(Feed)
          /\ input \in Seq(Items)
          /\ fate \in [Items -> {"none", "stored", "emitted", "dropped", "cancelled"}]
      BY DEF TypeOK, InputTypes
    <3>2. next \in Nat /\ i \in Items
      BY <2>1, <3>1, FeedLength DEF Items
    <3>3. QED
      BY <3>1, <3>2
  <2>3. \A j \in Items : j \in Nat /\ (j > next <=> ~(j <= next)) /\ (j <= i <=> j <= next \/ j = i)
    BY <2>2, ItemFacts
  <2>4. fate[i] = "none" /\ ~(i <= next)
    BY <2>2, <2>3 DEF OnceInv
  <2>5. i \notin InFlight /\ \A j \in InFlight : j < i
    BY <2>2, <2>3, <2>4 DEF InFlight
  <2> HIDE DEF i
  <2>6. CASE input' = input /\ Settle(i, "dropped")
    <3>1. InInput' = InInput
      BY <2>6, StagesKept
    <3>2. \A j \in Items : fate'[j] = IF j = i THEN "dropped" ELSE fate[j]
      BY <2>2, <2>6 DEF Settle
    <3>3. InFlight' = InFlight
      BY <2>1, <2>3, <2>4, <3>2 DEF InFlight
    <3>4. \A j \in Items : j > next' => fate'[j] = "none"
      BY <2>1, <2>2, <2>3, <3>2 DEF OnceInv, i
    <3>5. StageInv'
      BY <1>2, <3>1, <3>3 DEF StageInv, Partition
    <3>6. OnceInv'
      BY <1>1, <1>2, <2>6, <3>1, <3>4 DEF OnceInv
    <3>7. QED
      BY <3>5, <3>6
  <2>7. CASE input' = Append(input, i) /\ fate' = fate
    <3>1. InInput' = InInput \cup {i}
      BY <2>2, <2>7, ElementsAppend DEF InInput
    <3>2. InFlight' = InFlight \cup {i}
      BY <2>1, <2>2, <2>3, <2>4, <2>7 DEF InFlight
    <3>3. \A j \in Items : j > next' => fate'[j] = "none"
      BY <2>1, <2>2, <2>3, <2>7 DEF OnceInv, i
    <3>4. StageInv'
      BY <1>2, <2>5, <3>1, <3>2 DEF StageInv, Partition
    <3>5. \A j \in InInput \cup Queued \cup InGStream : j < i
      BY <2>5, StagesBelow
    <3>6. Increasing(input')
      BY <2>2, <2>7, <3>5, IncreasingAppend DEF OnceInv, InInput
    <3>7. Precedes(Queued' \cup InGStream', InInput')
      BY <1>2, <3>1, <3>5 DEF OnceInv, Precedes
    <3>8. OnceInv'
      BY <1>1, <3>3, <3>6, <3>7 DEF OnceInv
    <3>9. QED
      BY <3>4, <3>8
  <2>8. QED
    BY <2>1, <2>6, <2>7
<1>5. QED
  BY <1>3, <1>4 DEF Reader

\* The packet loop takes the oldest packet of the input: it ends there, or goes
\* behind all that came before it.
LEMMA HandleStages ==
    ASSUME TypeOK, PagesConsistent, StageInv, OnceInv, HandleParsedPacket
    PROVE  StageInv' /\ OnceInv'
<1> DEFINE i == Head(input)
<1>1. /\ input # <<>> /\ input' = Tail(input) /\ next' = next
      /\ UNCHANGED <<wrec, results>>
      /\ ParseFails(i) \/ HandleState(i) \/ HandleGStream(i) \/ EnqueueForEnrichment(i)
  BY DEF HandleParsedPacket, workerVars, outVars
<1>2. gitem' = gitem
  BY <1>1 DEF ParseFails, HandleState, HandleGStream, EnqueueForEnrichment, gstreamVars
<1>3. input \in Seq(Items) /\ gstream \in Seq(Items) /\ i \in Items
  BY <1>1, ElementsHeadTail DEF TypeOK, InputTypes, GStreamTypes
<1>4. /\ InInput = {i} \cup Elements(Tail(input))
      /\ InInput' = Elements(Tail(input))
      /\ Increasing(Tail(input))
      /\ \A j \in Elements(Tail(input)) : i < j
  BY <1>1, <1>3, ElementsHeadTail, IncreasingTail DEF InInput, OnceInv
<1> HIDE DEF i
<1>5. i \in InInput /\ i \notin InInput' /\ InInput' = InInput \ {i} /\ Increasing(input')
      /\ \A j \in InInput' : i < j
  <2>1. i \in Int
    BY <1>3, ItemFacts
  <2>2. QED
    BY <1>1, <1>4, <2>1
<1>6. InGWorkers' = InGWorkers /\ InWorkers' = InWorkers /\ InResults' = InResults
  BY <1>1, <1>2, StagesKept
<1>7. i \in InFlight /\ \A j \in Queued \cup InGStream : j < i
  BY <1>5, StagesBelow DEF OnceInv, Precedes
<1>8. /\ \A g, h \in GStreamWorkers : gitem'[g] \in Items /\ gitem'[g] = gitem'[h] => g = h
      /\ \A v, w \in Workers : wrec'[v].item \in Items /\ wrec'[v].item = wrec'[w].item => v = w
      /\ DistinctItems(results')
  BY <1>1, <1>2 DEF OnceInv
<1>9. CASE \E f \in {"stored", "dropped"} : Settle(i, f) /\ UNCHANGED <<gstream, pages>>
  <2>1. /\ InFlight' = InFlight \ {i}
        /\ \A j \in Items : j > next' => fate'[j] = "none"
    BY <1>1, <1>7, <1>9, SettledFlight
  <2>2. InGStream' = InGStream /\ Queued' = Queued
    BY <1>9, StagesKept
  <2>3. StageInv'
    BY <1>5, <1>6, <2>1, <2>2 DEF StageInv, Partition
  <2>4. Precedes(Queued' \cup InGStream', InInput')
    BY <1>5, <2>2 DEF OnceInv, Precedes
  <2>5. Increasing(gstream')
    BY <1>9 DEF OnceInv
  <2>6. QED
    BY <1>5, <1>8, <2>1, <2>3, <2>4, <2>5 DEF OnceInv
<1>10. CASE gstream' = Append(gstream, i) /\ UNCHANGED <<pages, fate>>
  <2>1. InGStream' = InGStream \cup {i} /\ Queued' = Queued /\ InFlight' = InFlight
    BY <1>1, <1>3, <1>10, ElementsAppend, StagesKept DEF InGStream
  <2>2. StageInv'
    BY <1>5, <1>6, <2>1 DEF StageInv, Partition
  <2>3. Precedes(Queued' \cup InGStream', InInput')
    BY <1>5, <2>1 DEF OnceInv, Precedes
  <2>4. Increasing(gstream')
    BY <1>3, <1>7, <1>10, IncreasingAppend DEF OnceInv, InGStream
  <2>5. \A j \in Items : j > next' => fate'[j] = "none"
    BY <1>1, <1>10 DEF OnceInv
  <2>6. QED
    BY <1>5, <1>8, <2>2, <2>3, <2>4, <2>5 DEF OnceInv
<1>11. CASE /\ pages' = AppendRequest(Record(i)) /\ size' = size + 1 /\ size < Capacity
            /\ UNCHANGED <<gstream, fate>>
  <2>1. Record(i) \in Requests /\ Record(i).item = i
    BY <1>3 DEF Requests, Record
  <2>2. \A q \in Queued : q < Record(i).item
    BY <1>7, <2>1
  <2>3. Queued' = Queued \cup {i}
    BY <1>11, <2>1, <2>2, PagesAreTyped, AppendKeepsPages
  <2>4. InGStream' = InGStream /\ InFlight' = InFlight
    BY <1>1, <1>11, StagesKept
  <2>5. StageInv'
    BY <1>5, <1>6, <2>3, <2>4 DEF StageInv, Partition
  <2>6. Precedes(Queued' \cup InGStream', InInput')
    BY <1>5, <2>3, <2>4 DEF OnceInv, Precedes
  <2>7. \A j \in Items : j > next' => fate'[j] = "none"
    BY <1>1, <1>11 DEF OnceInv
  <2>8. Increasing(gstream')
    BY <1>11 DEF OnceInv
  <2>9. QED
    BY <1>5, <1>8, <2>5, <2>6, <2>7, <2>8 DEF OnceInv
<1>12. QED
  BY <1>1, <1>9, <1>10, <1>11
     DEF ParseFails, HandleState, HandleGStream, EnqueueForEnrichment, gstreamVars, queueVars

\* A gstream worker takes the oldest packet of its channel, and settles it.
LEMMA GStreamWorkerStages ==
    ASSUME TypeOK, StageInv, OnceInv, NEW g \in GStreamWorkers, GStreamWorker(g)
    PROVE  StageInv' /\ OnceInv'
<1>1. UNCHANGED <<input, next, pages, wrec, results>>
  BY DEF GStreamWorker, GStreamTake, GStreamEmit, GStreamReturn, inputVars, queueVars, workerVars,
         outVars
<1>2. /\ InInput' = InInput /\ Queued' = Queued /\ InWorkers' = InWorkers
      /\ InResults' = InResults
  BY <1>1, StagesKept
<1>3. 0 \notin Items /\ -1 \notin Items
  BY ItemFacts
<1>4. CASE GStreamTake(g)
  <2> DEFINE i == Head(gstream)
  <2>1. /\ gitem[g] = 0 /\ gstream # <<>> /\ gstream' = Tail(gstream) /\ fate' = fate
        /\ gitem' = [gitem EXCEPT ![g] = i]
    BY <1>4 DEF GStreamTake
  <2>2. gstream \in Seq(Items) /\ i \in Items
    BY <2>1, ElementsHeadTail DEF TypeOK, GStreamTypes
  <2>3. /\ InGStream = {i} \cup Elements(Tail(gstream))
        /\ InGStream' = Elements(Tail(gstream))
        /\ Increasing(gstream')
        /\ \A j \in Elements(Tail(gstream)) : i < j
    BY <2>1, <2>2, ElementsHeadTail, IncreasingTail DEF InGStream, OnceInv
  <2> HIDE DEF i
  <2>4. i \in InGStream /\ InGStream' = InGStream \ {i}
    <3>1. i \in Int
      BY <2>2, ItemFacts
    <3>2. QED
      BY <2>3, <3>1
  <2>5. i \notin InGWorkers
    BY <2>4 DEF StageInv, Partition
  <2>6. /\ InGWorkers' = InGWorkers \cup {i}
        /\ \A x, h \in GStreamWorkers : gitem'[x] \in Items /\ gitem'[x] = gitem'[h] => x = h
    <3>1. 0 \notin InGWorkers
      BY <1>3 DEF InGWorkers
    <3>2. /\ InGWorkers' = (InGWorkers \ {gitem[g]}) \cup ({i} \cap Items)
          /\ \A x, h \in GStreamWorkers : gitem'[x] \in Items /\ gitem'[x] = gitem'[h] => x = h
      BY <2>1, <2>2, <2>5, GWorkerMoves
    <3>3. QED
      BY <2>1, <2>2, <3>1, <3>2
  <2>7. InFlight' = InFlight
    BY <1>1, <2>1, StagesKept
  <2>8. StageInv'
    BY <1>2, <2>4, <2>6, <2>7 DEF StageInv, Partition
  <2>9. Precedes(Queued' \cup InGStream', InInput')
    BY <1>2, <2>4 DEF OnceInv, Precedes
  <2>10. QED
    BY <1>1, <2>1, <2>3, <2>6, <2>8, <2>9 DEF OnceInv
<1>5. CASE GStreamEmit(g) \/ GStreamReturn(g)
  <2>1. PICK v \in {0, -1} : gitem' = [gitem EXCEPT ![g] = v]
    BY <1>5 DEF GStreamEmit, GStreamReturn
  <2>2. gstream' = gstream
    BY <1>5 DEF GStreamEmit, GStreamReturn
  <2>3. InGStream' = InGStream
    BY <2>2, StagesKept
  <2>4. v \notin Items /\ v \notin InGWorkers
    BY <1>3 DEF InGWorkers
  <2>5. /\ InGWorkers' = InGWorkers \ {gitem[g]}
        /\ \A x, h \in GStreamWorkers : gitem'[x] \in Items /\ gitem'[x] = gitem'[h] => x = h
    <3>1. /\ InGWorkers' = (InGWorkers \ {gitem[g]}) \cup ({v} \cap Items)
          /\ \A x, h \in GStreamWorkers : gitem'[x] \in Items /\ gitem'[x] = gitem'[h] => x = h
      BY <2>1, <2>4, GWorkerMoves
    <3>2. QED
      BY <2>4, <3>1
  <2>6. /\ InFlight' = InFlight \ ({gitem[g]} \cap InGWorkers)
        /\ \A j \in Items : j > next' => fate'[j] = "none"
    <3>1. CASE GStreamEmit(g)
      <4>1. /\ gitem[g] > 0 /\ gitem[g] \in Items \cup {0, -1}
            /\ \E f \in {"emitted", "dropped"} : Settle(gitem[g], f)
        BY <3>1 DEF GStreamEmit, TypeOK, GStreamTypes
      <4>2. gitem[g] \in InGWorkers
        BY <4>1 DEF InGWorkers
      <4>3. gitem[g] \in InFlight
        BY <4>2, StagesBelow
      <4>4. QED
        BY <1>1, <4>1, <4>2, <4>3, SettledFlight
    <3>2. CASE GStreamReturn(g)
      <4>1. gitem[g] = 0 /\ fate' = fate
        BY <3>2 DEF GStreamReturn
      <4>2. gitem[g] \notin InGWorkers
        BY <1>3, <4>1 DEF InGWorkers
      <4>3. QED
        BY <1>1, <4>1, <4>2, StagesKept DEF OnceInv
    <3>3. QED
      BY <1>5, <3>1, <3>2
  <2>7. StageInv'
    BY <1>2, <2>3, <2>5, <2>6 DEF StageInv, Partition
  <2>8. QED
    BY <1>1, <1>2, <2>2, <2>3, <2>5, <2>6, <2>7 DEF OnceInv
<1>6. QED
  BY <1>4, <1>5 DEF GStreamWorker

\* A worker dequeues a request, and settles it or passes its record on.
LEMMA EnrichmentWorkerStages ==
    ASSUME TypeOK, PagesConsistent, StageInv, OnceInv, NEW w \in Workers, EnrichmentWorker(w)
    PROVE  StageInv' /\ OnceInv'
<1>1. UNCHANGED <<input, next, gstream, gitem>>
  BY DEF EnrichmentWorker, Dequeue, DequeueWaits, WorkerReturns, FilterDrops, Enrich, Send,
         SendCancelled, inputVars, gstreamVars
<1>2. InInput' = InInput /\ InGStream' = InGStream /\ InGWorkers' = InGWorkers
  BY <1>1, StagesKept
<1>3. CASE Dequeue(w)
  <2>1. /\ size > 0 /\ pages' = RemoveRequest /\ size' = size - 1 /\ wpc[w] = "dequeue"
        /\ wrec' = [wrec EXCEPT ![w] = First]
        /\ results' = results /\ fate' = fate
    BY <1>3 DEF Dequeue, First, outVars
  <2>2. First \in Requests /\ First.item \in Queued /\ First.item \in Items
    BY <2>1, PagesAreTyped, FirstFacts, RequestFacts
  <2>3. Queued' = Queued \ {First.item}
    BY <2>1, PagesAreTyped, RemoveKeepsPages
  <2>4. First.item \notin InWorkers
    BY <2>2 DEF StageInv, Partition
  <2>5. wrec[w].item \notin Items
    <3>1. wrec[w] = NoRecord
      BY <2>1 DEF TypeOK, WorkerTypes
    <3>2. NoRecord.item = 0
      BY DEF NoRecord
    <3>3. 0 \notin Items
      BY ItemFacts
    <3>4. QED
      BY <3>1, <3>2, <3>3
  <2>6. /\ InWorkers' = InWorkers \cup {First.item}
        /\ \A v, x \in Workers :
              wrec'[v].item \in Items /\ wrec'[v].item = wrec'[x].item => v = x
    <3>1. wrec[w].item \notin InWorkers
      BY <2>5 DEF InWorkers
    <3>2. /\ InWorkers' = (InWorkers \ {wrec[w].item}) \cup ({First.item} \cap Items)
          /\ \A v, x \in Workers :
                wrec'[v].item \in Items /\ wrec'[v].item = wrec'[x].item => v = x
      BY <2>1, <2>4, WorkerMoves
    <3>3. QED
      BY <2>2, <3>1, <3>2
  <2>7. InResults' = InResults /\ InFlight' = InFlight
    BY <1>1, <2>1, StagesKept
  <2>8. StageInv'
    BY <1>2, <2>2, <2>3, <2>6, <2>7 DEF StageInv, Partition
  <2>9. Precedes(Queued' \cup InGStream', InInput')
    BY <1>2, <2>3 DEF OnceInv, Precedes
  <2>10. QED
    BY <1>1, <2>1, <2>6, <2>8, <2>9 DEF OnceInv
<1>4. CASE UNCHANGED <<pages, wrec, results, fate>>
  <2>1. /\ Queued' = Queued /\ InWorkers' = InWorkers /\ InResults' = InResults
        /\ InFlight' = InFlight
    BY <1>1, <1>4, StagesKept
  <2>2. StageInv'
    BY <1>2, <2>1 DEF StageInv, Partition
  <2>3. QED
    BY <1>1, <1>2, <1>4, <2>1, <2>2 DEF OnceInv
<1>5. CASE /\ wpc[w] \in {"process", "send"} /\ NextRequest(w)
           /\ UNCHANGED <<pages, results>>
           /\ \E f \in {"dropped", "cancelled"} : Settle(wrec[w].item, f)
  <2>1. wrec[w].item \in InWorkers
    BY <1>5, HeldRequest DEF InWorkers
  <2>2. wrec[w].item \in InFlight
    BY <2>1, StagesBelow
  <2>3. /\ InFlight' = InFlight \ {wrec[w].item}
        /\ \A j \in Items : j > next' => fate'[j] = "none"
    BY <1>1, <1>5, <2>2, SettledFlight
  <2>4. /\ InWorkers' = InWorkers \ {wrec[w].item}
        /\ \A v, x \in Workers :
              wrec'[v].item \in Items /\ wrec'[v].item = wrec'[x].item => v = x
    BY <1>5, WorkerLetsGo
  <2>5. Queued' = Queued /\ InResults' = InResults
    BY <1>5, StagesKept
  <2>6. StageInv'
    BY <1>2, <2>1, <2>3, <2>4, <2>5 DEF StageInv, Partition
  <2>7. QED
    BY <1>1, <1>2, <1>5, <2>3, <2>4, <2>5, <2>6 DEF OnceInv
<1>6. CASE Send(w)
  <2> DEFINE e == BuildEnrichedRecord(wrec[w])
  <2>1. /\ wpc[w] = "send" /\ NextRequest(w) /\ results' = Append(results, e)
        /\ UNCHANGED <<pages, fate>>
    BY <1>6 DEF Send, queueVars
  <2>2. /\ e \in EnrichedRecords /\ e.item = wrec[w].item /\ wrec[w].item \in Items
        /\ results \in Seq(EnrichedRecords)
    BY <2>1, HeldRequest DEF BuildEnrichedRecord, TypeOK, OutTypes
  <2> HIDE DEF e
  <2>3. wrec[w].item \in InWorkers
    BY <2>2 DEF InWorkers
  <2>4. InResults' = InResults \cup {wrec[w].item}
    BY <2>1, <2>2, ItemsAppend DEF InResults
  <2>5. /\ InWorkers' = InWorkers \ {wrec[w].item}
        /\ \A v, x \in Workers :
              wrec'[v].item \in Items /\ wrec'[v].item = wrec'[x].item => v = x
    BY <2>1, WorkerLetsGo
  <2>6. Queued' = Queued /\ InFlight' = InFlight
    BY <1>1, <2>1, StagesKept
  <2>7. StageInv'
    BY <1>2, <2>3, <2>4, <2>5, <2>6 DEF StageInv, Partition
  <2>8. e.item \notin InResults
    BY <2>2, <2>3 DEF StageInv, Partition
  <2>9. DistinctItems(results')
    BY <2>1, <2>2, <2>8, DistinctAppend DEF OnceInv, InResults
  <2>10. QED
    BY <1>1, <1>2, <2>1, <2>5, <2>6, <2>7, <2>9 DEF OnceInv
<1>7. CASE DequeueWaits(w) \/ WorkerReturns(w)
  BY <1>4, <1>7 DEF DequeueWaits, WorkerReturns, queueVars, workerVars, outVars
<1>8. CASE FilterDrops(w) \/ SendCancelled(w)
  BY <1>5, <1>8 DEF FilterDrops, SendCancelled, queueVars, outVars
<1>9. CASE Enrich(w)
  <2>1. /\ wpc[w] = "process" /\ UNCHANGED <<pages, results>>
        /\ \/ UNCHANGED <<wrec, fate>>
           \/ Settle(wrec[w].item, "dropped") /\ NextRequest(w)
    BY <1>9 DEF Enrich, queueVars, outVars
  <2>2. QED
    BY <1>4, <1>5, <2>1
<1>10. QED
  BY <1>3, <1>6, <1>7, <1>8, <1>9 DEF EnrichmentWorker

LEMMA StageStep ==
    ASSUME TypeOK, PagesConsistent, StageInv, OnceInv, [Next]_vars
    PROVE  StageInv' /\ OnceInv'
<1>1. CASE UNCHANGED <<input, next, gstream, gitem, pages, wrec, results, fate>>
  <2>1. /\ InInput' = InInput /\ InGStream' = InGStream /\ InGWorkers' = InGWorkers
        /\ Queued' = Queued /\ InWorkers' = InWorkers /\ InResults' = InResults
        /\ InFlight' = InFlight
    BY <1>1, StagesKept
  <2>2. StageInv'
    BY <2>1 DEF StageInv, Partition
  <2>3. OnceInv'
    BY <1>1, <2>1 DEF OnceInv
  <2>4. QED
    BY <2>2, <2>3
<1>2. CASE LineAppended \/ UNCHANGED vars
  BY <1>1, <1>2 DEF LineAppended, vars, inputVars, gstreamVars, queueVars, workerVars, outVars
<1>3. CASE LoopEnds \/ StopClosesQueue \/ StopCancels \/ ClosesResults \/ ClosesOutput
             \/ PublisherReturns
  BY <1>1, <1>3 DEF LoopEnds, StopClosesQueue, StopCancels, ClosesResults, ClosesOutput,
                    PublisherReturns, inputVars, gstreamVars, queueVars, workerVars, outVars
<1>4. CASE Publish
  <2> DEFINE e == Head(results)
  <2>1. /\ results # <<>> /\ results' = Tail(results) /\ Settle(e.item, "emitted")
        /\ UNCHANGED <<input, next, gstream, gitem, pages, wrec>>
    BY <1>4 DEF Publish, inputVars, gstreamVars, queueVars, workerVars
  <2>2. results \in Seq(EnrichedRecords)
    BY DEF TypeOK, OutTypes
  <2>3. /\ InResults = {e.item} \cup ItemsOf(Tail(results))
        /\ DistinctItems(results')
        /\ e.item \notin ItemsOf(Tail(results))
    BY <2>1, <2>2, ItemsHeadTail, DistinctTail DEF InResults, OnceInv
  <2> HIDE DEF e
  <2>4. e.item \in InResults /\ InResults' = InResults \ {e.item}
    BY <2>1, <2>3 DEF InResults
  <2>5. e.item \in InFlight
    BY <2>4, StagesBelow
  <2>6. /\ InFlight' = InFlight \ {e.item}
        /\ \A j \in Items : j > next' => fate'[j] = "none"
    BY <2>1, <2>5, SettledFlight
  <2>7. /\ InInput' = InInput /\ InGStream' = InGStream /\ InGWorkers' = InGWorkers
        /\ Queued' = Queued /\ InWorkers' = InWorkers
    BY <2>1, StagesKept
  <2>8. StageInv'
    BY <2>4, <2>6, <2>7 DEF StageInv, Partition
  <2>9. QED
    BY <2>1, <2>3, <2>6, <2>7, <2>8 DEF OnceInv
<1>5. QED
  BY <1>2, <1>3, <1>4, ReaderStages, HandleStages, GStreamWorkerStages, EnrichmentWorkerStages
     DEF Next, Main, Publisher

-----------------------------------------------------------------------------
(* Records keep to the way of their own VO.                                *)

\* The parts of RouteInv follow the stages and the output.
LEMMA RouteKept ==
    ASSUME RouteInv, wpc' = wpc, wrec' = wrec, out' = out,
           InGStream' \cup InGWorkers' \subseteq InGStream \cup InGWorkers,
           Queued' \subseteq Queued, InResults' \subseteq InResults
    PROVE  RouteInv'
<1>1. InWorkers' = InWorkers
  BY StagesKept
<1>2. QED
  BY <1>1 DEF RouteInv, RoutedByOwnVO

LEMMA HandleRoutes ==
    ASSUME TypeOK, PagesConsistent, OnceInv, RouteInv, HandleParsedPacket
    PROVE  RouteInv'
<1> DEFINE i == Head(input)
<1>1. /\ input # <<>> /\ UNCHANGED <<workerVars, outVars>>
      /\ ParseFails(i) \/ HandleState(i) \/ HandleGStream(i) \/ EnqueueForEnrichment(i)
  BY DEF HandleParsedPacket
<1>2. i \in Items /\ i \in InInput
  BY <1>1, ElementsHeadTail DEF TypeOK, InputTypes, InInput
<1> HIDE DEF i
<1>3. wpc' = wpc /\ wrec' = wrec /\ out' = out /\ results' = results /\ gitem' = gitem
  BY <1>1 DEF workerVars, outVars, ParseFails, HandleState, HandleGStream, EnqueueForEnrichment,
              gstreamVars
<1>4. InWorkers' = InWorkers /\ InResults' = InResults /\ InGWorkers' = InGWorkers
  BY <1>3, StagesKept
<1>5. CASE UNCHANGED <<gstream, pages>>
  BY <1>3, <1>4, <1>5, StagesKept, RouteKept
<1>6. CASE HandleGStream(i)
  <2>1. Feed[i].kind \in GStreamKinds /\ pages' = pages
    BY <1>6 DEF HandleGStream, queueVars
  <2>2. Queued' = Queued
    BY <2>1, StagesKept
  <2>3. InGStream' \subseteq InGStream \cup {i}
    <3>1. gstream' = gstream \/ gstream' = Append(gstream, i)
      BY <1>6 DEF HandleGStream
    <3>2. gstream \in Seq(Items)
      BY DEF TypeOK, GStreamTypes
    <3>3. Elements(Append(gstream, i)) = Elements(gstream) \cup {i}
      BY <1>2, <3>2, ElementsAppend
    <3>4. QED
      BY <3>1, <3>3, StagesKept DEF InGStream
  <2>4. QED
    BY <1>3, <1>4, <2>1, <2>2, <2>3 DEF RouteInv, RoutedByOwnVO
<1>7. CASE EnqueueForEnrichment(i) /\ size < Capacity
  <2>1. /\ Feed[i].kind = "close" /\ gstream' = gstream
        /\ pages' = AppendRequest(Record(i)) /\ size' = size + 1
    BY <1>7 DEF EnqueueForEnrichment, gstreamVars
  <2>2. InGStream' = InGStream
    BY <2>1, StagesKept
  <2>3. Record(i) \in Requests /\ Record(i).item = i
    BY <1>2 DEF Requests, Record
  <2>4. \A q \in Queued : q < Record(i).item
    BY <1>2, <2>3 DEF OnceInv, Precedes
  <2>5. Queued' = Queued \cup {i}
    BY <1>7, <2>1, <2>3, <2>4, PagesAreTyped, AppendKeepsPages
  <2>6. QED
    BY <1>3, <1>4, <2>1, <2>2, <2>5 DEF RouteInv, RoutedByOwnVO
<1>8. QED
  BY <1>1, <1>5, <1>6, <1>7
     DEF ParseFails, HandleState, EnqueueForEnrichment, gstreamVars, queueVars

LEMMA GStreamWorkerRoutes ==
    ASSUME TypeOK, StageInv, OnceInv, RouteInv, NEW g \in GStreamWorkers, GStreamWorker(g)
    PROVE  RouteInv'
<1>1. UNCHANGED <<pages, wpc, wrec, results>>
  BY DEF GStreamWorker, GStreamTake, GStreamEmit, GStreamReturn, queueVars, workerVars, outVars
<1>2. Queued' = Queued /\ InWorkers' = InWorkers /\ InResults' = InResults
  BY <1>1, StagesKept
<1>3. \A h \in GStreamWorkers : gitem[h] \in Items \cup {0, -1}
  BY DEF TypeOK, GStreamTypes
<1>4. InGStream' \cup InGWorkers' \subseteq InGStream \cup InGWorkers
  <2>1. CASE GStreamTake(g)
    <3> DEFINE i == Head(gstream)
    <3>1. gstream # <<>> /\ gstream' = Tail(gstream) /\ gitem' = [gitem EXCEPT ![g] = i]
      BY <2>1 DEF GStreamTake
    <3>2. gstream \in Seq(Items)
      BY DEF TypeOK, GStreamTypes
    <3>3. InGStream = {i} \cup InGStream'
      BY <3>1, <3>2, ElementsHeadTail DEF InGStream
    <3> HIDE DEF i
    <3>4. \A h \in GStreamWorkers : gitem'[h] = IF h = g THEN i ELSE gitem[h]
      BY <3>1 DEF TypeOK, GStreamTypes
    <3>5. QED
      BY <3>3, <3>4 DEF InGWorkers
  <2>2. CASE GStreamEmit(g) \/ GStreamReturn(g)
    <3>1. /\ gstream' = gstream
          /\ \E v \in {0, -1} : gitem' = [gitem EXCEPT ![g] = v]
      BY <2>2 DEF GStreamEmit, GStreamReturn
    <3>2. \A h \in GStreamWorkers : gitem'[h] \in {gitem[h], 0, -1}
      BY <3>1 DEF TypeOK, GStreamTypes
    <3>3. 0 \notin Items /\ -1 \notin Items
      BY ItemFacts
    <3>4. InGWorkers' \subseteq InGWorkers
      BY <3>2, <3>3 DEF InGWorkers
    <3>5. QED
      BY <3>1, <3>4, StagesKept
  <2>3. QED
    BY <2>1, <2>2 DEF GStreamWorker
<1>5. CASE out' = out
  BY <1>1, <1>2, <1>4, <1>5, RouteKept
<1>6. CASE GStreamEmit(g) /\ out' = out \cup {GStreamEvent(gitem[g])}
  <2>1. gitem[g] \in InGWorkers
    BY <1>3, <1>6 DEF GStreamEmit, InGWorkers
  <2>2. /\ Feed[gitem[g]].kind # "close"
        /\ GStreamEvent(gitem[g]).item = gitem[g]
    BY <2>1 DEF RouteInv, GStreamKinds, GStreamEvent
  <2>3. RoutedByOwnVO'
    BY <1>6, <2>2 DEF RouteInv, RoutedByOwnVO
  <2>4. QED
    BY <1>1, <1>2, <1>4, <2>3 DEF RouteInv
<1>7. QED
  BY <1>5, <1>6 DEF GStreamWorker, GStreamTake, GStreamEmit, GStreamReturn, WriteToExchange, outVars

LEMMA EnrichmentWorkerRoutes ==
    ASSUME TypeOK, PagesConsistent, StageInv, OnceInv, RouteInv, NEW w \in Workers,
           EnrichmentWorker(w)
    PROVE  RouteInv'
<1>1. UNCHANGED <<gstream, gitem, out>>
  BY DEF EnrichmentWorker, Dequeue, DequeueWaits, WorkerReturns, FilterDrops, Enrich, Send,
         SendCancelled, gstreamVars, outVars
<1>2. InGStream' = InGStream /\ InGWorkers' = InGWorkers
  BY <1>1, StagesKept
<1>3. /\ wpc \in [Workers -> {"dequeue", "process", "send", "returned"}]
      /\ wrec \in [Workers -> Requests \cup {NoRecord}]
  BY DEF TypeOK, WorkerTypes
<1>4. CASE Dequeue(w)
  <2>1. /\ size > 0 /\ pages' = RemoveRequest /\ size' = size - 1
        /\ wrec' = [wrec EXCEPT ![w] = First] /\ wpc' = [wpc EXCEPT ![w] = "process"]
        /\ results' = results
    BY <1>4 DEF Dequeue, First, outVars
  <2>2. First.item \in Queued
    BY <2>1, PagesAreTyped, FirstFacts
  <2>3. Queued' \subseteq Queued
    BY <2>1, PagesAreTyped, RemoveKeepsPages
  <2>4. InResults' = InResults
    BY <2>1, StagesKept
  <2>5. \A v \in Workers : /\ wrec'[v] = IF v = w THEN First ELSE wrec[v]
                           /\ wpc'[v] = IF v = w THEN "process" ELSE wpc[v]
    BY <1>3, <2>1
  <2>6. InWorkers' \subseteq InWorkers \cup Queued
    BY <2>2, <2>5 DEF InWorkers
  <2>7. QED
    BY <1>1, <1>2, <2>3, <2>4, <2>5, <2>6 DEF RouteInv, RoutedByOwnVO
<1>5. ASSUME NextRequest(w), pages' = pages
      PROVE  /\ Queued' = Queued /\ InWorkers' \subseteq InWorkers
             /\ \A v \in Workers : wpc'[v] = "send" => wpc[v] = "send" /\ wrec'[v] = wrec[v]
  <2>1. \A v \in Workers : /\ wrec'[v] = IF v = w THEN NoRecord ELSE wrec[v]
                           /\ wpc'[v] = IF v = w THEN "dequeue" ELSE wpc[v]
    BY <1>3, <1>5 DEF NextRequest
  <2>2. QED
    BY <1>5, <2>1, StagesKept, WorkerLetsGo
<1>6. CASE NextRequest(w) /\ UNCHANGED <<pages, results>>
  BY <1>1, <1>2, <1>5, <1>6, StagesKept DEF RouteInv, RoutedByOwnVO
<1>7. CASE Send(w)
  <2> DEFINE e == BuildEnrichedRecord(wrec[w])
  <2>1. wpc[w] = "send" /\ NextRequest(w) /\ results' = Append(results, e) /\ pages' = pages
    BY <1>7 DEF Send, queueVars
  <2>2. /\ e \in EnrichedRecords /\ e.item = wrec[w].item /\ wrec[w].item \in Items
        /\ wrec[w] = Record(wrec[w].item)
        /\ results \in Seq(EnrichedRecords)
    BY <2>1, HeldRequest, RequestFacts DEF BuildEnrichedRecord, TypeOK, OutTypes
  <2> HIDE DEF e
  <2>3. InResults' = InResults \cup {wrec[w].item}
    BY <2>1, <2>2, ItemsAppend DEF InResults
  <2>4. wrec[w].item \in InWorkers /\ ~ShouldDrop(Record(wrec[w].item))
    BY <2>1, <2>2 DEF InWorkers, RouteInv
  <2>5. QED
    BY <1>1, <1>2, <1>5, <2>1, <2>3, <2>4 DEF RouteInv, RoutedByOwnVO
<1>8. CASE DequeueWaits(w) \/ WorkerReturns(w)
  <2>1. /\ UNCHANGED <<pages, wrec, results>>
        /\ \A v \in Workers : wpc'[v] = "send" => wpc[v] = "send"
    BY <1>3, <1>8 DEF DequeueWaits, WorkerReturns, workerVars, queueVars, outVars
  <2>2. QED
    BY <1>1, <1>2, <2>1, StagesKept DEF RouteInv, RoutedByOwnVO
<1>9. CASE FilterDrops(w) \/ SendCancelled(w)
  BY <1>6, <1>9 DEF FilterDrops, SendCancelled, queueVars, outVars
<1>10. CASE Enrich(w)
  <2>1. /\ ~ShouldDrop(wrec[w]) /\ UNCHANGED <<pages, results>>
        /\ \/ wpc' = [wpc EXCEPT ![w] = "send"] /\ wrec' = wrec
           \/ NextRequest(w)
    BY <1>10 DEF Enrich, queueVars, outVars
  <2>2. CASE wpc' = [wpc EXCEPT ![w] = "send"] /\ wrec' = wrec
    <3>1. \A v \in Workers : wpc'[v] = IF v = w THEN "send" ELSE wpc[v]
      BY <1>3, <2>2
    <3>2. \A v \in Workers : wpc'[v] = "send" => ~ShouldDrop(wrec'[v])
      BY <2>1, <2>2, <3>1 DEF RouteInv
    <3>3. QED
      BY <1>1, <1>2, <2>1, <2>2, <3>2, StagesKept DEF RouteInv, RoutedByOwnVO
  <2>3. QED
    BY <1>6, <2>1, <2>2
<1>11. QED
  BY <1>4, <1>7, <1>8, <1>9, <1>10 DEF EnrichmentWorker

LEMMA RouteStep ==
    ASSUME TypeOK, PagesConsistent, StageInv, OnceInv, RouteInv, [Next]_vars
    PROVE  RouteInv'
<1>1. CASE UNCHANGED <<gstream, gitem, pages, wpc, wrec, results, out>>
  BY <1>1, StagesKept, RouteKept
<1>2. CASE LineAppended \/ Reader \/ UNCHANGED vars
  BY <1>1, <1>2 DEF LineAppended, Reader, ReadNext, ReadEOF, ReadError, vars, gstreamVars,
                    queueVars, workerVars, outVars
<1>3. CASE LoopEnds \/ StopClosesQueue \/ StopCancels \/ ClosesResults \/ ClosesOutput
             \/ PublisherReturns
  BY <1>1, <1>3 DEF LoopEnds, StopClosesQueue, StopCancels, ClosesResults, ClosesOutput,
                    PublisherReturns, gstreamVars, queueVars, workerVars, outVars
<1>4. CASE Publish
  <2> DEFINE e == Head(results)
  <2>1. /\ results # <<>> /\ results' = Tail(results) /\ out' = out \cup {e}
        /\ UNCHANGED <<gstream, gitem, pages, wpc, wrec>>
    BY <1>4 DEF Publish, WriteToExchange, gstreamVars, queueVars, workerVars
  <2>2. results \in Seq(EnrichedRecords) /\ e \in EnrichedRecords
    BY <2>1, ElementsHeadTail DEF TypeOK, OutTypes
  <2>3. InResults = {e.item} \cup InResults'
    BY <2>1, <2>2, ItemsHeadTail DEF InResults
  <2> HIDE DEF e
  <2>4. e = BuildEnrichedRecord(Record(e.item)) /\ ~ShouldDrop(Record(e.item))
    BY <2>2, <2>3, EnrichedFacts DEF RouteInv
  <2>5. /\ e.exchange = "wlcg" <=> MatchesWLCG(Record(e.item))
        /\ e.vo = Stamp(Record(e.item)).vo
    BY <2>4 DEF BuildEnrichedRecord
  <2>6. RoutedByOwnVO'
    BY <2>1, <2>4, <2>5 DEF RouteInv, RoutedByOwnVO
  <2>7. /\ InGStream' = InGStream /\ InGWorkers' = InGWorkers /\ Queued' = Queued
        /\ InWorkers' = InWorkers /\ InResults' \subseteq InResults
    BY <2>1, <2>3, StagesKept
  <2>8. QED
    BY <2>1, <2>6, <2>7 DEF RouteInv
<1>5. QED
  BY <1>2, <1>3, <1>4, HandleRoutes, GStreamWorkerRoutes, EnrichmentWorkerRoutes
     DEF Next, Main, Publisher

-----------------------------------------------------------------------------
(* The theorems.                                                           *)

LEMMA InitIInv == Init => IInv
<1> SUFFICES ASSUME Init PROVE IInv
  OBVIOUS
<1>1. /\ next = 0 /\ input = <<>> /\ gstream = <<>> /\ pages = <<>> /\ results = <<>> /\ size = 0
      /\ gitem = [g \in GStreamWorkers |-> 0]
      /\ wpc = [w \in Workers |-> "dequeue"]
      /\ wrec = [w \in Workers |-> NoRecord]
      /\ fate = [i \in Items |-> "none"]
      /\ out = {} /\ source \in Sources /\ asleep = {}
      /\ written = IF source = "follow" THEN 0 ELSE Len(Feed)
      /\ mpc = "loop" /\ eof = FALSE /\ inputClosed = FALSE /\ gstreamClosed = FALSE
      /\ closed = FALSE /\ ctxDone = FALSE /\ resultsClosed = FALSE /\ publisherDone = FALSE
      /\ outClosed = FALSE
  BY DEF Init
<1>2. 0 \notin Items /\ \A i \in Items : ~(i <= 0)
  BY ItemFacts
<1>3. NoRecord.item = 0
  BY DEF NoRecord
<1>4. /\ <<>> \in Seq(Items) /\ <<>> \in Seq(EnrichedRecords) /\ Len(<<>>) = 0
      /\ <<>> \in Seq([reqs : Seq(Requests), cap : Nat])
  OBVIOUS
<1>5. TypeOK
  <2>1. Len(Feed) \in Nat /\ InputCap \in Nat /\ GStreamCap \in Nat /\ Capacity \in Nat
        /\ ResultsCap \in Nat
    BY FeedLength, Bounds
  <2>2. InputTypes
    <3>1. written \in 0..Len(Feed) /\ next \in 0..written
      BY <1>1, <2>1
    <3>2. input \in Seq(Items) /\ Len(input) <= InputCap
      BY <1>1, <1>4, <2>1
    <3>3. QED
      BY <1>1, <3>1, <3>2 DEF InputTypes
  <2>3. GStreamTypes
    <3>1. gstream \in Seq(Items) /\ Len(gstream) <= GStreamCap
      BY <1>1, <1>4, <2>1
    <3>2. QED
      BY <1>1, <3>1 DEF GStreamTypes
  <2>4. QueueTypes
    <3>1. pages \in Seq([reqs : Seq(Requests), cap : Nat]) /\ size \in 0..Capacity
      BY <1>1, <1>4, <2>1
    <3>2. QED
      BY <1>1, <3>1 DEF QueueTypes
  <2>5. WorkerTypes
    BY <1>1 DEF WorkerTypes
  <2>6. OutTypes
    <3>1. results \in Seq(EnrichedRecords) /\ Len(results) <= ResultsCap
      BY <1>1, <1>4, <2>1
    <3>2. QED
      BY <1>1, <3>1 DEF OutTypes
  <2>7. RestTypes
    BY <1>1 DEF RestTypes
  <2>8. QED
    BY <2>2, <2>3, <2>4, <2>5, <2>6, <2>7, TypeParts
<1>6. /\ InInput = {} /\ InGStream = {} /\ InGWorkers = {} /\ Queued = {} /\ InWorkers = {}
      /\ InResults = {} /\ InFlight = {}
  <2>1. Elements(<<>>) = {} /\ ItemsOf(<<>>) = {}
    BY DEF Elements, ItemsOf
  <2>2. Queued = {}
    BY <1>1, <1>4 DEF Queued
  <2>3. InGWorkers = {} /\ InWorkers = {}
    BY <1>1, <1>2, <1>3 DEF InGWorkers, InWorkers
  <2>4. InFlight = {}
    BY <1>1, <1>2 DEF InFlight
  <2>5. QED
    BY <1>1, <2>1, <2>2, <2>3, <2>4 DEF InInput, InGStream, InResults
<1>7. PagesConsistent
  <2>1. size = Cardinality(Queued)
    BY <1>1, <1>6, FS_EmptySet
  <2>2. Len(pages) = 0 /\ pages = <<>>
    BY <1>1
  <2>3. QED
    BY <2>1, <2>2 DEF PagesConsistent
<1>8. StageInv
  BY <1>6 DEF StageInv, Partition
<1>9. OnceInv
  <2>1. Increasing(<<>>) /\ DistinctItems(<<>>)
    BY <1>4 DEF Increasing, DistinctItems
  <2>2. /\ \A g \in GStreamWorkers : gitem[g] \notin Items
        /\ \A w \in Workers : wrec[w].item \notin Items
        /\ \A i \in Items : fate[i] = "none"
    BY <1>1, <1>2, <1>3
  <2>3. QED
    BY <1>1, <1>6, <2>1, <2>2 DEF OnceInv, Precedes
<1>10. ShutdownInv
  BY <1>1 DEF ShutdownInv
<1>11. RouteInv
  BY <1>1, <1>6 DEF RouteInv, RoutedByOwnVO
<1>12. QED
  BY <1>5, <1>7, <1>8, <1>9, <1>10, <1>11 DEF IInv

LEMMA NextIInv == IInv /\ [Next]_vars => IInv'
BY TypeStep, PagesStep, StageStep, ShutdownStep, RouteStep DEF IInv

\* The inductive invariant holds for any input, any number of workers and any
\* capacities.
THEOREM PipelineInvariant == Spec => []IInv
BY InitIInv, NextIInv, PTL DEF Spec

\* Types, and a worker has a record exactly while it works on one
\* (processEnrichmentRequest).
THEOREM PipelineTypes == Spec => []TypeOK
<1>1. IInv => TypeOK
  BY DEF IInv
<1>2. QED
  BY <1>1, PipelineInvariant, PTL

\* The paged queue of enrichment requests stays first-in first-out, counted and
\* within its capacity (enrichmentWorkQueue.enqueueLocked, Dequeue).
THEOREM PipelineQueue == Spec => []PagesConsistent
<1>1. IInv => PagesConsistent
  BY DEF IInv
<1>2. QED
  BY <1>1, PipelineInvariant, PTL

\* A record leaves on the exchange of the VO it came with (buildEnrichedRecord).
THEOREM PipelineRoutes == Spec => []RoutedByOwnVO
<1>1. IInv => RoutedByOwnVO
  BY DEF IInv, RouteInv
<1>2. QED
  BY <1>1, PipelineInvariant, PTL

\* How many elements a set has in which any two are the same.
LEMMA AtMostOne ==
    ASSUME NEW T, \A x, y \in T : x = y
    PROVE  Cardinality(T) = IF T = {} THEN 0 ELSE 1
<1>1. CASE T = {}
  BY <1>1, FS_EmptySet
<1>2. CASE T # {}
  <2>1. PICK x \in T : TRUE
    BY <1>2
  <2>2. T = {x}
    BY <2>1
  <2>3. QED
    BY <1>2, <2>2, FS_Singleton
<1>3. QED
  BY <1>1, <1>2

\* An item is at most once in each stage.
LEMMA PlacesCount ==
    ASSUME IInv, NEW i \in Items
    PROVE  Places(i) = IF i \in InFlight THEN 1 ELSE 0
<1> DEFINE T1 == {k \in 1..Len(input) : input[k] = i}
           T2 == {k \in 1..Len(gstream) : gstream[k] = i}
           T3 == {g \in GStreamWorkers : gitem[g] = i}
           T4 == {k \in 1..Len(pages) : i \in ItemsOf(pages[k].reqs)}
           T5 == {w \in Workers : wrec[w].item = i}
           T6 == {k \in 1..Len(results) : results[k].item = i}
<1>1. TypeOK /\ PagesConsistent /\ StageInv /\ OnceInv
  BY DEF IInv
<1>2. i \in Int
  BY ItemFacts
<1>3. Len(input) \in Nat /\ Len(gstream) \in Nat /\ Len(pages) \in Nat
  <2>1. /\ input \in Seq(Items) /\ gstream \in Seq(Items)
        /\ pages \in Seq([reqs : Seq(Requests), cap : Nat])
    BY <1>1 DEF TypeOK, InputTypes, GStreamTypes, QueueTypes
  <2>2. QED
    BY <2>1
<1>4. \A x, y \in T1 : x = y
  BY <1>1, <1>2, <1>3 DEF OnceInv, Increasing
<1>5. \A x, y \in T2 : x = y
  BY <1>1, <1>2, <1>3 DEF OnceInv, Increasing
<1>6. \A x, y \in T3 : x = y
  BY <1>1 DEF OnceInv
<1>7. \A x, y \in T4 : x = y
  <2>1. ASSUME NEW x \in T4, NEW y \in T4, x < y
        PROVE  FALSE
    <3>1. Precedes(ItemsOf(pages[x].reqs), ItemsOf(pages[y].reqs))
      BY <1>1, <2>1 DEF PagesConsistent
    <3>2. i < i
      BY <2>1, <3>1 DEF Precedes
    <3>3. QED
      BY <1>2, <3>2
  <2>2. \A x \in T4 : x \in Int
    BY <1>3
  <2>3. QED
    BY <2>1, <2>2
<1>8. \A x, y \in T5 : x = y
  BY <1>1 DEF OnceInv
<1>9. \A x, y \in T6 : x = y
  BY <1>1 DEF OnceInv, DistinctItems
<1>10. /\ T1 = {} <=> i \notin InInput
       /\ T2 = {} <=> i \notin InGStream
       /\ T3 = {} <=> i \notin InGWorkers
       /\ T4 = {} <=> i \notin Queued
       /\ T5 = {} <=> i \notin InWorkers
       /\ T6 = {} <=> i \notin InResults
  BY DEF InInput, InGStream, InGWorkers, Queued, InWorkers, InResults, Elements, ItemsOf
<1>11. Places(i) = Cardinality(T1) + Cardinality(T2) + Cardinality(T3) + Cardinality(T4)
                      + Cardinality(T5) + Cardinality(T6)
  BY DEF Places
<1> HIDE DEF T1, T2, T3, T4, T5, T6
<1>12. /\ Cardinality(T1) = IF i \notin InInput THEN 0 ELSE 1
       /\ Cardinality(T2) = IF i \notin InGStream THEN 0 ELSE 1
       /\ Cardinality(T3) = IF i \notin InGWorkers THEN 0 ELSE 1
       /\ Cardinality(T4) = IF i \notin Queued THEN 0 ELSE 1
       /\ Cardinality(T5) = IF i \notin InWorkers THEN 0 ELSE 1
       /\ Cardinality(T6) = IF i \notin InResults THEN 0 ELSE 1
  BY <1>4, <1>5, <1>6, <1>7, <1>8, <1>9, <1>10, AtMostOne
<1>13. QED
  BY <1>1, <1>11, <1>12 DEF StageInv, Partition

\* No packet is duplicated, and none vanishes without a fate, from packetsWithAddr
\* to the output connectors.
THEOREM PipelineNothingVanishes == Spec => []NothingVanishes
<1>1. ASSUME IInv PROVE NothingVanishes
  <2>1. next \in 0..written /\ written \in 0..Len(Feed)
    BY <1>1 DEF IInv, TypeOK, InputTypes
  <2>2. ASSUME NEW i \in 1..next
        PROVE  Places(i) = IF fate[i] = "none" THEN 1 ELSE 0
    <3>1. i \in Items /\ i <= next
      BY <2>1, <2>2, FeedLength DEF Items
    <3>2. i \in InFlight <=> fate[i] = "none"
      BY <3>1 DEF InFlight
    <3>3. QED
      BY <1>1, <3>1, <3>2, PlacesCount
  <2>3. QED
    BY <2>2 DEF NothingVanishes
<1>2. IInv => NothingVanishes
  BY <1>1
<1>3. QED
  BY <1>2, PipelineInvariant, PTL

\* Shutdown closes channels and outputs behind their users, and ends with nothing
\* unsettled (main's deferred calls, Correlator.Stop).
THEOREM PipelineClosedInOrder == Spec => []ClosedInOrder
<1>1. ASSUME IInv PROVE ClosedInOrder
  <2>1. TypeOK /\ PagesConsistent /\ StageInv /\ ShutdownInv
    BY <1>1 DEF IInv
  <2>2. outClosed => publisherDone /\ \A g \in GStreamWorkers : gitem[g] = -1
    BY <2>1 DEF ShutdownInv
  <2>3. ASSUME mpc = "exited", NEW i \in 1..next
        PROVE  fate[i] # "none"
    <3>1. /\ input = <<>> /\ results = <<>> /\ closed
          /\ \A g \in GStreamWorkers : gitem[g] = -1 /\ gstream = <<>>
          /\ \A w \in Workers : wpc[w] = "returned" /\ size = 0
      BY <2>1, <2>3 DEF ShutdownInv
    <3>2. gstream = <<>> /\ size = 0
      BY <3>1, PipelineAssumption
    <3>3. Queued = {}
      <4>1. IsFiniteSet(Queued) /\ Cardinality(Queued) = 0
        BY <2>1, <3>2, PagesAreTyped, QueuedFinite DEF PagesConsistent
      <4>2. QED
        BY <4>1, FS_EmptySet
    <3>4. InInput = {} /\ InGStream = {} /\ InResults = {}
      <4>1. Elements(<<>>) = {} /\ ItemsOf(<<>>) = {}
        BY DEF Elements, ItemsOf
      <4>2. QED
        BY <3>1, <3>2, <4>1 DEF InInput, InGStream, InResults
    <3>5. InGWorkers = {}
      BY <3>1, ItemFacts DEF InGWorkers
    <3>6. InWorkers = {}
      <4>1. \A w \in Workers : wrec[w] = NoRecord
        BY <2>1, <3>1 DEF TypeOK, WorkerTypes
      <4>2. NoRecord.item = 0 /\ 0 \notin Items
        BY ItemFacts DEF NoRecord
      <4>3. QED
        BY <4>1, <4>2 DEF InWorkers
    <3>7. InFlight = {}
      BY <2>1, <3>3, <3>4, <3>5, <3>6, StagesBelow
    <3>8. i \in Items /\ i <= next
      <4>1. next \in 0..written /\ written \in 0..Len(Feed)
        BY <2>1 DEF TypeOK, InputTypes
      <4>2. QED
        BY <2>3, <4>1, FeedLength DEF Items
    <3>9. QED
      BY <3>7, <3>8 DEF InFlight
  <2>4. QED
    BY <2>1, <2>2, <2>3 DEF ClosedInOrder, ShutdownInv
<1>2. IInv => ClosedInOrder
  BY <1>1
<1>3. QED
  BY <1>2, PipelineInvariant, PTL
=============================================================================

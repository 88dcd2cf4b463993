---------------------------- MODULE ObjectProofs ----------------------------
(***************************************************************************)
(* nt_object_link, for every sequence of objects and every limit: what it  *)
(* releases, when it succeeds, and where everything ends up.  And          *)
(* nt_object_write and nt_object_read, for every object and whatever       *)
(* becomes of its file: it is read back as it was, or refused.             *)
(*                                                                         *)
(* Three things the code does once for all are proved of the operators     *)
(* first: what qsort leaves (SortedLists), that neighbours in order are    *)
(* enough for a table in order (NamesAscend, SitesAscend), and that moved  *)
(* relocations can still be told apart (RelocsMerged).  The invariant      *)
(* follows the function from loop to loop; each of its parts has a lemma   *)
(* saying that every step keeps it.                                        *)
(*                                                                         *)
(* Files: first where everything is.  Texts laid end to end begin where    *)
(* those before them end (TextsLaid, TextsFound), and every byte is in one *)
(* text, one section or the zeros between (BytesLaid).  Then what a file   *)
(* written gives back (SameObject), and what file an object made of any    *)
(* file has (SameFile).  The invariant says what the reader has checked,   *)
(* filled and allocated when it comes to each of its stretches.            *)
(***************************************************************************)
EXTENDS MCObjects, FiniteSetTheorems, SequenceTheorems, WellFoundedInduction, TLAPS

-----------------------------------------------------------------------------
(* What qsort leaves.  When below describes a strict total order, ranks    *)
(* are distinct and all taken.                                             *)

StrictOrder(below) ==
    /\ \A d \in DOMAIN below : below[d] \subseteq DOMAIN below /\ d \notin below[d]
    /\ \A d, e \in DOMAIN below : e \in below[d] => below[e] \subseteq below[d]
    /\ \A d, e \in DOMAIN below : d = e \/ d \in below[e] \/ e \in below[d]

(* list has every element of S, once.                                      *)
ListsOnce(list, S) ==
    /\ Cardinality(S) \in Nat /\ DOMAIN list = 1 .. Cardinality(S)
    /\ list \in Seq(S) /\ Len(list) = Cardinality(S)
    /\ \A n \in DOMAIN list : list[n] \in S
    /\ \A d \in S : \E n \in DOMAIN list : list[n] = d
    /\ \A m, n \in DOMAIN list : list[m] = list[n] => m = n

(* qsort: the list has every element once, and those before another before *)
(* it.                                                                     *)
LEMMA SortedLists ==
    ASSUME NEW below, IsFiniteSet(DOMAIN below), StrictOrder(below)
    PROVE  /\ ListsOnce(Sorted(below), DOMAIN below)
           /\ \A m, n \in DOMAIN Sorted(below) :
                  m < n => Sorted(below)[m] \in below[Sorted(below)[n]]
  <1>. DEFINE S == DOMAIN below
              n == Cardinality(S)
              rank == [d \in S |-> Cardinality(below[d]) + 1]
              list == Sorted(below)
  <1>1. n \in Nat
    BY FS_CardinalityType
  <1>2. ASSUME NEW d \in S
        PROVE  /\ IsFiniteSet(below[d])
               /\ Cardinality(below[d]) \in Nat /\ Cardinality(below[d]) + 1 \in 1 .. n
    <2>1. below[d] \in SUBSET (S \ {d})
      BY DEF StrictOrder
    <2>2. IsFiniteSet(S \ {d}) /\ Cardinality(S \ {d}) = n - 1
      BY FS_RemoveElement
    <2>3. IsFiniteSet(below[d]) /\ Cardinality(below[d]) <= n - 1
      BY <2>1, <2>2, FS_Subset
    <2>4. Cardinality(below[d]) \in Nat
      BY <2>3, FS_CardinalityType
    <2>. QED
      BY <1>1, <2>3, <2>4
  <1>3. ASSUME NEW d \in S, NEW e \in S, e \in below[d]
        PROVE  rank[e] < rank[d]
    <2>1. below[e] \in SUBSET (below[d] \ {e})
      BY <1>3 DEF StrictOrder
    <2>2. IsFiniteSet(below[d] \ {e}) /\ Cardinality(below[d] \ {e}) = Cardinality(below[d]) - 1
      BY <1>2, <1>3, FS_RemoveElement
    <2>3. Cardinality(below[e]) <= Cardinality(below[d]) - 1
      BY <2>1, <2>2, FS_Subset
    <2>. QED
      BY <1>2, <2>3
  <1>4. rank \in [S -> 1 .. n]
    BY <1>2
  <1>5. \A d, e \in S : rank[d] = rank[e] => d = e
    <2>. SUFFICES ASSUME NEW d \in S, NEW e \in S, d # e PROVE rank[d] # rank[e]
      OBVIOUS
    <2>1. d \in below[e] \/ e \in below[d]
      BY DEF StrictOrder
    <2>2. rank[d] < rank[e] \/ rank[e] < rank[d]
      BY <1>3, <2>1
    <2>3. rank[d] \in Int /\ rank[e] \in Int
      BY <1>2
    <2>. QED
      BY <2>2, <2>3
  <1>6. \A k \in 1 .. n : \E d \in S : rank[d] = k
    <2>1. rank \in Injection(S, 1 .. n)
      BY <1>4, <1>5 DEF Injection, IsInjective
    <2>2. IsFiniteSet(1 .. n) /\ Cardinality(1 .. n) = n
      BY <1>1, FS_Interval
    <2>. HIDE DEF rank
    <2>3. rank \in Surjection(S, 1 .. n)
      BY <2>1, <2>2, FS_Injection
    <2>. QED
      BY <2>3 DEF Surjection
  <1>7. DOMAIN list = 1 .. n
    BY DEF Sorted
  <1>8. ASSUME NEW k \in 1 .. n
        PROVE  list[k] \in S /\ rank[list[k]] = k
    <2>1. list[k] = CHOOSE d \in S : Cardinality(below[d]) = k - 1
      BY DEF Sorted
    <2>2. PICK d \in S : rank[d] = k
      BY <1>6
    <2>3. Cardinality(below[d]) = k - 1
      BY <1>2, <2>2
    <2>4. list[k] \in S /\ Cardinality(below[list[k]]) = k - 1
      BY <2>1, <2>3
    <2>. QED
      BY <2>4
  <1>. HIDE DEF rank, list
  <1>12. list \in Seq(S) /\ Len(list) = n
    <2>1. list = [k \in 1 .. n |-> list[k]]
      BY DEF list, Sorted
    <2>. QED
      BY <1>1, <1>8, <2>1
  <1>9. \A d \in S : \E k \in 1 .. n : list[k] = d
    <2>. SUFFICES ASSUME NEW d \in S PROVE list[rank[d]] = d
      BY <1>4
    <2>1. rank[d] \in 1 .. n
      BY <1>4
    <2>. QED
      BY <1>5, <1>8, <2>1
  <1>10. \A j, k \in 1 .. n : list[j] = list[k] => j = k
    BY <1>8
  <1>11. ASSUME NEW j \in 1 .. n, NEW k \in 1 .. n, j < k
         PROVE  list[j] \in below[list[k]]
    <2>1. list[j] \in S /\ list[k] \in S /\ rank[list[j]] = j /\ rank[list[k]] = k
      BY <1>8
    <2>2. list[j] # list[k]
      BY <1>11, <2>1
    <2>3. list[k] \notin below[list[j]]
      BY <1>1, <1>3, <1>11, <2>1
    <2>. QED
      BY <2>1, <2>2, <2>3 DEF StrictOrder
  <1>. QED
    BY <1>1, <1>7, <1>8, <1>9, <1>10, <1>11, <1>12 DEF list, ListsOnce

-----------------------------------------------------------------------------
(* What is known of a valid object: symbols in the order of their names,   *)
(* relocations in the order of their sites, not overlapping.  The code     *)
(* only compares neighbours.                                               *)

(* Aligning never goes down.                                               *)
LEMMA AlignedUp ==
    ASSUME NEW n \in Nat
    PROVE  Aligned(n) \in Nat /\ Aligned(n) >= n
  <1>. DEFINE m == n + ALIGN - 1
              q == m \div ALIGN
  <1>1. ALIGN \in Nat \ {0}
    BY NxoAssumption
  <1>2. q \in Nat /\ q * ALIGN <= m /\ m < (q + 1) * ALIGN
    BY <1>1
  <1>3. (q + 1) * ALIGN = q * ALIGN + ALIGN
    BY <1>1, <1>2
  <1>. QED
    BY <1>1, <1>2, <1>3 DEF Aligned

(* The types of an object's parts.                                         *)
LEMMA ObjectParts ==
    ASSUME NEW o \in Objects
    PROVE  /\ o.target \in Nat /\ o.entry \in Nat
           /\ o.sections \in [Sections -> Seq(Nat)]
           /\ o.symbols \in Seq(SymbolRecords) /\ o.relocs \in Seq(RelocRecords)
           /\ \A k \in Sections : Size(o, k) \in Nat
           /\ Len(o.symbols) \in Nat /\ DOMAIN o.symbols = 1 .. Len(o.symbols)
           /\ Len(o.relocs) \in Nat /\ DOMAIN o.relocs = 1 .. Len(o.relocs)
           /\ \A n \in DOMAIN o.symbols : o.symbols[n] \in SymbolRecords
           /\ \A n \in DOMAIN o.relocs : o.relocs[n] \in RelocRecords
  BY DEF Objects, Size

(* Every non-empty set of naturals has a least element.                    *)
LEMMA LeastNatural ==
    ASSUME NEW S \in SUBSET Nat, S # {}
    PROVE  \E n \in S : \A m \in S : n <= m
  <1>1. IsWellFoundedOn(OpToRel(<, Nat), Nat)
    BY NatLessThanWellFounded
  <1>2. PICK n \in S : \A m \in S : ~ (<<m, n>> \in OpToRel(<, Nat))
    BY <1>1, WFMin
  <1>3. \A m \in S : ~ (m < n)
    BY <1>2 DEF OpToRel
  <1>. QED
    BY <1>3

(* The names of a valid object ascend, though only neighbours are          *)
(* compared.                                                               *)
LEMMA NamesAscend ==
    ASSUME NEW o \in Objects, Valid(o),
           NEW j \in DOMAIN o.symbols, NEW k \in DOMAIN o.symbols, j < k
    PROVE  o.symbols[j].name < o.symbols[k].name
  <1>. DEFINE Bad == {n \in DOMAIN o.symbols : j < n /\ ~ (o.symbols[j].name < o.symbols[n].name)}
  <1>. SUFFICES ASSUME Bad # {} PROVE FALSE
    OBVIOUS
  <1>1. /\ DOMAIN o.symbols = 1 .. Len(o.symbols) /\ Len(o.symbols) \in Nat
        /\ \A n \in DOMAIN o.symbols : o.symbols[n].name \in Nat
    BY ObjectParts DEF SymbolRecords
  <1>. Bad \in SUBSET Nat
    BY <1>1
  <1>2. PICK n \in Bad : \A m \in Bad : n <= m
    BY LeastNatural
  <1>3. n \in DOMAIN o.symbols /\ n > 1 /\ o.symbols[n - 1].name < o.symbols[n].name
    BY <1>1 DEF Valid, ValidSymbol
  <1>4. n - 1 \in DOMAIN o.symbols /\ n - 1 \notin Bad
    BY <1>1, <1>2, <1>3
  <1>5. n - 1 = j \/ o.symbols[j].name < o.symbols[n - 1].name
    BY <1>1, <1>2, <1>4
  <1>. QED
    BY <1>1, <1>2, <1>3, <1>4, <1>5

(* The sites of a valid object ascend, though only neighbours are          *)
(* compared.                                                               *)
LEMMA SitesAscend ==
    ASSUME NEW o \in Objects, Valid(o),
           NEW j \in DOMAIN o.relocs, NEW k \in DOMAIN o.relocs, j < k
    PROVE  SiteBefore(o.relocs[j], o.relocs[k])
  <1>. DEFINE Bad == {n \in DOMAIN o.relocs : j < n /\ ~ SiteBefore(o.relocs[j], o.relocs[n])}
  <1>. SUFFICES ASSUME Bad # {} PROVE FALSE
    OBVIOUS
  <1>1. /\ DOMAIN o.relocs = 1 .. Len(o.relocs) /\ Len(o.relocs) \in Nat
        /\ \A n \in DOMAIN o.relocs : o.relocs[n].section \in Nat /\ o.relocs[n].offset \in Nat
    BY ObjectParts DEF RelocRecords
  <1>. Bad \in SUBSET Nat
    BY <1>1
  <1>2. PICK n \in Bad : \A m \in Bad : n <= m
    BY LeastNatural
  <1>3. n \in DOMAIN o.relocs /\ n > 1 /\ n - 1 \in DOMAIN o.relocs
    BY <1>1
  <1>. DEFINE r == o.relocs[n]
              p == o.relocs[n - 1]
              q == o.relocs[j]
  <1>a. /\ r.section \in Nat /\ r.offset \in Nat /\ p.section \in Nat /\ p.offset \in Nat
        /\ q.section \in Nat /\ q.offset \in Nat
    BY <1>1, <1>3
  <1>b. ValidReloc(o, n)
    BY <1>3 DEF Valid
  <1>4. SiteBefore(p, r)
    <2>1. Width(p.kind) \in Nat \ {0}
      BY NxoAssumption DEF Width
    <2>2. \/ r.section > p.section
          \/ r.section = p.section /\ r.offset >= p.offset + Width(p.kind)
      BY <1>3, <1>b DEF ValidReloc
    <2>. QED
      BY <1>a, <2>1, <2>2 DEF SiteBefore
  <1>5. n - 1 \notin Bad
    BY <1>1, <1>2, <1>3
  <1>6. n - 1 = j \/ SiteBefore(q, p)
    BY <1>1, <1>2, <1>3, <1>5
  <1>7. ~ SiteBefore(q, r)
    OBVIOUS
  <1>8. SiteBefore(q, p) => SiteBefore(q, r)
    <2>. HIDE DEF p, q, r
    <2>. QED
      BY <1>a, <1>4 DEF SiteBefore
  <1>. QED
    BY <1>4, <1>6, <1>7, <1>8

(* Nor do fields further apart overlap.                                    *)
LEMMA FieldsApart ==
    ASSUME NEW o \in Objects, Valid(o),
           NEW j \in DOMAIN o.relocs, NEW k \in DOMAIN o.relocs, j < k,
           o.relocs[j].section = o.relocs[k].section
    PROVE  o.relocs[j].offset + Width(o.relocs[j].kind) <= o.relocs[k].offset
  <1>1. /\ DOMAIN o.relocs = 1 .. Len(o.relocs) /\ Len(o.relocs) \in Nat
        /\ \A n \in DOMAIN o.relocs : o.relocs[n].section \in Nat /\ o.relocs[n].offset \in Nat
    BY ObjectParts DEF RelocRecords
  <1>2. PICK m : m = j + 1
    OBVIOUS
  <1>3. m \in DOMAIN o.relocs /\ m > 1 /\ m - 1 = j /\ (m = k \/ m < k)
    BY <1>1, <1>2
  <1>4. PICK p, q, r : p = o.relocs[j] /\ q = o.relocs[m] /\ r = o.relocs[k]
    OBVIOUS
  <1>5. /\ p.section \in Nat /\ p.offset \in Nat /\ q.section \in Nat /\ q.offset \in Nat
        /\ r.section \in Nat /\ r.offset \in Nat /\ p.section = r.section
    BY <1>1, <1>3, <1>4
  <1>6. ValidReloc(o, m)
    BY <1>3 DEF Valid
  <1>7. q.section > p.section \/ (q.section = p.section /\ q.offset >= p.offset + Width(p.kind))
    BY <1>3, <1>4, <1>6 DEF ValidReloc
  <1>8. q = r \/ SiteBefore(q, r)
    BY <1>3, <1>4, SitesAscend
  <1>9. Width(p.kind) \in Nat
    BY NxoAssumption DEF Width
  <1>10. p.offset + Width(p.kind) <= r.offset
    BY <1>5, <1>7, <1>8, <1>9 DEF SiteBefore
  <1>. QED
    BY <1>4, <1>10

-----------------------------------------------------------------------------
(* The symbols and the relocations of all objects.                         *)

Pairs(n, len) == UNION {{i} \X (1 .. len[i]) : i \in 1 .. n}

(* The places in finitely many lists are finitely many.                    *)
LEMMA PairsFinite ==
    ASSUME NEW n \in Nat, NEW len \in [1 .. n -> Nat]
    PROVE  IsFiniteSet(Pairs(n, len))
  <1>. DEFINE T == {{i} \X (1 .. len[i]) : i \in 1 .. n}
              f == [i \in 1 .. n |-> {i} \X (1 .. len[i])]
  <1>1. IsFiniteSet(1 .. n)
    BY FS_Interval
  <1>2. f \in Surjection(1 .. n, T)
    BY DEF Surjection
  <1>3. IsFiniteSet(T)
    <2>. HIDE DEF f, T
    <2>. QED
      BY <1>1, <1>2, FS_Surjection
  <1>4. ASSUME NEW i \in 1 .. n PROVE IsFiniteSet({i} \X (1 .. len[i]))
    <2>1. IsFiniteSet({i})
      BY FS_Singleton
    <2>2. len[i] \in Int
      OBVIOUS
    <2>3. IsFiniteSet(1 .. len[i])
      BY <2>2, FS_Interval
    <2>. QED
      BY <2>1, <2>3, FS_Product
  <1>5. \A S \in T : IsFiniteSet(S)
    BY <1>4
  <1>. HIDE DEF T
  <1>6. IsFiniteSet(UNION T)
    BY <1>3, <1>5, FS_UNION
  <1>. QED
    BY <1>6 DEF Pairs, T

(* A place is a list's number and a place in it.                           *)
LEMMA PairsParts ==
    ASSUME NEW n \in Nat, NEW len \in [1 .. n -> Nat]
    PROVE  \A d : d \in Pairs(n, len) <=>
               d = <<d[1], d[2]>> /\ d[1] \in 1 .. n /\ d[2] \in 1 .. len[d[1]]
  BY DEF Pairs

(* A record with the parts of an object.                                   *)
Shaped(r) ==
    r \in [target : {r.target}, entry : {r.entry}, sections : {r.sections},
           symbols : {r.symbols}, relocs : {r.relocs}]

Typed ==
    /\ objects \in Seq(Objects)
    /\ Shaped(result)
    /\ unit \in Nat \ {0}
    /\ totals \in [Sections -> Nat]
    /\ bases \in Seq([Sections -> Nat])

(* The symbols and sites of all units, as pairs of unit and index.         *)
LEMMA SymbolParts ==
    ASSUME objects \in Seq(Objects)
    PROVE  /\ IsFiniteSet(AllSymbols) /\ IsFiniteSet(AllRelocs) /\ IsFiniteSet(Definitions)
           /\ \A d : d \in AllSymbols <=>
                 d = <<d[1], d[2]>> /\ d[1] \in DOMAIN objects /\ d[2] \in DOMAIN SymbolsOf(d[1])
           /\ \A d : d \in AllRelocs <=>
                 d = <<d[1], d[2]>> /\ d[1] \in DOMAIN objects /\ d[2] \in DOMAIN RelocsOf(d[1])
  <1>. DEFINE symbols == [i \in 1 .. Len(objects) |-> Len(SymbolsOf(i))]
              relocs == [i \in 1 .. Len(objects) |-> Len(RelocsOf(i))]
  <1>1. /\ Len(objects) \in Nat /\ DOMAIN objects = 1 .. Len(objects)
        /\ \A i \in DOMAIN objects : objects[i] \in Objects
    OBVIOUS
  <1>2. \A i \in DOMAIN objects :
            /\ Len(SymbolsOf(i)) \in Nat /\ DOMAIN SymbolsOf(i) = 1 .. Len(SymbolsOf(i))
            /\ Len(RelocsOf(i)) \in Nat /\ DOMAIN RelocsOf(i) = 1 .. Len(RelocsOf(i))
    BY <1>1, ObjectParts DEF SymbolsOf, RelocsOf
  <1>3. AllSymbols = Pairs(Len(objects), symbols) /\ AllRelocs = Pairs(Len(objects), relocs)
    BY <1>1, <1>2 DEF AllSymbols, AllRelocs, Pairs
  <1>4. PICK n, s, r : n = Len(objects) /\ s = symbols /\ r = relocs
    OBVIOUS
  <1>5. n \in Nat /\ s \in [1 .. n -> Nat] /\ r \in [1 .. n -> Nat]
    BY <1>1, <1>2, <1>4
  <1>6. IsFiniteSet(AllSymbols) /\ IsFiniteSet(AllRelocs)
    BY <1>3, <1>4, <1>5, PairsFinite
  <1>7. PICK a : a = AllSymbols
    OBVIOUS
  <1>8. Definitions \in SUBSET a /\ IsFiniteSet(a)
    BY <1>6, <1>7 DEF Definitions
  <1>9. PICK b : b = Definitions
    OBVIOUS
  <1>10. IsFiniteSet(Definitions)
    BY <1>8, <1>9, FS_Subset
  <1>11. \A d : d \in AllSymbols <=> d = <<d[1], d[2]>> /\ d[1] \in 1 .. n /\ d[2] \in 1 .. s[d[1]]
    BY <1>3, <1>4, <1>5, PairsParts
  <1>12. \A d : d \in AllRelocs <=> d = <<d[1], d[2]>> /\ d[1] \in 1 .. n /\ d[2] \in 1 .. r[d[1]]
    BY <1>3, <1>4, <1>5, PairsParts
  <1>. QED
    BY <1>1, <1>2, <1>4, <1>6, <1>10, <1>11, <1>12

AllValid == \A i \in DOMAIN objects : Valid(objects[i])

(* A symbol of a unit has its type.                                        *)
LEMMA SymbolTypes ==
    ASSUME objects \in Seq(Objects), NEW d \in AllSymbols
    PROVE  /\ d = <<d[1], d[2]>> /\ d[1] \in DOMAIN objects /\ d[1] \in Nat
           /\ d[2] \in DOMAIN SymbolsOf(d[1]) /\ d[2] \in Nat
           /\ Symbol(d) \in SymbolRecords
  <1>1. d = <<d[1], d[2]>> /\ d[1] \in DOMAIN objects /\ d[2] \in DOMAIN SymbolsOf(d[1])
    BY SymbolParts
  <1>2. PICK i, j : i = d[1] /\ j = d[2]
    OBVIOUS
  <1>3. objects[i] \in Objects /\ i \in Nat
    BY <1>1, <1>2
  <1>. QED
    BY <1>1, <1>2, <1>3, ObjectParts DEF Symbol, SymbolsOf

(* A site of a unit has its type.                                          *)
LEMMA RelocTypes ==
    ASSUME objects \in Seq(Objects), NEW d \in AllRelocs
    PROVE  /\ d = <<d[1], d[2]>> /\ d[1] \in DOMAIN objects /\ d[1] \in Nat
           /\ d[2] \in DOMAIN RelocsOf(d[1]) /\ d[2] \in Nat
           /\ RelocsOf(d[1])[d[2]] \in RelocRecords
  <1>1. d = <<d[1], d[2]>> /\ d[1] \in DOMAIN objects /\ d[2] \in DOMAIN RelocsOf(d[1])
    BY SymbolParts
  <1>2. PICK i, j : i = d[1] /\ j = d[2]
    OBVIOUS
  <1>3. objects[i] \in Objects /\ i \in Nat
    BY <1>1, <1>2
  <1>. QED
    BY <1>1, <1>2, <1>3, ObjectParts DEF RelocsOf

(* No unit has two symbols of one name, so definitions can be compared.    *)
LEMMA SameUnitSameName ==
    ASSUME objects \in Seq(Objects), AllValid, NEW d \in AllSymbols, NEW e \in AllSymbols,
           d[1] = e[1], Symbol(d).name = Symbol(e).name
    PROVE  d = e
  <1>1. PICK i, j, k, o : i = d[1] /\ j = d[2] /\ k = e[2] /\ o = objects[i]
    OBVIOUS
  <1>2. /\ d = <<i, j>> /\ e = <<i, k>> /\ i \in DOMAIN objects /\ o \in Objects /\ Valid(o)
        /\ j \in DOMAIN o.symbols /\ k \in DOMAIN o.symbols
    BY <1>1, SymbolTypes DEF AllValid, SymbolsOf
  <1>3. o.symbols[j].name = o.symbols[k].name /\ o.symbols[j].name \in Nat
    BY <1>1, <1>2, SymbolTypes DEF SymbolsOf, Symbol, SymbolRecords
  <1>4. j \in Nat /\ k \in Nat
    BY <1>2, ObjectParts
  <1>5. ~ (j < k) /\ ~ (k < j)
    BY <1>2, <1>3, NamesAscend
  <1>. QED
    BY <1>2, <1>4, <1>5

(* The order of the definitions is a strict order of them all.             *)
LEMMA DefinitionsOrdered ==
    ASSUME objects \in Seq(Objects), AllValid
    PROVE  StrictOrder([d \in Definitions |-> {e \in Definitions : DefinedBefore(e, d)}])
  <1>. DEFINE below == [d \in Definitions |-> {e \in Definitions : DefinedBefore(e, d)}]
  <1>1. \A d \in Definitions : Symbol(d).name \in Nat /\ d[1] \in Nat /\ d \in AllSymbols
    BY SymbolTypes DEF Definitions, SymbolRecords
  <1>2. \A d \in Definitions : d \notin below[d]
    BY <1>1 DEF DefinedBefore
  <1>3. ASSUME NEW d \in Definitions, NEW e \in Definitions, e \in below[d]
        PROVE  below[e] \subseteq below[d]
    <2>. SUFFICES ASSUME NEW f \in Definitions, DefinedBefore(f, e) PROVE DefinedBefore(f, d)
      OBVIOUS
    <2>1. DefinedBefore(e, d)
      BY <1>3
    <2>. QED
      BY <1>1, <2>1 DEF DefinedBefore
  <1>4. ASSUME NEW d \in Definitions, NEW e \in Definitions
        PROVE  d = e \/ d \in below[e] \/ e \in below[d]
    <2>1. CASE Symbol(d).name = Symbol(e).name /\ d[1] = e[1]
      BY <1>1, <2>1, SameUnitSameName
    <2>2. CASE ~ (Symbol(d).name = Symbol(e).name /\ d[1] = e[1])
      <3>1. DefinedBefore(d, e) \/ DefinedBefore(e, d)
        BY <1>1, <2>2 DEF DefinedBefore
      <3>. QED
        BY <3>1
    <2>. QED
      BY <2>1, <2>2
  <1>. QED
    BY <1>2, <1>3, <1>4 DEF StrictOrder

Ascending(list) == \A m, n \in DOMAIN list : m < n => DefinedBefore(list[m], list[n])

(* Sorted, the definitions are there once, equal names side by side.       *)
LEMMA DefinitionsSorted ==
    ASSUME objects \in Seq(Objects), AllValid
    PROVE  LET list == Sorted([d \in Definitions |-> {e \in Definitions : DefinedBefore(e, d)}])
           IN  ListsOnce(list, Definitions) /\ Ascending(list)
  <1>1. PICK b : b = [d \in Definitions |-> {e \in Definitions : DefinedBefore(e, d)}]
    OBVIOUS
  <1>2. IsFiniteSet(DOMAIN b) /\ StrictOrder(b) /\ DOMAIN b = Definitions
    BY <1>1, SymbolParts, DefinitionsOrdered
  <1>3. /\ ListsOnce(Sorted(b), DOMAIN b)
        /\ \A m, n \in DOMAIN Sorted(b) : m < n => Sorted(b)[m] \in b[Sorted(b)[n]]
    BY <1>2, SortedLists
  <1>4. \A n \in DOMAIN Sorted(b) : Sorted(b)[n] \in Definitions
    BY <1>2, <1>3 DEF ListsOnce
  <1>5. PICK list : list = Sorted(b)
    OBVIOUS
  <1>6. ASSUME NEW m \in DOMAIN list, NEW n \in DOMAIN list, m < n
        PROVE  DefinedBefore(list[m], list[n])
    <2>1. list[m] \in b[list[n]] /\ list[n] \in Definitions
      BY <1>3, <1>4, <1>5, <1>6
    <2>2. list[m] \in {e \in Definitions : DefinedBefore(e, list[n])}
      BY <1>1, <2>1
    <2>. QED
      BY <2>2
  <1>. QED
    BY <1>1, <1>2, <1>3, <1>5, <1>6 DEF Ascending

(* A list of nothing but what was moved, none before one it comes after.   *)
ListedInOrder(list, moved) ==
    /\ DOMAIN list = 1 .. Cardinality(AllRelocs)
    /\ \A n \in DOMAIN list : \E d \in AllRelocs : list[n] = moved[d]
    /\ \A m, n \in DOMAIN list : m < n =>
          \E d, e \in AllRelocs :
              /\ d # e /\ list[m] = moved[d] /\ list[n] = moved[e]
              /\ ~ SiteBefore(moved[e], moved[d])

(* Relocations that keep their order within each unit can be merged.       *)
LEMMA Merged ==
    ASSUME objects \in Seq(Objects), NEW moved, DOMAIN moved = AllRelocs,
           \A d \in AllRelocs : moved[d].section \in Nat /\ moved[d].offset \in Nat,
           \A d, e \in AllRelocs : d[1] = e[1] /\ d # e =>
               SiteBefore(moved[d], moved[e]) \/ SiteBefore(moved[e], moved[d])
    PROVE  /\ Len(InSiteOrder(moved)) = Cardinality(AllRelocs)
           /\ \A d \in AllRelocs : \E n \in DOMAIN InSiteOrder(moved) : InSiteOrder(moved)[n] = moved[d]
           /\ ListedInOrder(InSiteOrder(moved), moved)
  <1>. DEFINE Before(e, d) == \/ SiteBefore(moved[e], moved[d])
                              \/ SameSite(moved[e], moved[d]) /\ e[1] < d[1]
              below == [d \in AllRelocs |-> {e \in AllRelocs : Before(e, d)}]
  <1>1. \A d \in AllRelocs : moved[d].section \in Nat /\ moved[d].offset \in Nat /\ d[1] \in Nat
    BY RelocTypes
  <1>2. \A d \in AllRelocs : d \notin below[d]
    BY <1>1 DEF SiteBefore
  <1>3. ASSUME NEW d \in AllRelocs, NEW e \in AllRelocs, NEW f \in AllRelocs, Before(f, e), Before(e, d)
        PROVE  Before(f, d)
    BY <1>1, <1>3 DEF SiteBefore, SameSite
  <1>4. ASSUME NEW d \in AllRelocs, NEW e \in AllRelocs
        PROVE  d = e \/ Before(d, e) \/ Before(e, d)
    BY <1>1 DEF SiteBefore, SameSite
  <1>. HIDE DEF Before
  <1>5. StrictOrder(below)
    <2>1. \A d \in DOMAIN below : below[d] \subseteq DOMAIN below /\ d \notin below[d]
      BY <1>2
    <2>2. \A d, e \in DOMAIN below : e \in below[d] => below[e] \subseteq below[d]
      BY <1>3
    <2>3. \A d, e \in DOMAIN below : d = e \/ d \in below[e] \/ e \in below[d]
      BY <1>4
    <2>. QED
      BY <2>1, <2>2, <2>3 DEF StrictOrder
  <1>6. PICK b : b = below
    OBVIOUS
  <1>7. IsFiniteSet(DOMAIN b) /\ StrictOrder(b) /\ DOMAIN b = AllRelocs
    BY <1>5, <1>6, SymbolParts
  <1>8. ListsOnce(Sorted(b), AllRelocs)
    BY <1>7, SortedLists
  <1>9. PICK sites : sites = Sorted(b)
    OBVIOUS
  <1>10. InSiteOrder(moved) = [n \in DOMAIN sites |-> moved[sites[n]]]
    BY <1>6, <1>9 DEF InSiteOrder, Before
  <1>11. Cardinality(AllRelocs) \in Nat /\ DOMAIN sites = 1 .. Cardinality(AllRelocs)
    BY <1>8, <1>9 DEF ListsOnce
  <1>12. Len(InSiteOrder(moved)) = Cardinality(AllRelocs)
    BY <1>10, <1>11
  <1>13. \A d \in AllRelocs : \E n \in DOMAIN sites : sites[n] = d
    BY <1>8, <1>9 DEF ListsOnce
  <1>14. \A n \in DOMAIN sites : sites[n] \in AllRelocs
    BY <1>8, <1>9 DEF ListsOnce
  <1>15. ASSUME NEW m \in DOMAIN sites, NEW n \in DOMAIN sites, m < n
         PROVE  sites[m] # sites[n] /\ ~ SiteBefore(moved[sites[n]], moved[sites[m]])
    <2>1. sites[m] \in b[sites[n]]
      BY <1>7, <1>9, <1>15, SortedLists
    <2>2. Before(sites[m], sites[n]) /\ sites[m] # sites[n]
      BY <1>2, <1>6, <1>14, <2>1
    <2>. QED
      BY <1>1, <1>14, <2>2 DEF Before, SiteBefore, SameSite
  <1>16. ListedInOrder(InSiteOrder(moved), moved)
    <2>1. PICK list : list = InSiteOrder(moved)
      OBVIOUS
    <2>2. DOMAIN list = DOMAIN sites /\ \A n \in DOMAIN sites : list[n] = moved[sites[n]]
      BY <1>10, <2>1
    <2>. QED
      BY <1>11, <1>14, <1>15, <2>1, <2>2 DEF ListedInOrder
  <1>. QED
    BY <1>10, <1>12, <1>13, <1>16

MovedRelocs ==
    [d \in AllRelocs |-> MovedReloc(d, bases[d[1]][RelocsOf(d[1])[d[2]].section])]

(* A site of a valid unit has a section, and a symbol to name.             *)
LEMMA RelocSections ==
    ASSUME objects \in Seq(Objects), AllValid, NEW d \in AllRelocs
    PROVE  /\ RelocsOf(d[1])[d[2]].section \in Sections
           /\ RelocsOf(d[1])[d[2]].target \in DOMAIN SymbolsOf(d[1])
  <1>1. PICK i, j, o : i = d[1] /\ j = d[2] /\ o = objects[i]
    OBVIOUS
  <1>2. i \in DOMAIN objects /\ o \in Objects /\ Valid(o) /\ j \in DOMAIN o.relocs
    BY <1>1, RelocTypes DEF AllValid, RelocsOf
  <1>3. ValidReloc(o, j)
    BY <1>2 DEF Valid
  <1>4. DOMAIN o.symbols = 1 .. Len(o.symbols)
    BY <1>2, ObjectParts
  <1>. QED
    BY <1>1, <1>3, <1>4 DEF ValidReloc, RelocsOf, SymbolsOf

(* Sorted, every site of every unit is there, and no other.                *)
LEMMA RelocsMerged ==
    ASSUME Typed, AllValid, Len(bases) = Len(objects)
    PROVE  /\ Len(InSiteOrder(MovedRelocs)) = Cardinality(AllRelocs)
           /\ \A d \in AllRelocs : \E n \in DOMAIN InSiteOrder(MovedRelocs) :
                  InSiteOrder(MovedRelocs)[n] = MovedRelocs[d]
           /\ ListedInOrder(InSiteOrder(MovedRelocs), MovedRelocs)
  <1>. DEFINE Raw(d) == RelocsOf(d[1])[d[2]]
  <1>1. PICK moved, m, b : moved = MovedRelocs /\ m = map /\ b = bases
    OBVIOUS
  <1>2. ASSUME NEW d \in AllRelocs
        PROVE  /\ Raw(d) \in RelocRecords /\ Raw(d).section \in Sections /\ Raw(d).offset \in Nat
               /\ b[d[1]][Raw(d).section] \in Nat
               /\ moved[d].section = Raw(d).section
               /\ moved[d].offset = Raw(d).offset + b[d[1]][Raw(d).section]
    <2>1. Raw(d) \in RelocRecords /\ Raw(d).section \in Sections /\ d[1] \in DOMAIN objects
      BY RelocTypes, RelocSections DEF Typed
    <2>2. b[d[1]][Raw(d).section] \in Nat
      BY <1>1, <2>1 DEF Typed
    <2>3. moved[d] = [Raw(d) EXCEPT !.offset = @ + b[d[1]][Raw(d).section],
                                    !.target = m[<<d[1], Raw(d).target>>]]
      BY <1>1 DEF MovedRelocs, MovedReloc
    <2>. QED
      BY <2>1, <2>2, <2>3 DEF RelocRecords
  <1>3. DOMAIN moved = AllRelocs
    BY <1>1 DEF MovedRelocs
  <1>4. ASSUME NEW d \in AllRelocs, NEW e \in AllRelocs, d[1] = e[1], d # e
        PROVE  SiteBefore(Raw(d), Raw(e)) \/ SiteBefore(Raw(e), Raw(d))
    <2>1. PICK i, j, k, o : i = d[1] /\ j = d[2] /\ k = e[2] /\ o = objects[i]
      OBVIOUS
    <2>2. /\ d = <<i, j>> /\ e = <<i, k>> /\ i \in DOMAIN objects /\ o \in Objects /\ Valid(o)
          /\ j \in DOMAIN o.relocs /\ k \in DOMAIN o.relocs /\ j \in Nat /\ k \in Nat
      BY <1>4, <2>1, RelocTypes DEF AllValid, RelocsOf, Typed
    <2>3. j < k \/ k < j
      BY <1>4, <2>2
    <2>4. SiteBefore(o.relocs[j], o.relocs[k]) \/ SiteBefore(o.relocs[k], o.relocs[j])
      BY <2>2, <2>3, SitesAscend
    <2>. QED
      BY <1>4, <2>1, <2>4 DEF RelocsOf
  <1>. HIDE DEF Raw
  <1>5. ASSUME NEW d \in AllRelocs, NEW e \in AllRelocs, d[1] = e[1], SiteBefore(Raw(d), Raw(e))
        PROVE  SiteBefore(moved[d], moved[e])
    BY <1>2, <1>5 DEF SiteBefore, Sections
  <1>6. \A d \in AllRelocs : moved[d].section \in Nat /\ moved[d].offset \in Nat
    BY <1>2 DEF Sections
  <1>7. \A d, e \in AllRelocs : d[1] = e[1] /\ d # e =>
            SiteBefore(moved[d], moved[e]) \/ SiteBefore(moved[e], moved[d])
    BY <1>4, <1>5
  <1>. QED
    BY <1>1, <1>3, <1>6, <1>7, Merged DEF Typed

-----------------------------------------------------------------------------
(* The inductive invariant.  Placement: the units behind bases have passed *)
(* the first loop, and lie one behind the other.                           *)
Placement ==
    /\ DOMAIN bases \subseteq DOMAIN objects
    /\ \A i \in DOMAIN bases :
          /\ Valid(objects[i]) /\ objects[i].target = objects[1].target
          /\ \A k \in Sections : bases[i][k] + Size(objects[i], k) <= totals[k]
    /\ \A i, j \in DOMAIN bases :
          /\ objects[i].entry # 0 /\ objects[j].entry # 0 => i = j
          /\ i < j => \A k \in Sections : bases[i][k] + Size(objects[i], k) <= bases[j][k]

(* Places: how far the call is.                                            *)
Failed == pc = "discard" \/ (pc = "done" /\ error # "none")
Starting == pc \in {"start", "place", "allocate", "copy"}
Merging == pc \in {"define", "resolve", "validate"} \/ Linked
Defining == pc = "define"
Resolving == pc \in {"resolve", "validate"} \/ Linked
Relocated == pc = "validate" \/ Linked

Places ==
    /\ Failed \/ Starting \/ Merging
    /\ pc \notin {"discard", "done"} <=> error = "none" /\ ~ Linked
    /\ pc = "start" => bases = <<>> /\ unit = 1
    /\ pc = "place" => unit = Len(bases) + 1 /\ objects # <<>>
    /\ pc \in {"allocate", "copy", "discard"} \/ Merging => Len(bases) = Len(objects) /\ objects # <<>>
    /\ Starting => result = EmptyObject
    /\ Relocated => unit > Len(objects)
    /\ Linked => output = result

(* Heap: which blocks are held, whatever is to be freed later.             *)
Held(js) == Scratch \cup Tables \cup SectionBlocks(Sections) \cup Texts(js)
Heap ==
    /\ pc \in {"start", "place", "allocate"} => live = {}
    /\ pc = "copy" => live = Held({})
    /\ pc \in {"define", "resolve", "validate"} => live = Held(DOMAIN result.symbols)
    /\ pc = "discard" => live \subseteq Held(DOMAIN order)
    /\ NothingLeaks

(* Defined: the result's symbols are the definitions, moved, in the order  *)
(* of their names, which differ, and map leads to them.                    *)
DefinedSoFar ==
    Merging =>
        /\ ListsOnce(order, Definitions) /\ Ascending(order)
        /\ result.symbols \in Seq(SymbolRecords) /\ Len(result.symbols) <= Len(order)
        /\ Resolving => Len(result.symbols) = Len(order)
        /\ map \in [AllSymbols -> Nat]
        /\ \A n \in DOMAIN result.symbols : result.symbols[n] = Moved(order[n]) /\ map[order[n]] = n
        /\ \A m, n \in DOMAIN result.symbols :
              m < n => Symbol(order[m]).name < Symbol(order[n]).name

(* Resolved: the imports of the units behind are met, and map leads to     *)
(* what meets them.                                                        *)
ResolvedSoFar ==
    Resolving =>
        \A i \in DOMAIN objects : i < unit =>
            \A j \in ImportsOf(i) :
                /\ Exported(SymbolsOf(i)[j]) /\ Matches(SymbolsOf(i)[j])
                /\ map[<<i, j>>] = Find(SymbolsOf(i)[j].name)

(* What else the result is made of.                                        *)
EntrySoFar ==
    /\ Defining => result.entry = 0
    /\ Resolving =>
        /\ (\A i \in DOMAIN objects : i < unit => objects[i].entry = 0) => result.entry = 0
        /\ \A i \in DOMAIN objects : i < unit /\ objects[i].entry # 0 =>
              result.entry = map[<<i, objects[i].entry>>]
Contents ==
    /\ Merging => \A k \in Sections : result.sections[k] = [x \in 1 .. totals[k] |-> ByteAt(k, x)]
    /\ Relocated => result.relocs = InSiteOrder(MovedRelocs)

(* Limits: what the first loop counts, for the units placed.               *)
Limits ==
    /\ \A k \in Sections : totals[k] <= LINK_BYTES
    /\ bases # <<>> =>
          /\ Cardinality({d \in AllSymbols : d[1] <= Len(bases)}) <= MAX_SYMBOLS
          /\ Cardinality({d \in AllRelocs : d[1] <= Len(bases)}) <= MAX_RELOCS
    /\ Merging => result.target = objects[1].target

(* Refusals: why the units cannot be linked, or are not.                   *)
Mismatches ==
    {"duplicate symbol definition", "unresolved import or definition not exported",
     "import kind or canonical contract mismatch"}
Excuses ==
    {"link allocation failed", "linked payload limit", "invalid link unit count",
     "link output must be empty"}

Refusals ==
    /\ error \in {"none", "unit"} \cup Mismatches \cup Excuses
    /\ error \in Mismatches => ~ Linkable(objects)
    /\ error = "unit" => ~ Linkable(objects) \/ OverLimit
    /\ error \in Excuses => Excused

IInv ==
    /\ Typed /\ Placement /\ Places /\ Heap /\ DefinedSoFar /\ ResolvedSoFar
    /\ EntrySoFar /\ Contents /\ Limits /\ Refusals

-----------------------------------------------------------------------------

(* No step touches the arguments.                                          *)
LEMMA ObjectsKept ==
    ASSUME [Next]_vars PROVE objects' = objects
  BY DEF Next, vars, Start, Place, Placed, Allocate, Copy, Define, Defined, Resolve, Mapped,
     Relocate, Finish, Discard

(* What is defined from the arguments alone stays as it is.                *)
LEMMA Same ==
    ASSUME objects' = objects
    PROVE  /\ AllSymbols' = AllSymbols /\ AllRelocs' = AllRelocs /\ Definitions' = Definitions
           /\ \A d : Symbol(d)' = Symbol(d)
           /\ \A i : SymbolsOf(i)' = SymbolsOf(i) /\ RelocsOf(i)' = RelocsOf(i)
           /\ \A i : ImportsOf(i)' = ImportsOf(i)
           /\ \A d, e : DefinedBefore(d, e)' = DefinedBefore(d, e)
  <1>1. \A i : SymbolsOf(i)' = SymbolsOf(i) /\ RelocsOf(i)' = RelocsOf(i)
    BY DEF SymbolsOf, RelocsOf
  <1>2. \A d : Symbol(d)' = Symbol(d)
    BY <1>1 DEF Symbol
  <1>3. AllSymbols' = AllSymbols /\ AllRelocs' = AllRelocs
    BY <1>1 DEF AllSymbols, AllRelocs
  <1>4. Definitions' = Definitions
    BY <1>2, <1>3 DEF Definitions
  <1>5. \A i : ImportsOf(i)' = ImportsOf(i)
    BY <1>1 DEF ImportsOf
  <1>6. \A d, e : DefinedBefore(d, e)' = DefinedBefore(d, e)
    BY <1>2 DEF DefinedBefore
  <1>. QED
    BY <1>1, <1>2, <1>3, <1>4, <1>5, <1>6

(* The types of a unit's parts.                                            *)
LEMMA UnitTypes ==
    ASSUME objects \in Seq(Objects), NEW i \in DOMAIN objects
    PROVE  /\ objects[i] \in Objects /\ i \in Nat \ {0} /\ i <= Len(objects)
           /\ \A k \in Sections : Size(objects[i], k) \in Nat
           /\ objects[i].entry \in Nat /\ objects[i].target \in Nat
  BY ObjectParts

(* Every step keeps the types of the arguments, places and the result.     *)
LEMMA TypedStep ==
    ASSUME Typed, [Next]_vars PROVE Typed'
  <1>0. Shaped(result)'
    <2>1. Shaped(result) /\ Shaped(EmptyObject)
      BY DEF Typed, Shaped, EmptyObject
    <2>2. CASE Copy
      BY <2>1, <2>2 DEF Copy, Shaped
    <2>3. CASE Define
      BY <2>1, <2>3 DEF Define, Shaped
    <2>4. CASE Resolve
      BY <2>1, <2>4 DEF Resolve, Mapped, Shaped
    <2>5. CASE Relocate
      BY <2>1, <2>5 DEF Relocate, Shaped
    <2>6. CASE result' = result \/ result' = EmptyObject
      BY <2>1, <2>6
    <2>. QED
      BY <2>2, <2>3, <2>4, <2>5, <2>6 DEF Next, vars, Start, Place, Placed, Allocate, Defined,
         Finish, Discard
  <1>1. objects' = objects
    BY ObjectsKept
  <1>2. CASE Place /\ Admissible(unit)
    <2>1. unit \in DOMAIN objects
      BY <1>2 DEF Place, Typed
    <2>2. \A k \in Sections : Aligned(totals[k]) \in Nat /\ Size(objects[unit], k) \in Nat
      BY <2>1, AlignedUp, UnitTypes DEF Typed
    <2>3. /\ totals' = [k \in Sections |-> Aligned(totals[k]) + Size(objects[unit], k)]
          /\ bases' = Append(bases, [k \in Sections |-> Aligned(totals[k])])
          /\ unit' = unit + 1
      BY <1>2 DEF Place
    <2>4. totals' \in [Sections -> Nat]
      BY <2>2, <2>3
    <2>5. [k \in Sections |-> Aligned(totals[k])] \in [Sections -> Nat]
      BY <2>2
    <2>6. bases' \in Seq([Sections -> Nat])
      BY <2>3, <2>5 DEF Typed
    <2>. QED
      BY <1>0, <1>1, <2>3, <2>4, <2>6 DEF Typed
  <1>3. CASE ~ (Place /\ Admissible(unit))
    <2>1. bases' = bases /\ totals' = totals
      BY <1>3 DEF Next, vars, Start, Place, Placed, Allocate, Copy, Define, Defined, Resolve,
         Mapped, Relocate, Finish, Discard
    <2>2. unit' = unit \/ unit' = 1 \/ unit' = unit + 1
      BY <1>3 DEF Next, vars, Start, Place, Placed, Allocate, Copy, Define, Defined, Resolve,
         Mapped, Relocate, Finish, Discard
    <2>. QED
      BY <1>0, <1>1, <2>1, <2>2 DEF Typed
  <1>. QED
    BY <1>2, <1>3

(* Two elements of a set of at most one are the same.                      *)
LEMMA AtMostOne ==
    ASSUME NEW S, IsFiniteSet(S), Cardinality(S) <= 1, NEW x \in S, NEW y \in S
    PROVE  x = y
  <1>1. IsFiniteSet(S \ {x}) /\ Cardinality(S \ {x}) = Cardinality(S) - 1
    BY FS_RemoveElement
  <1>2. Cardinality(S) \in Nat /\ Cardinality(S \ {x}) \in Nat
    BY <1>1, FS_CardinalityType
  <1>3. Cardinality(S \ {x}) = 0
    BY <1>1, <1>2
  <1>4. S \ {x} = {}
    BY <1>1, <1>3, FS_EmptySet
  <1>. QED
    BY <1>4

(* Place: the next unit is checked and placed behind the others.           *)
LEMMA PlaceParts ==
    ASSUME Typed, Places, Place, Admissible(unit)
    PROVE  /\ unit \in DOMAIN objects /\ unit = Len(bases) + 1
           /\ DOMAIN bases = 1 .. Len(bases) /\ DOMAIN bases' = 1 .. unit
           /\ objects' = objects
           /\ \A i \in DOMAIN bases : bases'[i] = bases[i]
           /\ \A k \in Sections : bases'[unit][k] = Aligned(totals[k])
           /\ \A k \in Sections : totals'[k] = Aligned(totals[k]) + Size(objects[unit], k)
  <1>1. /\ unit <= Len(objects) /\ pc = "place"
        /\ bases' = Append(bases, [k \in Sections |-> Aligned(totals[k])])
        /\ totals' = [k \in Sections |-> Aligned(totals[k]) + Size(objects[unit], k)]
        /\ objects' = objects
    BY DEF Place
  <1>2. unit = Len(bases) + 1
    BY <1>1 DEF Places
  <1>. QED
    BY <1>1, <1>2 DEF Typed

(* Of the units placed so far at most one has an entry.                    *)
LEMMA OneEntry ==
    ASSUME Typed, Places, Placement, Place, Admissible(unit),
           NEW i \in 1 .. unit, NEW j \in 1 .. unit,
           objects[i].entry # 0, objects[j].entry # 0
    PROVE  i = j
  <1>1. PICK u, S : u = unit /\ S = {n \in 1 .. unit : objects[n].entry # 0}
    OBVIOUS
  <1>2. u \in Int /\ S \in SUBSET (1 .. u) /\ i \in S /\ j \in S
    BY <1>1 DEF Typed
  <1>3. IsFiniteSet(1 .. u)
    BY <1>2, FS_Interval
  <1>4. IsFiniteSet(S) /\ Cardinality(S) <= 1
    BY <1>1, <1>2, <1>3, FS_Subset DEF Admissible
  <1>. QED
    BY <1>2, <1>4, AtMostOne

(* Every step keeps the units placed so far admissible.                    *)
LEMMA PlacementStep ==
    ASSUME Typed, Places, Placement, [Next]_vars PROVE Placement'
  <1>1. objects' = objects
    BY ObjectsKept
  <1>2. CASE Place /\ Admissible(unit)
    <2>1. /\ unit \in DOMAIN objects /\ unit = Len(bases) + 1 /\ unit \in Nat
          /\ DOMAIN bases = 1 .. Len(bases) /\ DOMAIN bases' = 1 .. unit
          /\ \A i \in DOMAIN bases : bases'[i] = bases[i]
          /\ \A k \in Sections : bases'[unit][k] = Aligned(totals[k])
          /\ \A k \in Sections : totals'[k] = Aligned(totals[k]) + Size(objects[unit], k)
      BY <1>2, PlaceParts DEF Typed
    <2>2. DOMAIN bases' \subseteq DOMAIN objects
      BY <2>1 DEF Typed
    <2>3. \A i \in DOMAIN bases', k \in Sections :
              Size(objects[i], k) \in Nat /\ totals[k] \in Nat /\ Aligned(totals[k]) \in Nat
              /\ Aligned(totals[k]) >= totals[k]
      BY <2>2, UnitTypes, AlignedUp DEF Typed
    <2>4. \A i \in DOMAIN bases, k \in Sections : bases[i][k] \in Nat
      BY DEF Typed
    <2>5. ASSUME NEW i \in DOMAIN bases', NEW k \in Sections
          PROVE  bases'[i][k] + Size(objects[i], k) <= totals'[k]
      <3>1. CASE i = unit
        BY <2>1, <2>3, <3>1
      <3>2. CASE i # unit
        <4>1. i \in DOMAIN bases /\ bases'[i] = bases[i]
          BY <2>1, <3>2
        <4>2. bases[i][k] + Size(objects[i], k) <= totals[k]
          BY <4>1 DEF Placement
        <4>3. Size(objects[unit], k) \in Nat
          BY <2>1, <2>3
        <4>. QED
          BY <2>1, <2>3, <2>4, <4>1, <4>2, <4>3
      <3>. QED
        BY <3>1, <3>2
    <2>6. ASSUME NEW i \in DOMAIN bases', NEW j \in DOMAIN bases', i < j, NEW k \in Sections
          PROVE  bases'[i][k] + Size(objects[i], k) <= bases'[j][k]
      <3>1. i \in DOMAIN bases /\ bases'[i] = bases[i] /\ i # unit
        BY <2>1, <2>6
      <3>2. CASE j = unit
        <4>1. bases[i][k] + Size(objects[i], k) <= totals[k]
          BY <3>1 DEF Placement
        <4>. QED
          BY <2>1, <2>3, <2>4, <3>1, <3>2, <4>1
      <3>3. CASE j # unit
        <4>1. j \in DOMAIN bases /\ bases'[j] = bases[j]
          BY <2>1, <3>3
        <4>. QED
          BY <2>6, <3>1, <4>1 DEF Placement
      <3>. QED
        BY <3>2, <3>3
    <2>7. ASSUME NEW i \in DOMAIN bases', NEW j \in DOMAIN bases',
                 objects[i].entry # 0, objects[j].entry # 0
          PROVE  i = j
      BY <1>2, <2>1, <2>7, OneEntry
    <2>8. ASSUME NEW i \in DOMAIN bases'
          PROVE  Valid(objects[i]) /\ objects[i].target = objects[1].target
      <3>1. CASE i = unit
        BY <1>2, <3>1 DEF Admissible
      <3>2. CASE i # unit
        BY <2>1, <3>2 DEF Placement
      <3>. QED
        BY <3>1, <3>2
    <2>. QED
      BY <1>1, <2>2, <2>5, <2>6, <2>7, <2>8 DEF Placement
  <1>3. CASE ~ (Place /\ Admissible(unit))
    <2>1. bases' = bases /\ totals' = totals
      BY <1>3 DEF Next, vars, Start, Place, Placed, Allocate, Copy, Define, Defined, Resolve,
         Mapped, Relocate, Finish, Discard
    <2>. QED
      BY <1>1, <2>1 DEF Placement
  <1>. QED
    BY <1>2, <1>3

(* Every step keeps the places apart and inside the totals.                *)
LEMMA PlacesStep ==
    ASSUME Typed, Placement, Places, [Next]_vars PROVE Places'
  <1>. USE DEF Places, Failed, Starting, Merging, Relocated, Linked
  <1>1. CASE Start
    <2>1. pc = "start" /\ bases = <<>> /\ unit = 1 /\ UNCHANGED <<objects, output, unit, bases, result>>
      BY <1>1 DEF Start
    <2>2. Len(bases) = 0
      BY <2>1
    <2>3. CASE pc' = "place" /\ error' = error /\ objects # <<>>
      BY <2>1, <2>2, <2>3
    <2>4. CASE pc' = "done" /\ error' # "none"
      BY <2>1, <2>4
    <2>. QED
      BY <1>1, <2>3, <2>4 DEF Start, Fail
  <1>2. CASE Place
    <2>1. CASE Admissible(unit)
      <3>1. /\ pc = "place" /\ pc' = pc /\ error' = error /\ unit' = unit + 1
            /\ bases' = Append(bases, [k \in Sections |-> Aligned(totals[k])])
            /\ UNCHANGED <<objects, output, result>>
        BY <1>2, <2>1 DEF Place
      <3>2. Len(bases') = Len(bases) + 1 /\ unit = Len(bases) + 1 /\ unit \in Nat
        BY <3>1 DEF Typed
      <3>. QED
        BY <3>1, <3>2
    <2>2. CASE ~ Admissible(unit)
      BY <1>2, <2>2 DEF Place, Fail
    <2>. QED
      BY <2>1, <2>2
  <1>3. CASE Placed
    <2>1. pc = "place" /\ unit > Len(objects) /\ UNCHANGED <<objects, output, unit, bases, result>>
      BY <1>3 DEF Placed
    <2>2. Len(bases) <= Len(objects)
      BY DEF Placement, Typed
    <2>3. Len(bases) = Len(objects)
      BY <2>1, <2>2 DEF Typed
    <2>. QED
      BY <1>3, <2>1, <2>3 DEF Placed, Fail
  <1>4. CASE Allocate
    BY <1>4 DEF Allocate, Fail
  <1>5. CASE Copy
    BY <1>5 DEF Copy
  <1>6. CASE Define
    BY <1>6 DEF Define, Fail
  <1>7. CASE Defined
    BY <1>7 DEF Defined
  <1>8. CASE Resolve
    BY <1>8 DEF Resolve, Fail, Mapped
  <1>9. CASE Relocate
    BY <1>9 DEF Relocate
  <1>10. CASE Finish
    BY <1>10 DEF Finish, Fail
  <1>11. CASE Discard
    BY <1>11 DEF Discard
  <1>12. CASE UNCHANGED vars
    BY <1>12 DEF vars
  <1>. QED
    BY <1>1, <1>2, <1>3, <1>4, <1>5, <1>6, <1>7, <1>8, <1>9, <1>10, <1>11, <1>12 DEF Next

-----------------------------------------------------------------------------
(* Heap blocks.                                                            *)

(* One symbol more, two texts more.                                        *)
LEMMA HeldMore ==
    ASSUME NEW n
    PROVE  \A js : Held(js \cup {n}) = Held(js) \cup Texts({n})
  BY DEF Held, Texts

(* No symbols, no texts.                                                   *)
LEMMA HeldNone == Texts({}) = {}
  BY DEF Texts

(* Allocation goes through the blocks in the order of the code.            *)
LEMMA HeldSome ==
    ASSUME NEW m \in Sections
    PROVE  \A js : /\ Scratch \cup Tables \cup SectionBlocks(1 .. m - 1) \subseteq Held(js)
                   /\ Scratch \cup Tables \subseteq Held(js)
  BY DEF Held, SectionBlocks, Sections

(* Without the scratch arrays what is held is the output's.                *)
LEMMA ScratchApart ==
    \A js : Held(js) \ Scratch = Tables \cup SectionBlocks(Sections) \cup Texts(js)
  <1>1. \A js, x : x \in Texts(js) => x \notin Scratch
    BY DEF Texts, Scratch
  <1>2. \A x \in SectionBlocks(Sections) : x \notin Scratch
    BY DEF SectionBlocks, Scratch
  <1>3. \A x \in Tables : x \notin Scratch
    BY DEF Tables, Scratch
  <1>. QED
    BY <1>1, <1>2, <1>3 DEF Held

(* The lengths of the sorted definitions and of the symbols made of them.  *)
LEMMA Lengths ==
    ASSUME DefinedSoFar, Merging
    PROVE  /\ order \in Seq(Definitions) /\ DOMAIN order = 1 .. Len(order) /\ Len(order) \in Nat
           /\ result.symbols \in Seq(SymbolRecords) /\ Len(result.symbols) \in Nat
           /\ DOMAIN result.symbols = 1 .. Len(result.symbols)
           /\ Len(result.symbols) <= Len(order) /\ DOMAIN result.symbols \subseteq DOMAIN order
  <1>1. order \in Seq(Definitions) /\ result.symbols \in Seq(SymbolRecords)
        /\ Len(result.symbols) <= Len(order)
    BY DEF DefinedSoFar, ListsOnce
  <1>. QED
    BY <1>1

(* Every step keeps the books of the heap.                                 *)
LEMMA HeapStep ==
    ASSUME Typed, Places, DefinedSoFar, Heap, [Next]_vars PROVE Heap'
  <1>. USE DEF Linked
  <1>1. CASE Start
    BY <1>1 DEF Start, Fail, Heap, NothingLeaks
  <1>2. CASE Place
    BY <1>2 DEF Place, Fail, Heap, NothingLeaks
  <1>3. CASE Placed
    BY <1>3 DEF Placed, Fail, Heap, NothingLeaks
  <1>4. CASE Allocate
    <2>1. pc = "allocate" /\ UNCHANGED <<totals, order>>
      BY <1>4 DEF Allocate
    <2>2. CASE Fail("link allocation failed", "discard") /\ live' \subseteq Held(DOMAIN order)
      <3>1. live' \subseteq Held(DOMAIN order)'
        BY <2>1, <2>2 DEF Held, SectionBlocks, Texts
      <3>. QED
        BY <2>2, <3>1 DEF Fail, Heap, NothingLeaks
    <2>3. CASE live' = Held({}) /\ pc' = "copy"
      <3>1. live' = Held({})'
        BY <2>1, <2>3 DEF Held, SectionBlocks, Texts
      <3>. QED
        BY <2>3, <3>1 DEF Heap, NothingLeaks
    <2>4. \A got \in SUBSET Scratch : got \subseteq Held(DOMAIN order)
      BY DEF Held
    <2>5. \A got \in SUBSET Tables : Scratch \cup got \subseteq Held(DOMAIN order)
      BY DEF Held
    <2>6. \A m \in Sections : Scratch \cup Tables \cup SectionBlocks(1 .. m - 1) \subseteq Held(DOMAIN order)
      BY HeldSome
    <2>7. Scratch \cup Tables \cup SectionBlocks(Sections) = Held({})
      BY HeldNone DEF Held
    <2>. QED
      BY <1>4, <2>2, <2>3, <2>4, <2>5, <2>6, <2>7 DEF Allocate
  <1>5. CASE Copy
    <2>1. /\ pc = "copy" /\ pc' = "define" /\ live' = live /\ totals' = totals
          /\ result'.symbols = result.symbols /\ result.symbols = <<>>
      BY <1>5 DEF Copy, Places, Starting, EmptyObject, Typed, Shaped
    <2>2. DOMAIN result'.symbols = {}
      BY <2>1
    <2>3. live' = Held({})
      BY <2>1 DEF Heap
    <2>4. live' = Held(DOMAIN result.symbols)'
      BY <2>1, <2>2, <2>3 DEF Held, SectionBlocks, Texts
    <2>. QED
      BY <2>1, <2>4 DEF Heap, NothingLeaks
  <1>6. CASE Define
    <2>. DEFINE n == Len(result.symbols) + 1
    <2>1. /\ pc = "define" /\ live = Held(DOMAIN result.symbols) /\ UNCHANGED <<totals, order>>
          /\ DOMAIN result.symbols = 1 .. Len(result.symbols) /\ Len(result.symbols) \in Nat
          /\ result.symbols \in Seq(SymbolRecords) /\ n <= Len(order)
          /\ DOMAIN order = 1 .. Len(order) /\ Len(order) \in Nat
      BY <1>6, Lengths DEF Define, Heap, Merging
    <2>2. DOMAIN result.symbols \cup {n} \subseteq DOMAIN order
      BY <2>1
    <2>3. Held(DOMAIN result.symbols \cup {n}) = live \cup Texts({n})
      BY <2>1, HeldMore
    <2>4. live \cup Texts({n}) \subseteq Held(DOMAIN order)
      BY <2>2, <2>3 DEF Held, Texts
    <2>5. CASE live' \subseteq live \cup Texts({n}) /\ pc' = "discard"
      <3>1. live' \subseteq Held(DOMAIN order)'
        BY <2>1, <2>4, <2>5 DEF Held, SectionBlocks, Texts
      <3>. QED
        BY <2>5, <3>1 DEF Heap, NothingLeaks
    <2>6. CASE /\ live' = live \cup Texts({n}) /\ UNCHANGED pc
               /\ result' = [result EXCEPT !.symbols = Append(@, Moved(order[n]))]
      <3>1. result'.symbols = Append(result.symbols, Moved(order[n]))
        BY <2>6 DEF Typed, Shaped
      <3>2. DOMAIN result'.symbols = DOMAIN result.symbols \cup {n}
        BY <2>1, <3>1
      <3>3. live' = Held(DOMAIN result.symbols)'
        BY <2>1, <2>3, <2>6, <3>2 DEF Held, SectionBlocks, Texts
      <3>. QED
        BY <2>1, <2>6, <3>3 DEF Heap, NothingLeaks
    <2>. QED
      BY <1>6, <2>5, <2>6 DEF Define, Fail

  <1>7. CASE Defined
    BY <1>7 DEF Defined, Heap, NothingLeaks, Held, SectionBlocks
  <1>8. CASE Resolve
    <2>1. /\ pc = "resolve" /\ UNCHANGED <<totals, order, live>> /\ live = Held(DOMAIN result.symbols)
          /\ DOMAIN result.symbols \subseteq DOMAIN order
      BY <1>8, Lengths DEF Resolve, Heap, Merging
    <2>2. result'.symbols = result.symbols
      BY <1>8 DEF Resolve, Mapped, Typed, Shaped
    <2>3. live' = Held(DOMAIN result.symbols)' /\ live' \subseteq Held(DOMAIN order)'
      BY <2>1, <2>2 DEF Held, SectionBlocks, Texts
    <2>. QED
      BY <1>8, <2>1, <2>3 DEF Resolve, Fail, Heap, NothingLeaks
  <1>9. CASE Relocate
    <2>1. /\ pc = "resolve" /\ UNCHANGED <<totals, order, live>> /\ live = Held(DOMAIN result.symbols)
      BY <1>9 DEF Relocate, Heap
    <2>2. result'.symbols = result.symbols
      BY <1>9 DEF Relocate, Typed, Shaped
    <2>3. live' = Held(DOMAIN result.symbols)'
      BY <2>1, <2>2 DEF Held, SectionBlocks, Texts
    <2>. QED
      BY <1>9, <2>1, <2>3 DEF Relocate, Heap, NothingLeaks
  <1>10. CASE Finish
    <2>1. /\ pc = "validate" /\ UNCHANGED <<totals, order, result>> /\ live = Held(DOMAIN result.symbols)
          /\ DOMAIN result.symbols \subseteq DOMAIN order /\ error = "none"
      BY <1>10, Lengths DEF Finish, Heap, Merging, Places
    <2>2. CASE Fail("result", "discard") /\ UNCHANGED live
      <3>1. live' \subseteq Held(DOMAIN order)'
        BY <2>1, <2>2 DEF Held, SectionBlocks, Texts
      <3>. QED
        BY <2>2, <3>1 DEF Fail, Heap, NothingLeaks
    <2>3. CASE live' = live \ Scratch /\ output' = result /\ pc' = "done" /\ UNCHANGED error
      <3>1. live' = Tables \cup SectionBlocks(Sections) \cup Texts(DOMAIN result.symbols)
        BY <2>1, <2>3, ScratchApart
      <3>2. live' = (Tables \cup SectionBlocks(Sections) \cup Texts(DOMAIN output.symbols))'
        BY <2>1, <2>3, <3>1 DEF SectionBlocks, Texts
      <3>. QED
        BY <2>1, <2>3, <3>2 DEF Heap, NothingLeaks
    <2>. QED
      BY <1>10, <2>2, <2>3 DEF Finish
  <1>11. CASE Discard
    <2>1. live \subseteq Held(DOMAIN order) /\ error # "none" /\ error' = error /\ pc' = "done"
      BY <1>11 DEF Discard, Heap, Places
    <2>2. live' = {}
      BY <1>11, <2>1 DEF Discard, Held
    <2>. QED
      BY <2>1, <2>2 DEF Heap, NothingLeaks
  <1>12. CASE UNCHANGED vars
    BY <1>12 DEF vars, Heap, NothingLeaks, Held, SectionBlocks, Texts
  <1>. QED
    BY <1>1, <1>2, <1>3, <1>4, <1>5, <1>6, <1>7, <1>8, <1>9, <1>10, <1>11, <1>12 DEF Next

-----------------------------------------------------------------------------
(* Definitions become symbols of the result.                               *)

(* Once all units are placed all of them are valid.                        *)
LEMMA Complete ==
    ASSUME Typed, Placement, Len(bases) = Len(objects)
    PROVE  AllValid /\ DOMAIN bases = DOMAIN objects
  <1>1. DOMAIN bases = 1 .. Len(bases) /\ DOMAIN objects = 1 .. Len(objects)
    BY DEF Typed
  <1>2. DOMAIN bases = DOMAIN objects
    BY <1>1
  <1>. QED
    BY <1>2 DEF Placement, AllValid

(* A definition moves with its section and stays what it is otherwise.     *)
LEMMA MovedParts ==
    ASSUME Typed, Placement, Len(bases) = Len(objects), NEW d \in Definitions
    PROVE  /\ Moved(d) \in SymbolRecords /\ Moved(d).name = Symbol(d).name
           /\ Moved(d).contract = Symbol(d).contract /\ Moved(d).kind = Symbol(d).kind
           /\ Moved(d).export = Symbol(d).export /\ Moved(d).import = FALSE
           /\ Moved(d).section = Symbol(d).section /\ Moved(d).size = Symbol(d).size
           /\ Symbol(d).section \in Sections
           /\ Moved(d).offset = Symbol(d).offset + bases[d[1]][Symbol(d).section]
  <1>1. PICK i, j, o, s : i = d[1] /\ j = d[2] /\ o = objects[i] /\ s = Symbol(d)
    OBVIOUS
  <1>2. /\ d \in AllSymbols /\ i \in DOMAIN objects /\ o \in Objects /\ Valid(o)
        /\ j \in DOMAIN o.symbols /\ s = o.symbols[j] /\ ~ s.import /\ s \in SymbolRecords
    BY <1>1, SymbolTypes, Complete DEF AllValid, SymbolsOf, Symbol, Typed, Definitions
  <1>3. ValidSymbol(o, j)
    BY <1>2 DEF Valid
  <1>4. s.section \in Sections
    BY <1>2, <1>3 DEF ValidSymbol
  <1>5. bases[i][s.section] \in Nat
    BY <1>2, <1>4, Complete DEF Typed
  <1>6. Moved(d) = [s EXCEPT !.offset = @ + bases[i][s.section]]
    BY <1>1 DEF Moved
  <1>7. PICK n : n = s.offset + bases[i][s.section]
    OBVIOUS
  <1>8. n \in Nat
    BY <1>2, <1>5, <1>7 DEF SymbolRecords
  <1>9. PICK r : r = [s EXCEPT !.offset = n]
    OBVIOUS
  <1>10. r \in SymbolRecords /\ r.offset = n
    BY <1>2, <1>8, <1>9 DEF SymbolRecords
  <1>11. /\ r.name = s.name /\ r.contract = s.contract /\ r.kind = s.kind
         /\ r.export = s.export /\ r.section = s.section /\ r.size = s.size
         /\ r.import = FALSE
    BY <1>2, <1>9 DEF SymbolRecords
  <1>12. Moved(d) = r
    BY <1>6, <1>7, <1>9
  <1>. QED
    BY <1>1, <1>4, <1>7, <1>10, <1>11, <1>12

(* The definitions collected and sorted, none of them made a symbol.       *)
LEMMA CopyDefines ==
    ASSUME Typed, Placement, Places, Copy PROVE DefinedSoFar'
  <1>1. /\ pc = "copy" /\ pc' = "define" /\ objects' = objects /\ error' = "none"
        /\ order' = Sorted([d \in Definitions |-> {e \in Definitions : DefinedBefore(e, d)}])
        /\ map' = [d \in AllSymbols |-> 0]
    BY DEF Copy, Places
  <1>2. AllValid
    BY <1>1, Complete DEF Places
  <1>3. ListsOnce(order', Definitions)
        /\ \A m, n \in DOMAIN order' : m < n => DefinedBefore(order'[m], order'[n])
    BY <1>1, <1>2, DefinitionsSorted DEF Typed, Ascending
  <1>4. result'.symbols = <<>>
    BY <1>1 DEF Copy, Places, Starting, EmptyObject, Typed, Shaped
  <1>5. ListsOnce(order, Definitions)'
    BY <1>1, <1>3, Same DEF ListsOnce
  <1>6. Ascending(order)'
    <2>1. objects' = objects
      BY <1>1
    <2>2. ASSUME NEW m \in DOMAIN order', NEW n \in DOMAIN order', m < n
          PROVE  DefinedBefore(order[m], order[n])'
      <3>1. DefinedBefore(order'[m], order'[n])
        BY <1>3, <2>2
      <3>. QED
        BY <2>1, <3>1 DEF DefinedBefore, Symbol, SymbolsOf
    <2>. QED
      BY <2>2 DEF Ascending
  <1>7. order' \in Seq(Definitions)
    BY <1>3 DEF ListsOnce
  <1>8. /\ result'.symbols \in Seq(SymbolRecords) /\ Len(result'.symbols) = 0
        /\ DOMAIN result'.symbols = {} /\ Len(order') \in Nat
    BY <1>4, <1>7
  <1>9. map' \in [AllSymbols' -> Nat]
    BY <1>1, Same
  <1>10. ~ Resolving'
    BY <1>1 DEF Resolving, Linked
  <1>. QED
    BY <1>5, <1>6, <1>8, <1>9, <1>10 DEF DefinedSoFar

(* While arguments, places and order stay so does what is said of them.    *)
LEMMA OrderSame ==
    ASSUME objects' = objects, bases' = bases, order' = order
    PROVE  /\ ListsOnce(order, Definitions)' <=> ListsOnce(order, Definitions)
           /\ Ascending(order)' <=> Ascending(order)
           /\ \A d : Moved(d)' = Moved(d)
           /\ \A n : Moved(order[n])' = Moved(order[n]) /\ Symbol(order[n])' = Symbol(order[n])
  <1>1. \A d : Moved(d)' = Moved(d)
    BY Same DEF Moved
  <1>2. ListsOnce(order, Definitions)' <=> ListsOnce(order, Definitions)
    BY Same DEF ListsOnce
  <1>3. Ascending(order)' <=> Ascending(order)
    BY DEF Ascending, DefinedBefore, Symbol, SymbolsOf
  <1>4. \A n : Symbol(order[n])' = Symbol(order[n])
    BY DEF Symbol, SymbolsOf
  <1>5. \A n : Moved(order[n])' = Moved(order[n])
    BY <1>4 DEF Moved
  <1>. QED
    BY <1>1, <1>2, <1>3, <1>4, <1>5

(* One definition becomes a symbol, or none does.                          *)
LEMMA DefineDefines ==
    ASSUME Typed, Placement, Places, DefinedSoFar, Define PROVE DefinedSoFar'
  <1>. DEFINE n == Len(result.symbols) + 1
  <1>1. /\ pc = "define" /\ objects' = objects /\ bases' = bases /\ order' = order
        /\ Merging /\ error = "none"
    BY DEF Define, Merging, Places
  <1>2. CASE pc' = "discard"
    <2>1. ~ Merging'
      BY <1>2 DEF Merging, Linked
    <2>. QED
      BY <2>1 DEF DefinedSoFar
  <1>3. CASE /\ result' = [result EXCEPT !.symbols = Append(@, Moved(order[n]))]
             /\ map' = [map EXCEPT ![order[n]] = n]
             /\ UNCHANGED pc
             /\ n <= Len(order)
             /\ ~ (n > 1 /\ Symbol(order[n - 1]).name = Symbol(order[n]).name)
    <2>1. /\ DOMAIN order = 1 .. Len(order) /\ Len(order) \in Nat
          /\ result.symbols \in Seq(SymbolRecords) /\ Len(result.symbols) \in Nat
          /\ DOMAIN result.symbols = 1 .. Len(result.symbols)
      BY <1>1, Lengths
    <2>2. /\ ListsOnce(order, Definitions) /\ Ascending(order) /\ map \in [AllSymbols -> Nat]
          /\ \A k \in DOMAIN result.symbols : result.symbols[k] = Moved(order[k]) /\ map[order[k]] = k
          /\ \A m, k \in DOMAIN result.symbols : m < k => Symbol(order[m]).name < Symbol(order[k]).name
      BY <1>1 DEF DefinedSoFar
    <2>3. PICK list, d, syms : list = order /\ d = order[n] /\ syms = Append(result.symbols, Moved(d))
      OBVIOUS
    <2>4. /\ \A k \in DOMAIN order : order[k] \in Definitions /\ order[k] \in AllSymbols
          /\ \A m, k \in DOMAIN order : order[m] = order[k] => m = k
      BY <2>2 DEF ListsOnce, Definitions
    <2>5. n \in DOMAIN order /\ n \in Nat /\ d \in Definitions /\ d \in AllSymbols
      BY <1>3, <2>1, <2>3, <2>4
    <2>6. Moved(d) \in SymbolRecords
      BY <1>1, <2>5, MovedParts DEF Places
    <2>7. result'.symbols = syms
      BY <1>3, <2>3 DEF Typed, Shaped
    <2>8. /\ syms \in Seq(SymbolRecords) /\ Len(syms) = n /\ DOMAIN syms = 1 .. n
          /\ syms[n] = Moved(d) /\ \A k \in DOMAIN result.symbols : syms[k] = result.symbols[k]
      BY <2>1, <2>3, <2>6
    <2>9. map' \in [AllSymbols -> Nat]
      BY <1>3, <2>2, <2>5
    <2>10. ASSUME NEW k \in DOMAIN syms
           PROVE  syms[k] = Moved(order[k]) /\ map'[order[k]] = k
      <3>1. CASE k = n
        BY <1>3, <2>2, <2>3, <2>5, <2>8, <3>1
      <3>2. CASE k # n
        <4>1. k \in DOMAIN result.symbols /\ k \in DOMAIN order
          BY <2>1, <2>5, <2>8, <3>2
        <4>2. order[k] # order[n] /\ order[k] \in AllSymbols
          BY <2>4, <2>5, <3>2, <4>1
        <4>3. map'[order[k]] = map[order[k]]
          BY <1>3, <2>2, <4>2
        <4>. QED
          BY <2>2, <2>8, <4>1, <4>3
      <3>. QED
        BY <3>1, <3>2
    <2>11. ASSUME NEW m \in DOMAIN syms, NEW k \in DOMAIN syms, m < k
           PROVE  Symbol(order[m]).name < Symbol(order[k]).name
      <3>1. m \in DOMAIN order /\ k \in DOMAIN order /\ m \in DOMAIN result.symbols
        BY <2>1, <2>5, <2>8, <2>11
      <3>2. CASE k # n
        <4>1. k \in DOMAIN result.symbols
          BY <2>1, <2>8, <3>2
        <4>. QED
          BY <2>2, <2>11, <3>1, <4>1
      <3>3. CASE k = n
        <4>1. n - 1 \in DOMAIN order /\ n > 1 /\ n - 1 \in DOMAIN result.symbols
          BY <2>1, <2>5, <3>1
        <4>2. /\ Symbol(order[m]).name \in Nat /\ Symbol(order[n]).name \in Nat
              /\ Symbol(order[n - 1]).name \in Nat
          BY <2>4, <2>5, <3>1, <4>1, SymbolTypes DEF Typed, SymbolRecords
        <4>3. Symbol(order[n - 1]).name < Symbol(order[n]).name
          <5>1. DefinedBefore(order[n - 1], order[n])
            BY <2>1, <2>2, <2>5, <4>1 DEF Ascending
          <5>. QED
            BY <1>3, <4>1, <4>2, <5>1 DEF DefinedBefore
        <4>4. m = n - 1 \/ Symbol(order[m]).name < Symbol(order[n - 1]).name
          <5>1. m < n - 1 \/ m = n - 1
            BY <2>1, <2>5, <2>11, <3>1, <3>3
          <5>. QED
            BY <2>2, <3>1, <4>1, <5>1
        <4>. QED
          BY <3>3, <4>2, <4>3, <4>4
      <3>. QED
        BY <3>2, <3>3
    <2>. HIDE DEF n
    <2>12. (ListsOnce(order, Definitions) /\ Ascending(order))'
      BY <1>1, <2>2, OrderSame
    <2>13. (result.symbols \in Seq(SymbolRecords) /\ Len(result.symbols) <= Len(order))'
      BY <1>1, <1>3, <2>7, <2>8
    <2>14. (map \in [AllSymbols -> Nat])'
      BY <1>1, <2>9, Same
    <2>15. (\A k \in DOMAIN result.symbols : result.symbols[k] = Moved(order[k]) /\ map[order[k]] = k)'
      BY <1>1, <2>7, <2>10, OrderSame
    <2>16. (\A m, k \in DOMAIN result.symbols : m < k => Symbol(order[m]).name < Symbol(order[k]).name)'
      BY <1>1, <2>7, <2>11, OrderSame
    <2>17. ~ Resolving'
      BY <1>1, <1>3 DEF Resolving, Linked
    <2>. QED
      BY <2>12, <2>13, <2>14, <2>15, <2>16, <2>17 DEF DefinedSoFar
  <1>. QED
    BY <1>2, <1>3 DEF Define, Fail

(* Every step keeps the symbols made so far those of the definitions.      *)
LEMMA DefinedStep ==
    ASSUME Typed, Placement, Places, DefinedSoFar, [Next]_vars PROVE DefinedSoFar'
  <1>0. objects' = objects
    BY ObjectsKept
  <1>1. CASE Copy
    BY <1>1, CopyDefines
  <1>2. CASE Define
    BY <1>2, DefineDefines
  <1>3. CASE ~ Merging'
    BY <1>3 DEF DefinedSoFar
  <1>4. ASSUME Merging, UNCHANGED <<bases, order>>, result'.symbols = result.symbols,
               map' \in [AllSymbols -> Nat], \A d \in Definitions : map'[d] = map[d],
               Resolving' => Resolving \/ Len(result.symbols) = Len(order)
        PROVE  DefinedSoFar'
    <2>1. DOMAIN result.symbols \subseteq DOMAIN order
      BY <1>4, Lengths
    <2>2. (ListsOnce(order, Definitions) /\ Ascending(order))'
      BY <1>0, <1>4, OrderSame DEF DefinedSoFar
    <2>3. \A n \in DOMAIN result.symbols : order[n] \in Definitions
      BY <1>4, <2>1 DEF DefinedSoFar, ListsOnce
    <2>4. (\A n \in DOMAIN result.symbols : result.symbols[n] = Moved(order[n]) /\ map[order[n]] = n)'
      BY <1>0, <1>4, <2>3, OrderSame DEF DefinedSoFar
    <2>5. (\A m, n \in DOMAIN result.symbols : m < n => Symbol(order[m]).name < Symbol(order[n]).name)'
      BY <1>0, <1>4, OrderSame DEF DefinedSoFar
    <2>6. (map \in [AllSymbols -> Nat])'
      BY <1>0, <1>4, Same
    <2>7. (/\ result.symbols \in Seq(SymbolRecords) /\ Len(result.symbols) <= Len(order)
           /\ Resolving => Len(result.symbols) = Len(order))'
      BY <1>4 DEF DefinedSoFar
    <2>. QED
      BY <2>2, <2>4, <2>5, <2>6, <2>7 DEF DefinedSoFar
  <1>5. CASE Defined
    <2>1. /\ Merging /\ UNCHANGED <<bases, order, map, result>>
          /\ Len(result.symbols) = Len(order)
      BY <1>5 DEF Defined, Merging
    <2>. QED
      BY <1>4, <2>1 DEF DefinedSoFar
  <1>6. CASE Resolve
    <2>1. Merging /\ Resolving /\ UNCHANGED <<bases, order>>
      BY <1>6 DEF Resolve, Merging, Resolving
    <2>2. map \in [AllSymbols -> Nat]
      BY <2>1 DEF DefinedSoFar
    <2>3. CASE Mapped(unit)
      <3>1. result'.symbols = result.symbols
        BY <2>3 DEF Mapped, Typed, Shaped
      <3>2. DOMAIN result.symbols \subseteq Nat
        BY <2>1, Lengths
      <3>3. \A name : Find(name) \in Nat
        BY <3>2 DEF Find
      <3>4. map' = [d \in AllSymbols |->
                       IF d[1] = unit /\ d[2] \in ImportsOf(unit) THEN Find(Symbol(d).name) ELSE map[d]]
        BY <2>3 DEF Mapped
      <3>5. map' \in [AllSymbols -> Nat]
        BY <2>2, <3>3, <3>4
      <3>6. \A d \in Definitions : d \in AllSymbols /\ ~ (d[1] = unit /\ d[2] \in ImportsOf(unit))
        BY DEF Definitions, ImportsOf, Symbol
      <3>7. \A d \in Definitions : map'[d] = map[d]
        BY <3>4, <3>6
      <3>. QED
        BY <1>4, <2>1, <3>1, <3>5, <3>7
    <2>4. CASE pc' = "discard"
      <3>1. ~ Merging'
        BY <2>4 DEF Merging, Linked
      <3>. QED
        BY <1>3, <3>1
    <2>. QED
      BY <1>6, <2>3, <2>4 DEF Resolve, Fail
  <1>7. CASE Relocate
    <2>1. Merging /\ Resolving /\ UNCHANGED <<bases, order, map>>
      BY <1>7 DEF Relocate, Merging, Resolving
    <2>2. result'.symbols = result.symbols
      BY <1>7 DEF Relocate, Typed, Shaped
    <2>. QED
      BY <1>4, <2>1, <2>2 DEF DefinedSoFar
  <1>8. CASE Finish
    <2>1. Merging /\ Resolving /\ UNCHANGED <<bases, order, map, result>>
      BY <1>8 DEF Finish, Merging, Resolving
    <2>. QED
      BY <1>4, <2>1 DEF DefinedSoFar
  <1>9. CASE UNCHANGED vars
    <2>1. UNCHANGED <<bases, order, map, result>> /\ Merging' = Merging /\ Resolving' = Resolving
      BY <1>9 DEF vars, Merging, Resolving, Linked
    <2>. QED
      BY <1>3, <1>4, <2>1 DEF DefinedSoFar
  <1>10. CASE Start \/ Place \/ Placed \/ Allocate \/ Discard
    <2>1. ~ Merging'
      BY <1>10 DEF Start, Place, Placed, Allocate, Discard, Fail, Merging, Linked, Places
    <2>. QED
      BY <1>3, <2>1
  <1>. QED
    BY <1>1, <1>2, <1>5, <1>6, <1>7, <1>8, <1>9, <1>10 DEF Next

-----------------------------------------------------------------------------
(* Imports, the entry, bytes and relocations.                              *)

(* Looking up a name depends on the symbols alone.                         *)
LEMMA FindSame ==
    ASSUME result'.symbols = result.symbols
    PROVE  /\ \A name : Find(name)' = Find(name)
           /\ \A s : Exported(s)' = Exported(s) /\ Matches(s)' = Matches(s)
  <1>1. \A name : Find(name)' = Find(name)
    BY DEF Find
  <1>2. \A s : Exported(s)' = Exported(s)
    BY <1>1 DEF Exported
  <1>3. \A s : Matches(s)' = Matches(s)
    BY <1>1 DEF Matches
  <1>. QED
    BY <1>1, <1>2, <1>3

(* A step that leaves what the invariant of a phase is about alone.        *)
LEMMA StillResolved ==
    ASSUME Typed, ResolvedSoFar, objects' = objects, UNCHANGED <<unit, map>>,
           result'.symbols = result.symbols, Resolving
    PROVE  ResolvedSoFar'
  <1>1. ASSUME NEW i \in DOMAIN objects, i < unit, NEW j \in ImportsOf(i)
        PROVE  (/\ Exported(SymbolsOf(i)[j]) /\ Matches(SymbolsOf(i)[j])
                /\ map[<<i, j>>] = Find(SymbolsOf(i)[j].name))'
    <2>1. /\ Exported(SymbolsOf(i)[j]) /\ Matches(SymbolsOf(i)[j])
          /\ map[<<i, j>>] = Find(SymbolsOf(i)[j].name)
      BY <1>1 DEF ResolvedSoFar
    <2>2. PICK s : s = SymbolsOf(i)[j]
      OBVIOUS
    <2>3. SymbolsOf(i)'[j] = s
      BY <2>2, Same
    <2>4. Exported(s)' /\ Matches(s)' /\ map'[<<i, j>>] = Find(s.name)'
      BY <2>1, <2>2, FindSame
    <2>. QED
      BY <2>3, <2>4 DEF Exported, Matches, Find
  <1>. QED
    BY <1>1, Same DEF ResolvedSoFar

(* What mapping one unit's imports does, entry included.                   *)
LEMMA MappedParts ==
    ASSUME Typed, Mapped(unit), unit \in DOMAIN objects, map \in [AllSymbols -> Nat]
    PROVE  /\ unit' = unit + 1 /\ result'.symbols = result.symbols
           /\ result'.sections = result.sections
           /\ \A i \in DOMAIN objects : \A j \in DOMAIN SymbolsOf(i) :
                 i # unit => map'[<<i, j>>] = map[<<i, j>>]
           /\ \A j \in ImportsOf(unit) : map'[<<unit, j>>] = Find(SymbolsOf(unit)[j].name)
           /\ objects[unit].entry # 0 => result'.entry = map'[<<unit, objects[unit].entry>>]
           /\ objects[unit].entry = 0 => result'.entry = result.entry
  <1>1. /\ map' = [d \in AllSymbols |->
                      IF d[1] = unit /\ d[2] \in ImportsOf(unit) THEN Find(Symbol(d).name) ELSE map[d]]
        /\ result' = [result EXCEPT
                         !.entry = IF objects[unit].entry # 0
                                   THEN map'[<<unit, objects[unit].entry>>] ELSE @]
        /\ unit' = unit + 1
    BY DEF Mapped
  <1>2. ASSUME NEW i \in DOMAIN objects, NEW j \in DOMAIN SymbolsOf(i)
        PROVE  <<i, j>> \in AllSymbols
    BY <1>2 DEF AllSymbols
  <1>3. ASSUME NEW i \in DOMAIN objects, NEW j \in DOMAIN SymbolsOf(i), i # unit
        PROVE  map'[<<i, j>>] = map[<<i, j>>]
    BY <1>1, <1>2, <1>3
  <1>4. ASSUME NEW j \in ImportsOf(unit)
        PROVE  map'[<<unit, j>>] = Find(SymbolsOf(unit)[j].name)
    <2>1. <<unit, j>> \in AllSymbols
      BY <1>2 DEF ImportsOf
    <2>2. Symbol(<<unit, j>>) = SymbolsOf(unit)[j]
      BY DEF Symbol
    <2>. QED
      BY <1>1, <2>1, <2>2
  <1>. QED
    BY <1>1, <1>3, <1>4 DEF Typed, Shaped

(* What is known when a unit's imports are looked up.                      *)
LEMMA ResolveParts ==
    ASSUME Typed, Placement, Places, DefinedSoFar, Resolve
    PROVE  /\ unit \in DOMAIN objects /\ map \in [AllSymbols -> Nat] /\ Resolving /\ Merging
           /\ pc = "resolve" /\ DOMAIN bases = DOMAIN objects /\ AllValid
  <1>1. pc = "resolve" /\ Merging /\ Resolving /\ unit <= Len(objects)
    BY DEF Resolve, Merging, Resolving
  <1>2. unit \in DOMAIN objects
    BY <1>1 DEF Typed
  <1>3. map \in [AllSymbols -> Nat]
    BY <1>1 DEF DefinedSoFar
  <1>4. DOMAIN bases = DOMAIN objects /\ AllValid
    BY <1>1, Complete DEF Places
  <1>. QED
    BY <1>1, <1>2, <1>3, <1>4

(* Every step keeps the imports of the units done met.                     *)
LEMMA ResolvedStep ==
    ASSUME Typed, Placement, Places, DefinedSoFar, ResolvedSoFar, [Next]_vars
    PROVE  ResolvedSoFar'
  <1>0. objects' = objects
    BY ObjectsKept
  <1>1. CASE ~ Resolving'
    BY <1>1 DEF ResolvedSoFar
  <1>2. CASE Defined
    <2>1. unit' = 1 /\ \A i \in DOMAIN objects : i >= 1
      BY <1>2 DEF Defined, Typed
    <2>2. \A i \in DOMAIN objects' : ~ (i < unit')
      BY <1>0, <2>1 DEF Typed
    <2>. QED
      BY <2>2 DEF ResolvedSoFar
  <1>3. CASE Resolve
    <2>1. CASE pc' = "discard"
      BY <1>1, <2>1 DEF Resolving, Linked
    <2>2. CASE /\ Mapped(unit)
               /\ \A j \in ImportsOf(unit) : Exported(SymbolsOf(unit)[j]) /\ Matches(SymbolsOf(unit)[j])
      <3>1. unit \in DOMAIN objects /\ map \in [AllSymbols -> Nat] /\ Resolving
        BY <1>3, ResolveParts
      <3>2. /\ unit' = unit + 1 /\ result'.symbols = result.symbols
            /\ \A i \in DOMAIN objects : \A j \in DOMAIN SymbolsOf(i) :
                  i # unit => map'[<<i, j>>] = map[<<i, j>>]
            /\ \A j \in ImportsOf(unit) : map'[<<unit, j>>] = Find(SymbolsOf(unit)[j].name)
        BY <2>2, <3>1, MappedParts
      <3>3. ASSUME NEW i \in DOMAIN objects, i < unit', NEW j \in ImportsOf(i)
            PROVE  (/\ Exported(SymbolsOf(i)[j]) /\ Matches(SymbolsOf(i)[j])
                    /\ map[<<i, j>>] = Find(SymbolsOf(i)[j].name))'
        <4>1. PICK s : s = SymbolsOf(i)[j]
          OBVIOUS
        <4>2. SymbolsOf(i)'[j] = s
          BY <1>0, <4>1, Same
        <4>3. Exported(s) /\ Matches(s) /\ map'[<<i, j>>] = Find(s.name)
          <5>1. CASE i = unit
            BY <2>2, <3>2, <4>1, <5>1
          <5>2. CASE i # unit
            <6>1. i < unit /\ j \in DOMAIN SymbolsOf(i)
              BY <3>1, <3>2, <3>3, <5>2 DEF Typed, ImportsOf
            <6>. QED
              BY <3>1, <3>2, <4>1, <5>2, <6>1 DEF ResolvedSoFar
          <5>. QED
            BY <5>1, <5>2
        <4>4. Exported(s)' /\ Matches(s)' /\ map'[<<i, j>>] = Find(s.name)'
          BY <3>2, <4>3, FindSame
        <4>. QED
          BY <4>2, <4>4 DEF Exported, Matches, Find
      <3>. QED
        BY <1>0, <3>3, Same DEF ResolvedSoFar
    <2>. QED
      BY <1>3, <2>1, <2>2 DEF Resolve, Fail
  <1>4. CASE Relocate
    <2>1. Resolving /\ UNCHANGED <<unit, map>> /\ result'.symbols = result.symbols
      BY <1>4 DEF Relocate, Resolving, Typed, Shaped
    <2>. QED
      BY <1>0, <2>1, StillResolved
  <1>5. CASE Finish
    <2>1. Resolving /\ UNCHANGED <<unit, map, result>>
      BY <1>5 DEF Finish, Resolving
    <2>. QED
      BY <1>0, <2>1, StillResolved
  <1>6. CASE UNCHANGED vars
    <2>1. UNCHANGED <<unit, map, result>> /\ Resolving' = Resolving
      BY <1>6 DEF vars, Resolving, Linked
    <2>. QED
      BY <1>0, <1>1, <2>1, StillResolved
  <1>7. CASE Start \/ Place \/ Placed \/ Allocate \/ Copy \/ Define \/ Discard
    <2>1. ~ Resolving'
      BY <1>7 DEF Start, Place, Placed, Allocate, Copy, Define, Discard, Fail, Resolving, Linked, Places
    <2>. QED
      BY <1>1, <2>1
  <1>. QED
    BY <1>2, <1>3, <1>4, <1>5, <1>6, <1>7 DEF Next

(* Every step keeps the entry that of the unit which has one.              *)
LEMMA EntryStep ==
    ASSUME Typed, Placement, Places, DefinedSoFar, EntrySoFar, [Next]_vars
    PROVE  EntrySoFar'
  <1>0. objects' = objects
    BY ObjectsKept
  <1>1. CASE UNCHANGED <<unit, map>> /\ result'.entry = result.entry /\ Defining' = Defining
             /\ (Resolving' => Resolving)
    BY <1>0, <1>1 DEF EntrySoFar
  <1>2. CASE Copy
    <2>1. result'.entry = 0 /\ ~ Resolving'
      BY <1>2 DEF Copy, Places, Starting, EmptyObject, Typed, Shaped, Resolving, Linked
    <2>. QED
      BY <2>1 DEF EntrySoFar
  <1>3. CASE Define
    <2>1. ~ Resolving' /\ (Defining' => Defining /\ result'.entry = result.entry)
      BY <1>3 DEF Define, Fail, Typed, Shaped, Resolving, Linked, Defining
    <2>. QED
      BY <2>1 DEF EntrySoFar
  <1>4. CASE Defined
    <2>1. unit' = 1 /\ \A i \in DOMAIN objects : i >= 1
      BY <1>4 DEF Defined, Typed
    <2>2. \A i \in DOMAIN objects' : ~ (i < unit')
      BY <1>0, <2>1 DEF Typed
    <2>3. result'.entry = 0 /\ ~ Defining'
      BY <1>4 DEF Defined, EntrySoFar, Defining
    <2>. QED
      BY <2>2, <2>3 DEF EntrySoFar
  <1>5. CASE Resolve
    <2>1. CASE pc' = "discard"
      BY <2>1 DEF Resolving, Defining, Linked, EntrySoFar
    <2>2. CASE Mapped(unit) /\ UNCHANGED pc
      <3>1. unit \in DOMAIN objects /\ map \in [AllSymbols -> Nat] /\ Resolving /\ pc = "resolve"
            /\ DOMAIN bases = DOMAIN objects
        BY <1>5, ResolveParts
      <3>2. /\ unit' = unit + 1
            /\ \A i \in DOMAIN objects : \A j \in DOMAIN SymbolsOf(i) :
                  i # unit => map'[<<i, j>>] = map[<<i, j>>]
            /\ objects[unit].entry # 0 => result'.entry = map'[<<unit, objects[unit].entry>>]
            /\ objects[unit].entry = 0 => result'.entry = result.entry
        BY <2>2, <3>1, MappedParts
      <3>3. ASSUME \A i \in DOMAIN objects : i < unit' => objects[i].entry = 0
            PROVE  result'.entry = 0
        <4>1. objects[unit].entry = 0 /\ \A i \in DOMAIN objects : i < unit => objects[i].entry = 0
          BY <3>1, <3>2, <3>3 DEF Typed
        <4>. QED
          BY <3>1, <3>2, <4>1 DEF EntrySoFar
      <3>4. ASSUME NEW i \in DOMAIN objects, i < unit', objects[i].entry # 0
            PROVE  result'.entry = map'[<<i, objects[i].entry>>]
        <4>1. CASE i = unit
          BY <3>2, <3>4, <4>1
        <4>2. CASE i # unit
          <5>1. i < unit /\ objects[unit].entry = 0
            BY <3>1, <3>2, <3>4, <4>2 DEF Typed, Placement
          <5>2. objects[i].entry \in DOMAIN SymbolsOf(i)
            <6>1. objects[i] \in Objects /\ ValidEntry(objects[i])
              BY <3>1 DEF Placement, Valid, Typed
            <6>. QED
              BY <3>4, <6>1, ObjectParts DEF ValidEntry, SymbolsOf
          <5>. QED
            BY <3>1, <3>2, <3>4, <4>2, <5>1, <5>2 DEF EntrySoFar
        <4>. QED
          BY <4>1, <4>2
      <3>5. ~ Defining'
        BY <2>2, <3>1 DEF Defining
      <3>. QED
        BY <1>0, <3>3, <3>4, <3>5 DEF EntrySoFar
    <2>. QED
      BY <1>5, <2>1, <2>2 DEF Resolve, Fail
  <1>6. CASE Relocate
    <2>1. /\ UNCHANGED <<unit, map>> /\ result'.entry = result.entry /\ Defining' = Defining
          /\ (Resolving' => Resolving)
      BY <1>6 DEF Relocate, Resolving, Defining, Typed, Shaped
    <2>. QED
      BY <1>1, <2>1
  <1>7. CASE Finish
    <2>1. /\ UNCHANGED <<unit, map, result>> /\ Defining' = Defining
          /\ (Resolving' => Resolving)
      BY <1>7 DEF Finish, Fail, Resolving, Defining
    <2>. QED
      BY <1>1, <2>1
  <1>8. CASE UNCHANGED vars
    <2>1. /\ UNCHANGED <<unit, map, result>> /\ Defining' = Defining
          /\ (Resolving' => Resolving)
      BY <1>8 DEF vars, Resolving, Defining, Linked
    <2>. QED
      BY <1>1, <2>1
  <1>9. CASE Start \/ Place \/ Placed \/ Allocate \/ Discard
    <2>1. ~ Resolving' /\ ~ Defining'
      BY <1>9 DEF Start, Place, Placed, Allocate, Discard, Fail, Resolving, Defining, Linked, Places
    <2>. QED
      BY <2>1 DEF EntrySoFar
  <1>. QED
    BY <1>2, <1>3, <1>4, <1>5, <1>6, <1>7, <1>8, <1>9 DEF Next

(* Every step keeps the bytes of the result.                               *)
LEMMA ContentsStep ==
    ASSUME Typed, Places, Contents, [Next]_vars PROVE Contents'
  <1>0. objects' = objects
    BY ObjectsKept
  <1>1. ASSUME bases' = bases PROVE \A k, x : ByteAt(k, x)' = ByteAt(k, x)
    BY <1>0, <1>1 DEF ByteAt
  <1>2. CASE ~ Merging'
    BY <1>2 DEF Contents, Merging, Relocated
  <1>3. CASE Copy
    <2>1. /\ bases' = bases /\ totals' = totals /\ ~ Relocated'
          /\ result'.sections = [k \in Sections |-> [x \in 1 .. totals[k] |-> ByteAt(k, x)]]
      BY <1>3 DEF Copy, Places, Relocated, Linked, Typed, Shaped
    <2>2. \A k \in Sections : result'.sections[k] = [x \in 1 .. totals[k] |-> ByteAt(k, x)]
      BY <2>1
    <2>3. (\A k \in Sections : result.sections[k] = [x \in 1 .. totals[k] |-> ByteAt(k, x)])'
      BY <1>1, <2>1, <2>2
    <2>. QED
      BY <2>1, <2>3 DEF Contents
  <1>4. ASSUME Merging, UNCHANGED <<bases, totals>>, result'.sections = result.sections,
               Relocated' => result'.relocs = InSiteOrder(MovedRelocs)'
        PROVE  Contents'
    <2>1. (\A k \in Sections : result.sections[k] = [x \in 1 .. totals[k] |-> ByteAt(k, x)])'
      BY <1>1, <1>4 DEF Contents
    <2>. QED
      BY <1>4, <2>1 DEF Contents
  <1>5. ASSUME UNCHANGED <<bases, map>>
        PROVE  InSiteOrder(MovedRelocs)' = InSiteOrder(MovedRelocs)
    <2>1. MovedRelocs' = MovedRelocs
      BY <1>0, <1>5, Same DEF MovedRelocs, MovedReloc
    <2>. QED
      BY <1>0, <2>1, Same DEF InSiteOrder
  <1>6. CASE Define \/ Defined \/ Resolve
    <2>1. /\ Merging /\ UNCHANGED <<bases, totals>> /\ ~ Relocated'
          /\ result'.sections = result.sections
      BY <1>6 DEF Define, Defined, Resolve, Mapped, Fail, Merging, Relocated, Linked, Typed, Shaped
    <2>. QED
      BY <1>4, <2>1
  <1>7. CASE Relocate
    <2>1. /\ Merging /\ UNCHANGED <<bases, totals, map>>
          /\ result'.relocs = InSiteOrder(MovedRelocs) /\ result'.sections = result.sections
      BY <1>7 DEF Relocate, Merging, Typed, Shaped, MovedRelocs
    <2>. QED
      BY <1>4, <1>5, <2>1
  <1>8. CASE Finish \/ UNCHANGED vars
    <2>1. UNCHANGED <<bases, totals, map, result>> /\ (Relocated' => Relocated)
      BY <1>8 DEF Finish, Fail, vars, Relocated, Linked
    <2>2. Merging' => Merging
      BY <1>8 DEF Finish, Fail, vars, Merging, Linked
    <2>. QED
      BY <1>2, <1>4, <1>5, <2>1, <2>2 DEF Contents
  <1>9. CASE Start \/ Place \/ Placed \/ Allocate \/ Discard
    <2>1. ~ Merging'
      BY <1>9 DEF Start, Place, Placed, Allocate, Discard, Fail, Merging, Linked, Places
    <2>. QED
      BY <1>2, <2>1
  <1>. QED
    BY <1>3, <1>6, <1>7, <1>8, <1>9 DEF Next

-----------------------------------------------------------------------------
(* Refusals.                                                               *)

(* Linkable, by the symbols and definitions of the link.                   *)
LEMMA LinkableParts ==
    ASSUME Typed
    PROVE  Linkable(objects) <=>
               /\ AllValid
               /\ Cardinality({objects[i].target : i \in DOMAIN objects}) = 1
               /\ Cardinality({i \in DOMAIN objects : objects[i].entry # 0}) <= 1
               /\ \A d, e \in Definitions : Symbol(d).name = Symbol(e).name => d = e
               /\ \A d \in AllSymbols \ Definitions : \E e \in Definitions :
                      /\ Symbol(e).export
                      /\ Symbol(e).name = Symbol(d).name /\ Symbol(e).kind = Symbol(d).kind
                      /\ Symbol(e).contract = Symbol(d).contract
  <1>. DEFINE symbols == UNION {{<<i, j>> : j \in DOMAIN objects[i].symbols} : i \in DOMAIN objects}
              Sym(d) == objects[d[1]].symbols[d[2]]
              defined == {d \in symbols : ~ Sym(d).import}
  <1>1. symbols = AllSymbols
    BY DEF AllSymbols, SymbolsOf
  <1>2. \A d : Sym(d) = Symbol(d)
    BY DEF Symbol, SymbolsOf
  <1>3. defined = Definitions
    BY <1>1, <1>2 DEF Definitions
  <1>4. Linkable(objects) <=>
            /\ \A i \in DOMAIN objects : Valid(objects[i])
            /\ Cardinality({objects[i].target : i \in DOMAIN objects}) = 1
            /\ Cardinality({i \in DOMAIN objects : objects[i].entry # 0}) <= 1
            /\ \A d, e \in defined : Sym(d).name = Sym(e).name => d = e
            /\ \A d \in symbols \ defined : \E e \in defined :
                   /\ Sym(e).export
                   /\ <<Sym(e).name, Sym(e).kind, Sym(e).contract>>
                        = <<Sym(d).name, Sym(d).kind, Sym(d).contract>>
    BY DEF Linkable
  <1>. HIDE DEF symbols, Sym, defined
  <1>. QED
    BY <1>1, <1>2, <1>3, <1>4 DEF AllValid

(* A unit refused by the first loop cannot be linked, or is too large.     *)
LEMMA PlaceRefused ==
    ASSUME Typed, Placement, Places, Place, ~ Admissible(unit)
    PROVE  ~ Linkable(objects) \/ OverLimit
  <1>. SUFFICES ASSUME Linkable(objects), ~ OverLimit PROVE FALSE
    OBVIOUS
  <1>1. unit \in DOMAIN objects /\ unit \in Nat /\ 1 \in DOMAIN objects
    BY DEF Place, Typed
  <1>2. Valid(objects[unit])
    BY <1>1, LinkableParts DEF AllValid
  <1>3. objects[unit].target = objects[1].target
    <2>1. PICK T : T = {objects[i].target : i \in DOMAIN objects}
      OBVIOUS
    <2>2. Cardinality(T) = 1
      BY <2>1, LinkableParts
    <2>3. PICK f, n : n = Len(objects) /\ f = [i \in 1 .. n |-> objects[i].target]
      OBVIOUS
    <2>4. n \in Nat /\ f \in Surjection(1 .. n, T)
      BY <2>1, <2>3 DEF Surjection, Typed
    <2>5. IsFiniteSet(1 .. n)
      BY <2>4, FS_Interval
    <2>6. IsFiniteSet(T)
      BY <2>4, <2>5, FS_Surjection
    <2>7. \A x, y \in T : x = y
      BY <2>2, <2>6, FS_Singleton
    <2>. QED
      BY <1>1, <2>1, <2>7
  <1>4. Cardinality({n \in 1 .. unit : objects[n].entry # 0}) <= 1
    <2>1. PICK n, S, T : /\ n = Len(objects) /\ S = {i \in DOMAIN objects : objects[i].entry # 0}
                         /\ T = {i \in 1 .. unit : objects[i].entry # 0}
      OBVIOUS
    <2>2. n \in Int /\ S \in SUBSET (1 .. n) /\ T \in SUBSET S /\ Cardinality(S) <= 1
      BY <1>1, <2>1, LinkableParts DEF Typed
    <2>3. IsFiniteSet(1 .. n)
      BY <2>2, FS_Interval
    <2>4. IsFiniteSet(S)
      BY <2>2, <2>3, FS_Subset
    <2>5. IsFiniteSet(T) /\ Cardinality(T) <= Cardinality(S)
      BY <2>2, <2>4, FS_Subset
    <2>6. Cardinality(S) \in Nat /\ Cardinality(T) \in Nat
      BY <2>4, <2>5, FS_CardinalityType
    <2>. QED
      BY <2>1, <2>2, <2>5, <2>6
  <1>5. ASSUME NEW S, IsFiniteSet(S), NEW T \in SUBSET S, NEW bound \in Nat, Cardinality(S) <= bound
        PROVE  Cardinality(T) <= bound
    <2>1. IsFiniteSet(T) /\ Cardinality(T) <= Cardinality(S)
      BY <1>5, FS_Subset
    <2>2. Cardinality(S) \in Nat /\ Cardinality(T) \in Nat
      BY <1>5, <2>1, FS_CardinalityType
    <2>. QED
      BY <1>5, <2>1, <2>2
  <1>6. Cardinality({d \in AllSymbols : d[1] <= unit}) <= MAX_SYMBOLS
    <2>1. PICK S, T, b : S = AllSymbols /\ T = {d \in AllSymbols : d[1] <= unit} /\ b = MAX_SYMBOLS
      OBVIOUS
    <2>2. IsFiniteSet(S) /\ T \in SUBSET S /\ b \in Nat /\ Cardinality(S) \in Nat
      BY <2>1, SymbolParts, FS_CardinalityType, NxoAssumption DEF Typed
    <2>3. Cardinality(S) <= b
      BY <2>1, <2>2 DEF OverLimit
    <2>. QED
      BY <1>5, <2>1, <2>2, <2>3
  <1>7. Cardinality({d \in AllRelocs : d[1] <= unit}) <= MAX_RELOCS
    <2>1. PICK S, T, b : S = AllRelocs /\ T = {d \in AllRelocs : d[1] <= unit} /\ b = MAX_RELOCS
      OBVIOUS
    <2>2. IsFiniteSet(S) /\ T \in SUBSET S /\ b \in Nat /\ Cardinality(S) \in Nat
      BY <2>1, SymbolParts, FS_CardinalityType, NxoAssumption DEF Typed
    <2>3. Cardinality(S) <= b
      BY <2>1, <2>2 DEF OverLimit
    <2>. QED
      BY <1>5, <2>1, <2>2, <2>3
  <1>8. ASSUME NEW k \in Sections
        PROVE  Span(Aligned(totals[k]), Size(objects[unit], k), LINK_BYTES)
    <2>1. Aligned(totals[k]) \in Nat /\ Size(objects[unit], k) \in Nat
      BY <1>1, AlignedUp, UnitTypes DEF Typed
    <2>2. LINK_BYTES \in Nat
      BY LinkAssumption, NxoAssumption
    <2>3. ~ (Aligned(totals[k]) + Size(objects[unit], k) > LINK_BYTES)
      BY DEF OverLimit
    <2>. QED
      BY <2>1, <2>2, <2>3 DEF Span
  <1>. QED
    BY <1>2, <1>3, <1>4, <1>6, <1>7, <1>8 DEF Admissible

(* A definition is found by its name, and is the symbol found.             *)
LEMMA Found ==
    ASSUME Typed, Placement, Places, DefinedSoFar, Resolving, NEW e \in Definitions
    PROVE  /\ Find(Symbol(e).name) # 0 /\ Find(Symbol(e).name) \in DOMAIN result.symbols
           /\ order[Find(Symbol(e).name)] = e
           /\ result.symbols[Find(Symbol(e).name)] = Moved(e)
  <1>1. Merging
    BY DEF Merging, Resolving
  <1>2. /\ ListsOnce(order, Definitions) /\ Len(result.symbols) = Len(order)
        /\ \A n \in DOMAIN result.symbols : result.symbols[n] = Moved(order[n])
        /\ \A m, n \in DOMAIN result.symbols : m < n => Symbol(order[m]).name < Symbol(order[n]).name
    BY <1>1 DEF DefinedSoFar
  <1>3. DOMAIN result.symbols = DOMAIN order /\ DOMAIN order \subseteq Nat \ {0}
    BY <1>1, <1>2, Lengths
  <1>4. Len(bases) = Len(objects)
    BY <1>1 DEF Places
  <1>5. PICK n \in DOMAIN order : order[n] = e
    BY <1>2 DEF ListsOnce
  <1>6. \A m \in DOMAIN order : order[m] \in Definitions
    BY <1>2 DEF ListsOnce
  <1>7. ASSUME NEW m \in DOMAIN order PROVE result.symbols[m].name = Symbol(order[m]).name
    <2>1. PICK d : d = order[m]
      OBVIOUS
    <2>2. d \in Definitions /\ result.symbols[m] = Moved(d)
      BY <1>2, <1>3, <1>6, <2>1
    <2>3. Moved(d).name = Symbol(d).name
      BY <1>4, <2>2, MovedParts
    <2>. QED
      BY <2>1, <2>2, <2>3
  <1>8. \A m \in DOMAIN order : Symbol(order[m]).name \in Nat
    BY <1>6, SymbolTypes DEF Typed, SymbolRecords, Definitions
  <1>9. ASSUME NEW m \in DOMAIN order, result.symbols[m].name = Symbol(e).name
        PROVE  m = n
    <2>1. Symbol(order[m]).name = Symbol(order[n]).name
      BY <1>5, <1>7, <1>9
    <2>2. ~ (m < n) /\ ~ (n < m)
      BY <1>2, <1>3, <1>8, <2>1
    <2>. QED
      BY <1>3, <2>2
  <1>10. {m \in DOMAIN result.symbols : result.symbols[m].name = Symbol(e).name} = {n}
    BY <1>3, <1>5, <1>7, <1>9
  <1>11. Find(Symbol(e).name) = n
    BY <1>10 DEF Find
  <1>. QED
    BY <1>2, <1>3, <1>5, <1>11

(* What is found has the name looked for.                                  *)
LEMMA FoundNamed ==
    ASSUME DefinedSoFar, Resolving, NEW name, Find(name) # 0
    PROVE  /\ Find(name) \in DOMAIN result.symbols
           /\ result.symbols[Find(name)].name = name
  BY DEF Find

(* An import of units that can be linked is met.                           *)
LEMMA ImportRefused ==
    ASSUME Typed, Placement, Places, DefinedSoFar, Resolving,
           NEW i \in DOMAIN objects, NEW j \in ImportsOf(i), Linkable(objects)
    PROVE  Exported(SymbolsOf(i)[j]) /\ Matches(SymbolsOf(i)[j])
  <1>1. <<i, j>> \in AllSymbols \ Definitions /\ Symbol(<<i, j>>) = SymbolsOf(i)[j]
    BY DEF AllSymbols, Definitions, ImportsOf, Symbol
  <1>2. PICK s : s = SymbolsOf(i)[j]
    OBVIOUS
  <1>3. PICK e \in Definitions : /\ Symbol(e).export /\ Symbol(e).name = s.name
                                 /\ Symbol(e).kind = s.kind /\ Symbol(e).contract = s.contract
    BY <1>1, <1>2, LinkableParts
  <1>4. Find(s.name) # 0 /\ result.symbols[Find(s.name)] = Moved(e)
    BY <1>3, Found
  <1>5. Len(bases) = Len(objects)
    BY DEF Places, Merging, Resolving
  <1>6. Moved(e).export /\ Moved(e).kind = s.kind /\ Moved(e).contract = s.contract
    BY <1>3, <1>5, MovedParts
  <1>. QED
    BY <1>2, <1>4, <1>6 DEF Exported, Matches

(* Neighbours of one name are two definitions of it.                       *)
LEMMA DefineRefused ==
    ASSUME Typed, Placement, Places, DefinedSoFar, Define, NEW n \in DOMAIN order, n > 1,
           Symbol(order[n - 1]).name = Symbol(order[n]).name
    PROVE  ~ Linkable(objects)
  <1>1. Merging
    BY DEF Define, Merging
  <1>2. n - 1 \in DOMAIN order /\ n \in Nat
    BY <1>1, Lengths
  <1>3. order[n] \in Definitions /\ order[n - 1] \in Definitions /\ order[n] # order[n - 1]
    BY <1>1, <1>2 DEF DefinedSoFar, ListsOnce
  <1>. QED
    BY <1>3, LinkableParts

-----------------------------------------------------------------------------
(* Where the map leads, and what is counted.                               *)

(* What a symbol of a unit is mapped to.                                   *)
LEMMA MappedWell ==
    ASSUME Typed, Placement, Places, DefinedSoFar, ResolvedSoFar, Relocated,
           NEW i \in DOMAIN objects, NEW j \in DOMAIN SymbolsOf(i)
    PROVE  LET d == result.symbols[map[<<i, j>>]]
               s == SymbolsOf(i)[j]
           IN  /\ map[<<i, j>>] \in DOMAIN result.symbols
               /\ d.name = s.name /\ d.contract = s.contract /\ d.kind = s.kind
               /\ IF s.import THEN d.export /\ \E e \in Definitions : d = Moved(e)
                  ELSE /\ d.offset = s.offset + bases[i][s.section]
                       /\ <<i, j>> \in Definitions /\ d = Moved(<<i, j>>)
  <1>1. Merging /\ Resolving /\ i < unit /\ Len(bases) = Len(objects)
    BY DEF Merging, Resolving, Relocated, Places, Typed
  <1>2. <<i, j>> \in AllSymbols /\ Symbol(<<i, j>>) = SymbolsOf(i)[j]
    BY DEF AllSymbols, Symbol
  <1>3. PICK s, name : s = SymbolsOf(i)[j] /\ name = s.name
    OBVIOUS
  <1>4. CASE s.import
    <2>1. j \in ImportsOf(i)
      BY <1>3, <1>4 DEF ImportsOf
    <2>2. Exported(s) /\ Matches(s) /\ map[<<i, j>>] = Find(name)
      BY <1>1, <1>3, <2>1 DEF ResolvedSoFar
    <2>3. Find(name) # 0
      BY <1>3, <2>2 DEF Exported
    <2>4. Find(name) \in DOMAIN result.symbols /\ result.symbols[Find(name)].name = name
      BY <1>1, <2>3, FoundNamed
    <2>5. PICK n : n = Find(name)
      OBVIOUS
    <2>6. result.symbols[n] = Moved(order[n]) /\ order[n] \in Definitions
      BY <1>1, <2>4, <2>5, Lengths DEF DefinedSoFar, ListsOnce
    <2>7. \E e \in Definitions : result.symbols[n] = Moved(e)
      BY <2>6
    <2>. QED
      BY <1>3, <1>4, <2>2, <2>4, <2>5, <2>7 DEF Exported, Matches
  <1>5. CASE ~ s.import
    <2>1. PICK d : d = <<i, j>>
      OBVIOUS
    <2>2. d \in Definitions /\ Symbol(d) = s /\ d[1] = i
      BY <1>2, <1>3, <1>5, <2>1 DEF Definitions
    <2>3. PICK n \in DOMAIN order : order[n] = d
      BY <1>1, <2>2 DEF DefinedSoFar, ListsOnce
    <2>4. n \in DOMAIN result.symbols
      BY <1>1, Lengths DEF DefinedSoFar
    <2>5. map[d] = n /\ result.symbols[n] = Moved(d)
      BY <1>1, <2>3, <2>4 DEF DefinedSoFar
    <2>. QED
      BY <1>1, <1>3, <1>5, <2>1, <2>2, <2>4, <2>5, MovedParts
  <1>. QED
    BY <1>4, <1>5

(* Every step keeps what has been placed within the limits.                *)
LEMMA LimitsStep ==
    ASSUME Typed, Places, Limits, [Next]_vars PROVE Limits'
  <1>0. objects' = objects
    BY ObjectsKept
  <1>1. AllSymbols' = AllSymbols /\ AllRelocs' = AllRelocs
    BY <1>0, Same
  <1>2. CASE Place /\ Admissible(unit)
    <2>1. /\ unit \in DOMAIN objects /\ unit = Len(bases) + 1
          /\ \A k \in Sections : totals'[k] = Aligned(totals[k]) + Size(objects[unit], k)
      BY <1>2, PlaceParts
    <2>2. bases' = Append(bases, [k \in Sections |-> Aligned(totals[k])])
      BY <1>2 DEF Place
    <2>3. Len(bases') = unit
      BY <2>1, <2>2 DEF Typed
    <2>4. /\ Cardinality({d \in AllSymbols : d[1] <= unit}) <= MAX_SYMBOLS
          /\ Cardinality({d \in AllRelocs : d[1] <= unit}) <= MAX_RELOCS
          /\ \A k \in Sections : Span(Aligned(totals[k]), Size(objects[unit], k), LINK_BYTES)
      BY <1>2 DEF Admissible
    <2>5. ASSUME NEW k \in Sections PROVE totals'[k] <= LINK_BYTES
      <3>1. /\ Aligned(totals[k]) \in Nat /\ Size(objects[unit], k) \in Nat /\ LINK_BYTES \in Nat
            /\ Span(Aligned(totals[k]), Size(objects[unit], k), LINK_BYTES)
        BY <2>1, <2>4, AlignedUp, UnitTypes, LinkAssumption, NxoAssumption DEF Typed
      <3>2. PICK a, z : a = Aligned(totals[k]) /\ z = Size(objects[unit], k)
        OBVIOUS
      <3>3. a + z <= LINK_BYTES
        BY <3>1, <3>2 DEF Span
      <3>. QED
        BY <2>1, <3>2, <3>3
    <2>6. ~ Merging'
      BY <1>2 DEF Place, Merging, Linked
    <2>. QED
      BY <1>1, <2>3, <2>4, <2>5, <2>6 DEF Limits
  <1>3. CASE ~ (Place /\ Admissible(unit))
    <2>1. bases' = bases /\ totals' = totals
      BY <1>3 DEF Next, vars, Start, Place, Placed, Allocate, Copy, Define, Defined, Resolve,
         Mapped, Relocate, Finish, Discard
    <2>2. Merging' => result'.target = objects[1].target
      <3>1. CASE Copy
        BY <3>1 DEF Copy, Typed, Shaped
      <3>2. CASE Define \/ Defined \/ Resolve \/ Relocate \/ Finish \/ UNCHANGED vars
        <4>1. Merging' => Merging
          BY <3>2 DEF Define, Defined, Resolve, Relocate, Finish, Fail, vars, Merging, Linked
        <4>2. result'.target = result.target
          BY <3>2 DEF Define, Defined, Resolve, Mapped, Relocate, Finish, vars, Typed, Shaped
        <4>. QED
          BY <4>1, <4>2 DEF Limits
      <3>3. CASE Start \/ Place \/ Placed \/ Allocate \/ Discard
        BY <3>3 DEF Start, Place, Placed, Allocate, Discard, Fail, Merging, Linked, Places
      <3>. QED
        BY <3>1, <3>2, <3>3 DEF Next
    <2>. QED
      BY <1>0, <1>1, <2>1, <2>2 DEF Limits
  <1>. QED
    BY <1>2, <1>3

-----------------------------------------------------------------------------
(* What was merged is a valid object.                                      *)

(* A section of the result is as long as the units it was made of.         *)
LEMMA ResultSize ==
    ASSUME Typed, Contents, Merging, NEW k \in Sections
    PROVE  Size(result, k) = totals[k]
  <1>1. result.sections[k] = [x \in 1 .. totals[k] |-> ByteAt(k, x)]
    BY DEF Contents
  <1>2. totals[k] \in Nat
    BY DEF Typed
  <1>. QED
    BY <1>1, <1>2 DEF Size

(* A definition stays within its section.                                  *)
LEMMA MovedInside ==
    ASSUME Typed, Placement, Len(bases) = Len(objects), NEW d \in Definitions
    PROVE  /\ ~ Moved(d).import /\ Moved(d).section \in Sections
           /\ Span(Moved(d).offset, Moved(d).size, totals[Moved(d).section])
           /\ Moved(d).kind = "function" => Moved(d).section = TEXT /\ Moved(d).size > 0
  <1>1. PICK i, j, o, s, q, k : /\ i = d[1] /\ j = d[2] /\ o = objects[i] /\ s = Symbol(d)
                                /\ q = Moved(d) /\ k = s.section
    OBVIOUS
  <1>2. /\ i \in DOMAIN bases /\ o \in Objects /\ Valid(o)
        /\ j \in DOMAIN o.symbols /\ s = o.symbols[j] /\ ~ s.import /\ s \in SymbolRecords
    BY <1>1, SymbolTypes, Complete DEF AllValid, SymbolsOf, Symbol, Typed, Definitions
  <1>3. ValidSymbol(o, j)
    BY <1>2 DEF Valid
  <1>4. /\ q.import = FALSE /\ q.section = k /\ q.size = s.size /\ q.kind = s.kind
        /\ k \in Sections /\ q.offset = s.offset + bases[i][k]
    BY <1>1, MovedParts
  <1>5. /\ Span(s.offset, s.size, Size(o, k))
        /\ s.kind = "function" => k = TEXT /\ s.size > 0
    BY <1>1, <1>2, <1>3 DEF ValidSymbol
  <1>6. PICK b, z, t : b = bases[i][k] /\ z = Size(o, k) /\ t = totals[k]
    OBVIOUS
  <1>7. b \in Nat /\ z \in Nat /\ t \in Nat /\ b + z <= t
    <2>1. b \in Nat /\ t \in Nat
      BY <1>2, <1>4, <1>6 DEF Typed
    <2>2. z \in Nat
      BY <1>2, <1>4, <1>6, ObjectParts
    <2>3. bases[i][k] + Size(objects[i], k) <= totals[k]
      BY <1>2, <1>4 DEF Placement
    <2>. QED
      BY <1>1, <1>6, <2>1, <2>2, <2>3
  <1>8. s.offset \in Nat /\ s.size \in Nat
    BY <1>2 DEF SymbolRecords
  <1>9. Span(s.offset + b, s.size, t)
    <2>1. PICK x, y : x = s.offset /\ y = s.size
      OBVIOUS
    <2>2. Span(x, y, z)
      BY <1>5, <1>6, <2>1
    <2>3. x \in Nat /\ y \in Nat
      BY <1>8, <2>1
    <2>4. Span(x + b, y, t)
      BY <1>7, <2>2, <2>3 DEF Span
    <2>. QED
      BY <2>1, <2>4
  <1>. QED
    BY <1>1, <1>4, <1>5, <1>6, <1>9

(* The symbols of the result are valid.                                    *)
LEMMA SymbolsValid ==
    ASSUME Typed, Placement, Places, DefinedSoFar, Contents, Relocated,
           NEW n \in DOMAIN result.symbols
    PROVE  ValidSymbol(result, n)
  <1>1. Merging /\ Resolving /\ Len(bases) = Len(objects)
    BY DEF Merging, Resolving, Relocated, Places
  <1>2. DOMAIN result.symbols \subseteq DOMAIN order /\ DOMAIN result.symbols = 1 .. Len(result.symbols)
        /\ Len(result.symbols) \in Nat
    BY <1>1, Lengths
  <1>3. \A m \in DOMAIN result.symbols : order[m] \in Definitions /\ result.symbols[m] = Moved(order[m])
    BY <1>1, <1>2 DEF DefinedSoFar, ListsOnce
  <1>4. \A m \in DOMAIN result.symbols : result.symbols[m].name = Symbol(order[m]).name
    BY <1>1, <1>3, MovedParts
  <1>5. ASSUME n > 1 PROVE result.symbols[n - 1].name < result.symbols[n].name
    <2>1. n - 1 \in DOMAIN result.symbols /\ n - 1 < n
      BY <1>2, <1>5
    <2>2. Symbol(order[n - 1]).name < Symbol(order[n]).name
      BY <1>1, <2>1 DEF DefinedSoFar
    <2>. QED
      BY <1>4, <2>1, <2>2
  <1>6. PICK q : q = result.symbols[n]
    OBVIOUS
  <1>7. /\ ~ q.import /\ q.section \in Sections
        /\ Span(q.offset, q.size, totals[q.section])
        /\ q.kind = "function" => q.section = TEXT /\ q.size > 0
    BY <1>1, <1>3, <1>6, MovedInside
  <1>8. Size(result, q.section) = totals[q.section]
    BY <1>1, <1>7, ResultSize
  <1>. QED
    BY <1>5, <1>6, <1>7, <1>8 DEF ValidSymbol

(* The entry of the result is a function.                                  *)
LEMMA EntryValid ==
    ASSUME Typed, Placement, Places, DefinedSoFar, ResolvedSoFar, EntrySoFar, Relocated
    PROVE  ValidEntry(result)
  <1>. SUFFICES ASSUME result.entry # 0 PROVE ValidEntry(result)
    BY DEF ValidEntry
  <1>1. Merging /\ Resolving /\ Len(bases) = Len(objects) /\ \A i \in DOMAIN objects : i < unit
    BY DEF Merging, Resolving, Relocated, Places, Typed
  <1>2. PICK i \in DOMAIN objects : objects[i].entry # 0
    BY <1>1 DEF EntrySoFar
  <1>3. PICK o, e : o = objects[i] /\ e = objects[i].entry
    OBVIOUS
  <1>4. o \in Objects /\ Valid(o) /\ e # 0 /\ result.entry = map[<<i, e>>]
    BY <1>1, <1>2, <1>3, Complete DEF AllValid, Typed, EntrySoFar
  <1>5. /\ e \in DOMAIN o.symbols /\ o.symbols[e].section = TEXT /\ o.symbols[e].kind = "function"
    BY <1>3, <1>4, ObjectParts DEF Valid, ValidEntry
  <1>6. ~ o.symbols[e].import
    BY <1>4, <1>5 DEF Valid, ValidSymbol, TEXT
  <1>7. SymbolsOf(i) = o.symbols
    BY <1>3 DEF SymbolsOf
  <1>8. PICK n, d, q : n = map[<<i, e>>] /\ d = <<i, e>> /\ q = result.symbols[n]
    OBVIOUS
  <1>9. n \in DOMAIN result.symbols /\ d \in Definitions /\ q = Moved(d)
    BY <1>5, <1>6, <1>7, <1>8, MappedWell
  <1>10. Symbol(d) = o.symbols[e]
    BY <1>3, <1>8 DEF Symbol, SymbolsOf
  <1>11. q.section = TEXT /\ q.kind = "function"
    BY <1>1, <1>5, <1>9, <1>10, MovedParts
  <1>12. n <= Len(result.symbols)
    BY <1>1, <1>9, Lengths
  <1>. QED
    BY <1>4, <1>8, <1>11, <1>12 DEF ValidEntry

(* A place is a number.                                                    *)
LEMMA BaseTypes ==
    ASSUME Typed, NEW i \in DOMAIN bases, NEW k \in Sections
    PROVE  bases[i][k] \in Nat
  BY DEF Typed

(* A field as moved: it stays within its section and names a symbol.       *)
LEMMA SiteParts ==
    ASSUME Typed, Placement, Len(bases) = Len(objects), NEW d \in AllRelocs
    PROVE  LET o == objects[d[1]]
               r == o.relocs[d[2]]
               q == MovedRelocs[d]
           IN  /\ o \in Objects /\ Valid(o) /\ d[1] \in DOMAIN bases /\ d[1] \in Nat
               /\ d[2] \in DOMAIN o.relocs /\ d[2] \in Nat
               /\ q.section = r.section /\ q.kind = r.kind /\ q.target = map[<<d[1], r.target>>]
               /\ r.kind \in {"REL32", "DIR64"} /\ r.section \in Sections
               /\ r.target \in DOMAIN o.symbols
               /\ r.offset \in Nat /\ bases[d[1]][r.section] \in Nat
               /\ q.offset = r.offset + bases[d[1]][r.section]
               /\ r.offset + Width(r.kind) <= Size(o, r.section)
  <1>1. PICK i, j, o, r, k, b, m : /\ i = d[1] /\ j = d[2] /\ o = objects[i] /\ r = o.relocs[j]
                                   /\ k = r.section /\ b = bases[i][k] /\ m = map[<<i, r.target>>]
    OBVIOUS
  <1>2. i \in DOMAIN bases /\ i \in Nat /\ o \in Objects /\ Valid(o) /\ j \in DOMAIN o.relocs /\ j \in Nat
    BY <1>1, RelocTypes, Complete DEF AllValid, RelocsOf, Typed
  <1>3. r \in RelocRecords /\ ValidReloc(o, j)
    BY <1>1, <1>2, ObjectParts DEF Valid
  <1>4. /\ r.kind \in {"REL32", "DIR64"} /\ k \in Sections /\ r.target \in 1 .. Len(o.symbols)
        /\ Span(r.offset, Width(r.kind), Size(o, k))
    BY <1>1, <1>3 DEF ValidReloc
  <1>5. r.offset \in Nat /\ Width(r.kind) \in Nat /\ Size(o, k) \in Nat /\ b \in Nat
        /\ DOMAIN o.symbols = 1 .. Len(o.symbols)
    <2>1. r.offset \in Nat
      BY <1>3 DEF RelocRecords
    <2>2. Width(r.kind) \in Nat
      BY NxoAssumption DEF Width
    <2>3. Size(o, k) \in Nat /\ DOMAIN o.symbols = 1 .. Len(o.symbols)
      BY <1>2, <1>4, ObjectParts
    <2>4. b \in Nat
      BY <1>1, <1>2, <1>4, BaseTypes
    <2>. QED
      BY <2>1, <2>2, <2>3, <2>4
  <1>6. r.offset + Width(r.kind) <= Size(o, k)
    BY <1>4, <1>5 DEF Span
  <1>7. MovedRelocs[d] = [r EXCEPT !.offset = @ + b, !.target = m]
    BY <1>1 DEF MovedRelocs, MovedReloc, RelocsOf
  <1>8. PICK q : q = MovedRelocs[d]
    OBVIOUS
  <1>9. q.section = k /\ q.kind = r.kind /\ q.target = m /\ q.offset = r.offset + b
    BY <1>1, <1>3, <1>7, <1>8 DEF RelocRecords
  <1>. QED
    BY <1>1, <1>2, <1>4, <1>5, <1>6, <1>8, <1>9

(* Two fields do not overlap once moved, of one unit or of two.            *)
LEMMA SitesApart ==
    ASSUME Typed, Placement, Len(bases) = Len(objects), NEW d \in AllRelocs, NEW e \in AllRelocs,
           d # e, MovedRelocs[d].section = MovedRelocs[e].section, d[1] < e[1] \/ (d[1] = e[1] /\ d[2] < e[2])
    PROVE  MovedRelocs[d].offset + Width(MovedRelocs[d].kind) <= MovedRelocs[e].offset
  <1>1. PICK i, j, o, p, r, k, b, c : /\ i = d[1] /\ j = e[1] /\ o = objects[i]
                                      /\ p = o.relocs[d[2]] /\ r = objects[j].relocs[e[2]]
                                      /\ k = p.section /\ b = bases[i][k] /\ c = bases[j][k]
    OBVIOUS
  <1>2. /\ MovedRelocs[d].offset = p.offset + b /\ MovedRelocs[d].kind = p.kind /\ k = r.section
        /\ MovedRelocs[e].offset = r.offset + c /\ k \in Sections
        /\ p.offset \in Nat /\ r.offset \in Nat /\ b \in Nat /\ c \in Nat
        /\ p.offset + Width(p.kind) <= Size(o, k)
        /\ o \in Objects /\ Valid(o) /\ d[2] \in DOMAIN o.relocs
        /\ e[2] \in DOMAIN objects[j].relocs /\ i \in DOMAIN bases /\ j \in DOMAIN bases
        /\ i \in Nat
    BY <1>1, SiteParts
  <1>3. Width(p.kind) \in Nat /\ Size(o, k) \in Nat
    BY <1>2, ObjectParts, NxoAssumption DEF Width
  <1>4. CASE i = j
    <2>1. PICK x, y : x = d[2] /\ y = e[2]
      OBVIOUS
    <2>a. ~ (d[1] < e[1])
      BY <1>1, <1>2, <1>4
    <2>b. x < y
      BY <2>1, <2>a
    <2>2. x \in DOMAIN o.relocs /\ y \in DOMAIN o.relocs /\ p = o.relocs[x] /\ r = o.relocs[y]
      BY <1>1, <1>2, <1>4, <2>1
    <2>3. p.offset + Width(p.kind) <= r.offset
      BY <1>1, <1>2, <2>2, <2>b, FieldsApart
    <2>4. b = c
      BY <1>1, <1>4
    <2>5. p.offset + b + Width(p.kind) <= r.offset + c
      BY <1>2, <1>3, <2>3, <2>4
    <2>. QED
      BY <1>2, <2>5
  <1>5. CASE i < j
    <2>1. b + Size(o, k) <= c
      BY <1>1, <1>2, <1>5 DEF Placement
    <2>2. p.offset + b + Width(p.kind) <= r.offset + c
      BY <1>2, <1>3, <2>1
    <2>. QED
      BY <1>2, <2>2
  <1>. QED
    BY <1>1, <1>4, <1>5

(* The relocations of the result are valid: qsort compares sites alone,    *)
(* and no two of them are equal.                                           *)
LEMMA RelocsValid ==
    ASSUME Typed, Placement, Places, DefinedSoFar, ResolvedSoFar, Contents, Relocated,
           NEW n \in DOMAIN result.relocs
    PROVE  ValidReloc(result, n)
  <1>1. Merging /\ Resolving /\ Len(bases) = Len(objects) /\ result.relocs = InSiteOrder(MovedRelocs)
    BY DEF Merging, Resolving, Relocated, Places, Contents
  <1>2. PICK list, M : list = result.relocs /\ M = MovedRelocs
    OBVIOUS
  <1>3. ListedInOrder(list, M)
    BY <1>1, <1>2, Complete, RelocsMerged
  <1>4. PICK d \in AllRelocs : list[n] = M[d]
    BY <1>2, <1>3 DEF ListedInOrder
  <1>5. PICK i, o, r, q, k, b, z, t : /\ i = d[1] /\ o = objects[i] /\ r = o.relocs[d[2]] /\ q = M[d]
                                      /\ k = r.section /\ b = bases[i][k] /\ z = Size(o, k)
                                      /\ t = totals[k]
    OBVIOUS
  <1>6. /\ o \in Objects /\ i \in DOMAIN bases /\ q.section = k /\ q.kind = r.kind
        /\ q.target = map[<<i, r.target>>] /\ r.kind \in {"REL32", "DIR64"} /\ k \in Sections
        /\ r.target \in DOMAIN o.symbols /\ r.offset \in Nat /\ b \in Nat
        /\ q.offset = r.offset + b /\ r.offset + Width(r.kind) <= z
    BY <1>1, <1>2, <1>5, SiteParts
  <1>7. q.target \in 1 .. Len(result.symbols)
    <2>1. i \in DOMAIN objects /\ r.target \in DOMAIN SymbolsOf(i)
      BY <1>1, <1>5, <1>6, Complete DEF SymbolsOf
    <2>2. map[<<i, r.target>>] \in DOMAIN result.symbols
      BY <2>1, MappedWell
    <2>. QED
      BY <1>1, <1>6, <2>2, Lengths
  <1>8. Span(q.offset, Width(q.kind), Size(result, k))
    <2>1. Width(r.kind) \in Nat /\ z \in Nat /\ t \in Nat /\ b + z <= t
      BY <1>5, <1>6, ObjectParts, NxoAssumption DEF Width, Typed, Placement
    <2>2. Span(r.offset + b, Width(r.kind), t)
      BY <1>6, <2>1 DEF Span
    <2>3. Size(result, k) = t
      BY <1>1, <1>5, <1>6, ResultSize
    <2>. QED
      BY <1>6, <2>2, <2>3
  <1>9. ASSUME n > 1
        PROVE  \/ list[n].section > list[n - 1].section
               \/ /\ list[n].section = list[n - 1].section
                  /\ list[n].offset >= list[n - 1].offset + Width(list[n - 1].kind)
    <2>1. n - 1 \in DOMAIN list /\ n \in DOMAIN list /\ n - 1 < n
      <3>1. Cardinality(AllRelocs) \in Nat
        BY SymbolParts, FS_CardinalityType DEF Typed
      <3>. QED
        BY <1>2, <1>3, <1>9, <3>1 DEF ListedInOrder
    <2>2. PICK e, f \in AllRelocs : e # f /\ list[n - 1] = M[e] /\ list[n] = M[f] /\ ~ SiteBefore(M[f], M[e])
      BY <1>3, <2>1 DEF ListedInOrder
    <2>3. PICK p, s : p = M[e] /\ s = M[f]
      OBVIOUS
    <2>4. \A g \in AllRelocs : M[g].section \in Nat /\ M[g].offset \in Nat
      <3>. SUFFICES ASSUME NEW g \in AllRelocs PROVE M[g].section \in Nat /\ M[g].offset \in Nat
        OBVIOUS
      <3>1. PICK h, u, v : h = M[g] /\ u = objects[g[1]].relocs[g[2]] /\ v = bases[g[1]][u.section]
        OBVIOUS
      <3>2. h.section \in Sections /\ h.offset = u.offset + v /\ u.offset \in Nat /\ v \in Nat
        BY <1>1, <1>2, <3>1, SiteParts
      <3>. QED
        BY <3>1, <3>2 DEF Sections
    <2>5. p.section \in Nat /\ p.offset \in Nat /\ s.section \in Nat /\ s.offset \in Nat
      BY <2>2, <2>3, <2>4
    <2>6. Width(p.kind) \in Nat \ {0} /\ Width(s.kind) \in Nat \ {0}
      BY NxoAssumption DEF Width
    <2>7. ASSUME p.section = s.section
          PROVE  p.offset + Width(p.kind) <= s.offset \/ s.offset + Width(s.kind) <= p.offset
      <3>1. /\ e = <<e[1], e[2]>> /\ f = <<f[1], f[2]>>
            /\ e[1] \in Nat /\ e[2] \in Nat /\ f[1] \in Nat /\ f[2] \in Nat
        BY <2>2, RelocTypes DEF Typed
      <3>2. \/ e[1] < f[1] \/ (e[1] = f[1] /\ e[2] < f[2])
            \/ f[1] < e[1] \/ (f[1] = e[1] /\ f[2] < e[2])
        BY <2>2, <3>1
      <3>. QED
        BY <1>1, <1>2, <2>2, <2>3, <2>7, <3>2, SitesApart
    <2>8. s.section > p.section \/ (s.section = p.section /\ s.offset >= p.offset + Width(p.kind))
      BY <2>2, <2>3, <2>5, <2>6, <2>7 DEF SiteBefore
    <2>. QED
      BY <2>2, <2>3, <2>8
  <1>. QED
    BY <1>2, <1>4, <1>5, <1>6, <1>7, <1>8, <1>9 DEF ValidReloc

(* The object merged of the units is valid.                                *)
LEMMA ResultValid ==
    ASSUME Typed, Placement, Places, DefinedSoFar, ResolvedSoFar, EntrySoFar, Contents, Limits,
           Relocated
    PROVE  Valid(result)
  <1>1. /\ Merging /\ Resolving /\ Len(bases) = Len(objects) /\ objects # <<>>
        /\ result.relocs = InSiteOrder(MovedRelocs)
    BY DEF Merging, Resolving, Relocated, Places, Contents
  <1>2. 1 \in DOMAIN objects /\ bases # <<>>
    BY <1>1 DEF Typed
  <1>3. result.target \in {1, 2}
    <2>1. Valid(objects[1]) /\ result.target = objects[1].target
      BY <1>1, <1>2, Complete DEF AllValid, Limits
    <2>. QED
      BY <2>1 DEF Valid
  <1>4. /\ {d \in AllSymbols : d[1] <= Len(bases)} = AllSymbols
        /\ {d \in AllRelocs : d[1] <= Len(bases)} = AllRelocs
    <2>1. \A d \in AllSymbols : d[1] <= Len(objects)
      BY SymbolTypes DEF Typed
    <2>2. \A d \in AllRelocs : d[1] <= Len(objects)
      BY RelocTypes DEF Typed
    <2>. QED
      BY <1>1, <2>1, <2>2
  <1>5. Cardinality(AllSymbols) <= MAX_SYMBOLS /\ Cardinality(AllRelocs) <= MAX_RELOCS
    BY <1>2, <1>4 DEF Limits
  <1>6. Len(result.symbols) <= MAX_SYMBOLS
    <2>1. PICK S, T : S = AllSymbols /\ T = Definitions
      OBVIOUS
    <2>2. IsFiniteSet(S) /\ T \in SUBSET S
      BY <2>1, SymbolParts DEF Typed, Definitions
    <2>3. Cardinality(T) <= Cardinality(S) /\ IsFiniteSet(T)
      BY <2>2, FS_Subset
    <2>4. Cardinality(S) \in Nat /\ Cardinality(T) \in Nat /\ MAX_SYMBOLS \in Nat
      BY <2>2, <2>3, FS_CardinalityType, NxoAssumption
    <2>5. Len(result.symbols) = Cardinality(T)
      BY <1>1, <2>1 DEF DefinedSoFar, ListsOnce
    <2>. QED
      BY <1>5, <2>1, <2>3, <2>4, <2>5
  <1>7. Len(result.relocs) <= MAX_RELOCS
    BY <1>1, <1>5, Complete, RelocsMerged
  <1>8. ASSUME NEW k \in Sections PROVE Size(result, k) <= MAX_FILE
    <2>1. Size(result, k) = totals[k] /\ totals[k] <= LINK_BYTES /\ totals[k] \in Nat
      BY <1>1, ResultSize DEF Limits, Typed
    <2>. QED
      BY <2>1, LinkAssumption, NxoAssumption
  <1>. QED
    BY <1>3, <1>6, <1>7, <1>8, SymbolsValid, EntryValid, RelocsValid DEF Valid

(* Every step keeps the refusals justified.                                *)
LEMMA RefusalsStep ==
    ASSUME Typed, Placement, Places, DefinedSoFar, ResolvedSoFar, EntrySoFar, Contents, Limits,
           Refusals, [Next]_vars
    PROVE  Refusals'
  <1>. USE DEF Mismatches, Excuses
  <1>0. objects' = objects
    BY ObjectsKept
  <1>1. ASSUME error' = error, error # "none" => UNCHANGED <<totals, unit, output>> PROVE Refusals'
    BY <1>0, <1>1, Same DEF Refusals, OverLimit, Excused
  <1>2. CASE error' \in {"none", "link allocation failed"}
    BY <1>2 DEF Refusals, Excused
  <1>3. CASE Place /\ error' # error
    <2>1. error' = "unit" /\ UNCHANGED <<totals, unit>> /\ ~ Admissible(unit)
      BY <1>3 DEF Place, Fail
    <2>2. ~ Linkable(objects) \/ OverLimit
      BY <1>3, <2>1, PlaceRefused
    <2>. QED
      BY <1>0, <2>1, <2>2, Same DEF Refusals, OverLimit
  <1>4. CASE Define /\ error' = "duplicate symbol definition"
    <2>1. /\ Merging /\ error = "none"
      BY <1>4 DEF Define, Merging, Places
    <2>2. PICK n : n = Len(result.symbols) + 1
      OBVIOUS
    <2>3. n <= Len(order) /\ n > 1 /\ Symbol(order[n - 1]).name = Symbol(order[n]).name
      BY <1>4, <2>1, <2>2 DEF Define, Fail
    <2>4. n \in DOMAIN order
      BY <2>1, <2>2, <2>3, Lengths
    <2>5. ~ Linkable(objects)
      BY <1>4, <2>3, <2>4, DefineRefused
    <2>. QED
      BY <1>0, <1>4, <2>5 DEF Refusals
  <1>5. CASE Resolve /\ error' \in {"unresolved import or definition not exported",
                                    "import kind or canonical contract mismatch"}
    <2>1. unit \in DOMAIN objects /\ Resolving /\ error = "none"
      BY <1>5, ResolveParts DEF Places, Resolve
    <2>2. \E j \in ImportsOf(unit) : ~ Exported(SymbolsOf(unit)[j]) \/ ~ Matches(SymbolsOf(unit)[j])
      BY <1>5, <2>1 DEF Resolve, Fail
    <2>3. ~ Linkable(objects)
      BY <2>1, <2>2, ImportRefused
    <2>. QED
      BY <1>0, <1>5, <2>3 DEF Refusals
  <1>6. pc \notin {"discard", "done"} => error = "none"
    BY DEF Places
  <1>7. CASE Allocate \/ Copy \/ Defined \/ Relocate
    BY <1>2, <1>6, <1>7 DEF Allocate, Copy, Defined, Relocate, Fail
  <1>8. CASE Discard \/ UNCHANGED vars
    BY <1>1, <1>8 DEF Discard, vars
  <1>9. CASE Place /\ error' = error
    BY <1>2, <1>6, <1>9 DEF Place
  <1>10. CASE Define /\ error' # "duplicate symbol definition"
    BY <1>2, <1>6, <1>10 DEF Define, Fail
  <1>11. CASE Resolve /\ error' \notin {"unresolved import or definition not exported",
                                        "import kind or canonical contract mismatch"}
    BY <1>2, <1>6, <1>11 DEF Resolve, Fail
  <1>12. CASE Start
    <2>1. error = "none" /\ output' = output
      BY <1>6, <1>12 DEF Start
    <2>2. Len(objects) \in Nat /\ (objects = <<>> => Len(objects) = 0) /\ MAX_UNITS \in Nat
      BY LinkAssumption DEF Typed
    <2>3. CASE error' = "invalid link unit count" /\ (objects = <<>> \/ Len(objects) > MAX_UNITS)
      <3>1. PICK n : n = Len(objects)
        OBVIOUS
      <3>2. n = 0 \/ n > MAX_UNITS
        BY <2>2, <2>3, <3>1
      <3>4. n \in Nat /\ MAX_UNITS \in Nat
        BY <2>2, <3>1
      <3>5. n \notin 1 .. MAX_UNITS
        BY <3>2, <3>4
      <3>3. Excused'
        BY <1>0, <3>1, <3>5 DEF Excused
      <3>. QED
        BY <2>3, <3>3 DEF Refusals
    <2>4. CASE error' = "link output must be empty" /\ output # EmptyObject
      <3>1. Excused'
        BY <2>1, <2>4 DEF Excused
      <3>. QED
        BY <2>4, <3>1 DEF Refusals
    <2>. QED
      BY <1>2, <1>12, <2>1, <2>3, <2>4 DEF Start, Fail
  <1>13. CASE Placed
    <2>1. error = "none" /\ totals' = totals
      BY <1>6, <1>13 DEF Placed
    <2>2. CASE error' = "linked payload limit" /\ totals[TEXT] + totals[RDATA] + totals[DATA] > LINK_BYTES
      <3>1. Excused'
        BY <2>1, <2>2 DEF Excused
      <3>. QED
        BY <2>2, <3>1 DEF Refusals
    <2>. QED
      BY <1>2, <1>13, <2>1, <2>2 DEF Placed, Fail
  <1>14. CASE Finish
    <2>1. Valid(result)
      BY <1>14, ResultValid DEF Finish, Relocated
    <2>. QED
      BY <1>2, <1>6, <1>14, <2>1 DEF Finish
  <1>. QED
    BY <1>3, <1>4, <1>5, <1>7, <1>8, <1>9, <1>10, <1>11, <1>12, <1>13, <1>14 DEF Next

-----------------------------------------------------------------------------
(* What the invariant says of a finished link.                             *)

(* What has been linked can be.                                            *)
LEMMA LinkedLinkable ==
    ASSUME Typed, Placement, Places, DefinedSoFar, ResolvedSoFar, Linked
    PROVE  Linkable(objects)
  <1>1. Merging /\ Resolving /\ Relocated /\ Len(bases) = Len(objects) /\ objects # <<>>
    BY DEF Merging, Resolving, Relocated, Places
  <1>2. AllValid /\ DOMAIN bases = DOMAIN objects
    BY <1>1, Complete
  <1>3. Cardinality({objects[i].target : i \in DOMAIN objects}) = 1
    <2>1. PICK T, t : T = {objects[i].target : i \in DOMAIN objects} /\ t = objects[1].target
      OBVIOUS
    <2>2. 1 \in DOMAIN objects
      BY <1>1 DEF Typed
    <2>3. \A i \in DOMAIN objects : objects[i].target = t
      BY <1>2, <2>1 DEF Placement
    <2>4. T = {t}
      BY <2>1, <2>2, <2>3
    <2>. QED
      BY <2>1, <2>4, FS_Singleton
  <1>4. Cardinality({i \in DOMAIN objects : objects[i].entry # 0}) <= 1
    <2>1. PICK S : S = {i \in DOMAIN objects : objects[i].entry # 0}
      OBVIOUS
    <2>2. \A x, y \in S : x = y
      BY <1>2, <2>1 DEF Placement
    <2>3. CASE S = {}
      BY <2>1, <2>3, FS_EmptySet
    <2>4. CASE S # {}
      <3>1. PICK x : S = {x}
        BY <2>2, <2>4
      <3>2. Cardinality(S) = 1
        BY <3>1, FS_Singleton
      <3>. QED
        BY <2>1, <3>2
    <2>. QED
      BY <2>3, <2>4
  <1>5. ASSUME NEW d \in Definitions, NEW e \in Definitions, Symbol(d).name = Symbol(e).name
        PROVE  d = e
    <2>1. order[Find(Symbol(d).name)] = d /\ order[Find(Symbol(e).name)] = e
      BY <1>1, Found
    <2>. QED
      BY <1>5, <2>1
  <1>6. ASSUME NEW d \in AllSymbols \ Definitions
        PROVE  \E e \in Definitions :
                      /\ Symbol(e).export
                      /\ Symbol(e).name = Symbol(d).name /\ Symbol(e).kind = Symbol(d).kind
                      /\ Symbol(e).contract = Symbol(d).contract
    <2>1. PICK i, j : i = d[1] /\ j = d[2]
      OBVIOUS
    <2>2. /\ i \in DOMAIN objects /\ j \in DOMAIN SymbolsOf(i) /\ Symbol(d) = SymbolsOf(i)[j]
          /\ SymbolsOf(i)[j].import
      BY <2>1, SymbolTypes DEF Symbol, Definitions, Typed
    <2>3. PICK r : r = result.symbols[map[<<i, j>>]]
      OBVIOUS
    <2>4. /\ r.name = Symbol(d).name /\ r.contract = Symbol(d).contract /\ r.kind = Symbol(d).kind
          /\ r.export /\ \E e \in Definitions : r = Moved(e)
      BY <1>1, <2>2, <2>3, MappedWell
    <2>5. PICK e \in Definitions : r = Moved(e)
      BY <2>4
    <2>6. /\ r.name = Symbol(e).name /\ r.contract = Symbol(e).contract /\ r.kind = Symbol(e).kind
          /\ r.export = Symbol(e).export
      BY <1>1, <2>5, MovedParts
    <2>. QED
      BY <2>4, <2>6
  <1>. QED
    BY <1>2, <1>3, <1>4, <1>5, <1>6, LinkableParts

(* The invariant gives the second property.                                *)
LEMMA InvariantSucceeds ==
    ASSUME IInv PROVE SucceedsExactly
  <1>1. Linked => Linkable(objects)
    BY LinkedLinkable DEF IInv
  <1>2. pc = "done" /\ Linkable(objects) => Linked \/ Excused
    BY DEF IInv, Refusals, Linked, Excused
  <1>. QED
    BY <1>1, <1>2 DEF SucceedsExactly

(* A unit's bytes are where the unit was placed.                           *)
LEMMA BytesKept ==
    ASSUME Typed, Placement, Len(bases) = Len(objects),
           NEW i \in DOMAIN objects, NEW k \in Sections,
           NEW x \in 1 .. Size(objects[i], k)
    PROVE  /\ bases[i][k] + x \in 1 .. totals[k]
           /\ ByteAt(k, bases[i][k] + x) = objects[i].sections[k][x]
  <1>1. DOMAIN bases = DOMAIN objects
    BY Complete
  <1>2. \A j \in DOMAIN objects : bases[j][k] \in Nat /\ Size(objects[j], k) \in Nat /\ j \in Nat
    BY <1>1, UnitTypes DEF Typed
  <1>3. PICK b, z : b = [j \in DOMAIN objects |-> bases[j][k]]
                    /\ z = [j \in DOMAIN objects |-> Size(objects[j], k)]
    OBVIOUS
  <1>4. \A j \in DOMAIN objects : /\ b[j] = bases[j][k] /\ z[j] = Size(objects[j], k)
                                  /\ b[j] \in Nat /\ z[j] \in Nat /\ j \in Nat
    BY <1>2, <1>3
  <1>5. \A j, m \in DOMAIN objects : j < m => b[j] + z[j] <= b[m]
    BY <1>1, <1>4, SMTT(30) DEF Placement
  <1>6. b[i] + z[i] <= totals[k] /\ totals[k] \in Nat
    BY <1>1, <1>4 DEF Placement, Typed
  <1>7. x \in Nat /\ 1 <= x /\ x <= z[i]
    BY <1>4
  <1>8. PICK y : y = b[i] + x
    OBVIOUS
  <1>9. y \in Nat /\ y >= 1 /\ y <= totals[k] /\ y > b[i] /\ y <= b[i] + z[i] /\ y - b[i] = x
    BY <1>4, <1>6, <1>7, <1>8
  <1>10. ASSUME NEW j \in DOMAIN objects, y > b[j], y <= b[j] + z[j]
         PROVE  j = i
    <2>1. ~ (j < i)
      BY <1>4, <1>5, <1>9, <1>10
    <2>2. ~ (i < j)
      BY <1>4, <1>5, <1>9, <1>10
    <2>. QED
      BY <1>4, <2>1, <2>2
  <1>11. {j \in DOMAIN objects : y > bases[j][k] /\ y <= bases[j][k] + Size(objects[j], k)} = {i}
    BY <1>4, <1>9, <1>10
  <1>12. ByteAt(k, y) = objects[i].sections[k][y - bases[i][k]]
    BY <1>11 DEF ByteAt
  <1>. QED
    BY <1>4, <1>6, <1>8, <1>9, <1>12, SMTT(30)

(* A unit's bytes are in the result at the unit's place.                   *)
LEMMA SectionsKept ==
    ASSUME Typed, Placement, Len(bases) = Len(objects), Contents, Merging,
           NEW i \in DOMAIN objects, NEW k \in Sections
    PROVE  SubSeq(result.sections[k], bases[i][k] + 1, bases[i][k] + Size(objects[i], k))
               = objects[i].sections[k]
  <1>1. PICK b, z, s, t : /\ b = bases[i][k] /\ z = Size(objects[i], k)
                          /\ s = result.sections[k] /\ t = objects[i].sections[k]
    OBVIOUS
  <1>2. DOMAIN bases = DOMAIN objects
    BY Complete
  <1>3. b \in Nat /\ z \in Nat /\ t \in Seq(Nat) /\ Len(t) = z
    <2>1. b \in Nat
      BY <1>1, <1>2 DEF Typed
    <2>2. objects[i] \in Objects
      BY DEF Typed
    <2>. QED
      BY <1>1, <2>1, <2>2, ObjectParts DEF Size
  <1>4. s = [x \in 1 .. totals[k] |-> ByteAt(k, x)]
    BY <1>1 DEF Contents
  <1>5. ASSUME NEW x \in 1 .. z PROVE s[b + x] = t[x]
    BY <1>1, <1>4, BytesKept
  <1>6. ASSUME NEW y \in b + 1 .. b + z PROVE s[y] \in Nat
    <2>1. PICK x : x = y - b
      OBVIOUS
    <2>2. x \in 1 .. z /\ y = b + x
      BY <1>3, <2>1
    <2>3. t[x] \in Nat
      BY <1>3, <2>2
    <2>. QED
      BY <1>5, <2>2, <2>3
  <1>7. PICK u, lo, hi : u = SubSeq(s, lo, hi) /\ lo = b + 1 /\ hi = b + z
    OBVIOUS
  <1>8. lo \in Int /\ hi \in Int
    BY <1>3, <1>7
  <1>9. /\ u \in Seq(Nat) /\ Len(u) = IF lo <= hi THEN hi - lo + 1 ELSE 0
        /\ \A x \in 1 .. hi - lo + 1 : u[x] = s[lo + x - 1]
    <2>1. u = SubSeq(s, lo, hi) /\ \A y \in lo .. hi : s[y] \in Nat
      BY <1>6, <1>7
    <2>. QED
      BY <1>8, <2>1, SubSeqProperties, SMTT(30)
  <1>10. Len(u) = z /\ hi - lo + 1 = z
    BY <1>3, <1>7, <1>9
  <1>11. ASSUME NEW x \in 1 .. Len(u) PROVE u[x] = t[x]
    <2>1. x \in 1 .. z /\ lo + x - 1 = b + x
      BY <1>3, <1>7, <1>10
    <2>. QED
      BY <1>5, <1>9, <1>10, <2>1
  <1>12. u = t
    BY <1>3, <1>9, <1>10, <1>11, SeqEqual
  <1>. QED
    BY <1>1, <1>7, <1>12

(* The invariant gives the third property.                                 *)
LEMMA InvariantReaches ==
    ASSUME IInv PROVE SitesReachNames
  <1>. SUFFICES ASSUME Linked PROVE SitesReachNames
    BY DEF SitesReachNames
  <1>1. /\ Typed /\ Placement /\ Places /\ DefinedSoFar /\ ResolvedSoFar /\ EntrySoFar /\ Contents
        /\ Merging /\ Resolving /\ Relocated /\ Len(bases) = Len(objects) /\ output = result
        /\ unit > Len(objects)
    BY DEF IInv, Merging, Resolving, Relocated, Places
  <1>2. AllValid
    BY <1>1, Complete
  <1>3. \A i \in DOMAIN objects : i < unit
    BY <1>1 DEF Typed
  <1>5. ASSUME NEW i \in DOMAIN objects, objects[i].entry # 0
        PROVE  output.symbols[output.entry].name = SymbolsOf(i)[objects[i].entry].name
    <2>1. PICK e : e = objects[i].entry
      OBVIOUS
    <2>2. output.entry = map[<<i, e>>]
      BY <1>1, <1>3, <1>5, <2>1 DEF EntrySoFar
    <2>3. e \in DOMAIN SymbolsOf(i)
      <3>1. objects[i] \in Objects /\ ValidEntry(objects[i])
        BY <1>1, <1>2 DEF AllValid, Valid, Typed
      <3>. QED
        BY <1>5, <2>1, <3>1, ObjectParts DEF ValidEntry, SymbolsOf
    <2>4. PICK r : r = result.symbols[map[<<i, e>>]]
      OBVIOUS
    <2>5. r.name = SymbolsOf(i)[e].name
      BY <1>1, <2>3, <2>4, MappedWell
    <2>. QED
      BY <1>1, <2>1, <2>2, <2>4, <2>5
  <1>6. Len(output.relocs) = Cardinality(AllRelocs)
    BY <1>1, <1>2, RelocsMerged DEF Contents
  <1>7. ASSUME NEW i \in DOMAIN objects, NEW k \in Sections
        PROVE  SubSeq(output.sections[k], bases[i][k] + 1, bases[i][k] + Size(objects[i], k))
                   = objects[i].sections[k]
    BY <1>1, SectionsKept
  <1>8. ASSUME NEW i \in DOMAIN objects, NEW j \in DOMAIN RelocsOf(i)
        PROVE  LET r == RelocsOf(i)[j]
                   s == SymbolsOf(i)[r.target]
               IN  \E q \in {output.relocs[n] : n \in DOMAIN output.relocs} :
                     LET d == output.symbols[q.target] IN
                     /\ q.section = r.section /\ q.offset = r.offset + bases[i][r.section]
                     /\ q.kind = r.kind /\ q.addend = r.addend
                     /\ d.name = s.name /\ d.contract = s.contract /\ d.kind = s.kind
                     /\ IF s.import THEN d.export
                        ELSE d.offset = s.offset + bases[i][s.section]
    <2>1. PICK d, r, s, b, q, m : /\ d = <<i, j>> /\ r = RelocsOf(i)[j] /\ s = SymbolsOf(i)[r.target]
                                  /\ b = bases[i][r.section] /\ q = MovedRelocs[d]
                                  /\ m = map[<<i, r.target>>]
      OBVIOUS
    <2>2. d \in AllRelocs /\ d[1] = i /\ d[2] = j
      BY <2>1 DEF AllRelocs
    <2>3. r \in RelocRecords /\ r.target \in DOMAIN SymbolsOf(i)
      BY <1>1, <1>2, <2>1, <2>2, RelocTypes, RelocSections DEF Typed
    <2>4. q = [r EXCEPT !.offset = @ + b, !.target = m]
      BY <2>1, <2>2 DEF MovedRelocs, MovedReloc
    <2>5. /\ q.section = r.section /\ q.offset = r.offset + b /\ q.kind = r.kind
          /\ q.addend = r.addend /\ q.target = m
      BY <2>3, <2>4 DEF RelocRecords
    <2>6. PICK t : t = result.symbols[m]
      OBVIOUS
    <2>7. /\ t.name = s.name /\ t.contract = s.contract /\ t.kind = s.kind
          /\ IF s.import THEN t.export ELSE t.offset = s.offset + bases[i][s.section]
      BY <1>1, <2>1, <2>3, <2>6, MappedWell
    <2>8. \E n \in DOMAIN output.relocs : output.relocs[n] = q
      BY <1>1, <1>2, <2>1, <2>2, RelocsMerged, SMTT(30) DEF Contents
    <2>9. q \in {output.relocs[n] : n \in DOMAIN output.relocs}
      BY <2>8
    <2>. QED
      BY <1>1, <2>1, <2>5, <2>6, <2>7, <2>9
  <1>9. IF \A i \in DOMAIN objects : objects[i].entry = 0 THEN output.entry = 0
        ELSE \E i \in DOMAIN objects :
               /\ objects[i].entry # 0
               /\ output.symbols[output.entry].name = SymbolsOf(i)[objects[i].entry].name
    <2>1. (\A i \in DOMAIN objects : objects[i].entry = 0) => output.entry = 0
      BY <1>1, <1>3 DEF EntrySoFar
    <2>. QED
      BY <1>5, <2>1
  <1>. QED
    BY <1>6, <1>7, <1>8, <1>9 DEF SitesReachNames

(* The invariant holds before the call.                                    *)
LEMMA InvariantInit ==
    ASSUME Init PROVE IInv
  <1>1. /\ pc = "start" /\ unit = 1 /\ bases = <<>> /\ result = EmptyObject /\ live = {}
        /\ error = "none" /\ totals = [k \in Sections |-> 0] /\ objects \in Arguments
    BY DEF Init
  <1>2. Typed
    <2>1. Shaped(EmptyObject)
      BY DEF Shaped, EmptyObject
    <2>2. bases \in Seq([Sections -> Nat])
      BY <1>1
    <2>. QED
      BY <1>1, <2>1, <2>2, ArgumentsAssumption DEF Typed
  <1>3. DOMAIN bases = {}
    BY <1>1
  <1>4. Placement
    BY <1>3 DEF Placement
  <1>5. Places
    BY <1>1 DEF Places, Failed, Starting, Merging, Relocated, Linked
  <1>6. Heap
    BY <1>1 DEF Heap, NothingLeaks
  <1>7. ~ Merging /\ ~ Resolving /\ ~ Defining /\ ~ Relocated
    BY <1>1 DEF Merging, Resolving, Defining, Relocated, Linked
  <1>8. DefinedSoFar /\ ResolvedSoFar /\ EntrySoFar /\ Contents
    BY <1>7 DEF DefinedSoFar, ResolvedSoFar, EntrySoFar, Contents
  <1>9. Refusals
    BY <1>1 DEF Refusals, Mismatches, Excuses
  <1>10. Limits
    BY <1>1, <1>7, LinkAssumption DEF Limits
  <1>. QED
    BY <1>2, <1>4, <1>5, <1>6, <1>8, <1>9, <1>10 DEF IInv

(* Every step keeps the invariant.                                         *)
LEMMA InvariantStep ==
    ASSUME IInv, [Next]_vars PROVE IInv'
  <1>1. /\ Typed /\ Placement /\ Places /\ Heap /\ DefinedSoFar /\ ResolvedSoFar
        /\ EntrySoFar /\ Contents /\ Limits /\ Refusals
    BY DEF IInv
  <1>2. Typed' /\ Placement' /\ Places'
    BY <1>1, TypedStep, PlacementStep, PlacesStep
  <1>3. Heap' /\ DefinedSoFar' /\ ResolvedSoFar'
    BY <1>1, HeapStep, DefinedStep, ResolvedStep
  <1>4. EntrySoFar' /\ Contents' /\ Limits' /\ Refusals'
    BY <1>1, EntryStep, ContentsStep, LimitsStep, RefusalsStep
  <1>. QED
    BY <1>2, <1>3, <1>4 DEF IInv

-----------------------------------------------------------------------------

(* Whatever objects are linked and whichever allocation fails, the scratch *)
(* arrays never outlive the call, a failed call leaves no block, and the   *)
(* caller owns what a linked object is made of.                            *)
THEOREM LinkLeaksNothing == Spec => []NothingLeaks
  <1>1. Init => IInv
    BY InvariantInit
  <1>2. IInv /\ [Next]_vars => IInv'
    BY InvariantStep
  <1>3. IInv => NothingLeaks
    BY DEF IInv, Heap
  <1>. QED
    BY <1>1, <1>2, <1>3, PTL DEF Spec

(* Whatever is linked could be, and units that can be linked are, unless   *)
(* the arguments, a limit or an allocation stops them: the check of the    *)
(* result at the end refuses nothing.                                      *)
THEOREM LinkSucceedsExactly == Spec => []SucceedsExactly
  <1>1. Init => IInv
    BY InvariantInit
  <1>2. IInv /\ [Next]_vars => IInv'
    BY InvariantStep
  <1>3. IInv => SucceedsExactly
    BY InvariantSucceeds
  <1>. QED
    BY <1>1, <1>2, <1>3, PTL DEF Spec

(* The bytes, the sites and the entry of every unit are in the output,     *)
(* where its bases say, naming what the unit meant.                        *)
THEOREM LinkReachesNames == Spec => []SitesReachNames
  <1>1. Init => IInv
    BY InvariantInit
  <1>2. IInv /\ [Next]_vars => IInv'
    BY InvariantStep
  <1>3. IInv => SitesReachNames
    BY InvariantReaches
  <1>. QED
    BY <1>1, <1>2, <1>3, PTL DEF Spec

-----------------------------------------------------------------------------
(* Object files.                                                           *)

(* What holds of 0 and of each number after one it holds of, as a set of   *)
(* numbers it does not hold of would have a least.                         *)
LEMMA NoLeast ==
    ASSUME NEW Bad \in SUBSET Nat, 0 \notin Bad, \A n \in Nat : n \notin Bad => n + 1 \notin Bad
    PROVE  Bad = {}
  <1>. SUFFICES ASSUME Bad # {} PROVE FALSE
    OBVIOUS
  <1>1. PICK n \in Bad : \A m \in Bad : ~ (m < n)
    <2>1. IsWellFoundedOn(OpToRel(<, Nat), Nat)
      BY NatLessThanWellFounded
    <2>2. PICK n \in Bad : \A m \in Bad : ~ (<<m, n>> \in OpToRel(<, Nat))
      BY <2>1, WFMin
    <2>. QED
      BY <2>2 DEF OpToRel
  <1>2. n - 1 \in Nat /\ n - 1 < n /\ (n - 1) + 1 = n
    BY <1>1
  <1>. QED
    BY <1>1, <1>2

(* f lays the first n of the sequences T end to end.                       *)
LaysOut(f, T, n) == f = [i \in 1 .. n |-> IF i = 1 THEN T[i] ELSE f[i - 1] \o T[i]]

LEMMA LayoutAt ==
    ASSUME NEW T, NEW n, NEW f, LaysOut(f, T, n)
    PROVE  /\ DOMAIN f = 1 .. n
           /\ \A i \in 1 .. n : f[i] = IF i = 1 THEN T[i] ELSE f[i - 1] \o T[i]
  <1>. DEFINE e(i) == IF i = 1 THEN T[i] ELSE f[i - 1] \o T[i]
  <1>1. f = [i \in 1 .. n |-> e(i)]
    BY DEF LaysOut
  <1>2. DOMAIN f = 1 .. n /\ \A i \in 1 .. n : f[i] = e(i)
    <2>. HIDE DEF e
    <2>. QED
      BY <1>1
  <1>. QED
    BY <1>2

LEMMA LayoutExists ==
    ASSUME NEW T, NEW n \in Nat
    PROVE  \E f : LaysOut(f, T, n)
  <1>. DEFINE Bad == {m \in Nat : ~ \E f : LaysOut(f, T, m)}
  <1>1. 0 \notin Bad
    <2>1. LaysOut([i \in 1 .. 0 |-> 0], T, 0)
      BY DEF LaysOut
    <2>. QED
      BY <2>1
  <1>2. ASSUME NEW m \in Nat, m \notin Bad PROVE m + 1 \notin Bad
    <2>1. PICK f : LaysOut(f, T, m)
      BY <1>2
    <2>0. \A i \in 1 .. m : f[i] = IF i = 1 THEN T[i] ELSE f[i - 1] \o T[i]
      BY <2>1, LayoutAt
    <2>. DEFINE g == [i \in 1 .. m + 1 |-> IF i = 1 THEN T[i] ELSE f[i - 1] \o T[i]]
    <2>2. \A i \in 1 .. m : g[i] = f[i]
      BY <2>0
    <2>3. \A i \in 1 .. m + 1 : i # 1 => i - 1 \in 1 .. m
      OBVIOUS
    <2>4. \A i \in 1 .. m + 1 : i # 1 => g[i - 1] = f[i - 1]
      <3>. HIDE DEF g
      <3>. QED
        BY <2>2, <2>3
    <2>5. LaysOut(g, T, m + 1)
      BY <2>4 DEF LaysOut
    <2>. QED
      BY <2>5
  <1>3. Bad = {}
    <2>. HIDE DEF Bad
    <2>0. Bad \in SUBSET Nat
      BY DEF Bad
    <2>. QED
      BY <2>0, <1>1, <1>2, NoLeast
  <1>. QED
    BY <1>3

(* There is one way to do so, and it is the same for fewer of them.        *)
LEMMA LayoutUnique ==
    ASSUME NEW T, NEW U, NEW n \in Nat, NEW m \in Nat, m <= n, \A i \in 1 .. m : T[i] = U[i],
           NEW f, LaysOut(f, T, m), NEW g, LaysOut(g, U, n)
    PROVE  \A i \in 1 .. m : f[i] = g[i]
  <1>. DEFINE Bad == {i \in Nat : i \in 1 .. m /\ f[i] # g[i]}
  <1>1. 0 \notin Bad
    OBVIOUS
  <1>2. ASSUME NEW i \in Nat, i \notin Bad PROVE i + 1 \notin Bad
    <2>1. SUFFICES ASSUME i + 1 \in 1 .. m PROVE f[i + 1] = g[i + 1]
      OBVIOUS
    <2>2. /\ f[i + 1] = IF i + 1 = 1 THEN T[i + 1] ELSE f[i + 1 - 1] \o T[i + 1]
          /\ g[i + 1] = IF i + 1 = 1 THEN U[i + 1] ELSE g[i + 1 - 1] \o U[i + 1]
      BY <2>1, LayoutAt
    <2>3. i + 1 - 1 = i /\ (i + 1 # 1 => i \in 1 .. m)
      BY <2>1
    <2>4. i + 1 # 1 => f[i] = g[i]
      BY <2>3, <1>2
    <2>. QED
      BY <2>1, <2>2, <2>3, <2>4
  <1>3. Bad = {}
    <2>. HIDE DEF Bad
    <2>0. Bad \in SUBSET Nat
      BY DEF Bad
    <2>. QED
      BY <2>0, <1>1, <1>2, NoLeast
  <1>. QED
    BY <1>3

Agree(T, U, m) == \A i \in 1 .. m : T[i] = U[i]

LEMMA LayoutChosen ==
    ASSUME NEW T, NEW U, NEW n \in Nat, NEW m \in Nat, 0 < m, m <= n, Agree(T, U, m),
           NEW f, LaysOut(f, U, n)
    PROVE  (CHOOSE g : LaysOut(g, T, m))[m] = f[m]
  <1>1. PICK g : g = (CHOOSE h : LaysOut(h, T, m)) /\ LaysOut(g, T, m)
    <2>1. \E h : LaysOut(h, T, m)
      BY LayoutExists
    <2>. QED
      BY <2>1
  <1>2. g[m] = f[m]
    <2>1. LaysOut(g, T, m)
      BY <1>1
    <2>2. \A i \in 1 .. m : g[i] = f[i]
      <3>1. \A i \in 1 .. m : T[i] = U[i]
        BY DEF Agree
      <3>. QED
        BY <2>1, <3>1, LayoutUnique
    <2>. QED
      BY <2>2
  <1>. QED
    BY <1>1, <1>2

LEMMA Flattened ==
    ASSUME NEW T, NEW m \in Nat, 0 < m, Len(T) = m
    PROVE  File!FlattenSeq(T) = (CHOOSE g : LaysOut(g, T, m))[m]
BY DEF File!FlattenSeq, LaysOut

(* The texts of the first symbols, in front of those of one more.          *)
Before(s, j) == File!Strings(SubSeq(s, 1, j))
Readable(s) == \A j \in DOMAIN s : File!TextsOf(s[j]) \in Seq(Nat)
Row(s) == [j \in DOMAIN s |-> File!TextsOf(s[j])]
Long(s, n) == n \in Nat /\ Len(s) = n /\ \E S : s \in Seq(S)

LEMMA PrefixTexts ==
    ASSUME NEW s, NEW n \in Nat, Long(s, n), NEW j \in Nat, 0 < j, j <= n
    PROVE  /\ Before(s, j) = File!FlattenSeq(Row(SubSeq(s, 1, j)))
           /\ Len(Row(SubSeq(s, 1, j))) = j
           /\ \A i \in 1 .. j : Row(SubSeq(s, 1, j))[i] = Row(s)[i]
  <1>. DEFINE p == SubSeq(s, 1, j)
              T == [i \in DOMAIN p |-> File!TextsOf(p[i])]
              X == {T[i] : i \in 1 .. j}
  <1>. PICK S : s \in Seq(S)
    BY DEF Long
  <1>0. Len(s) = n /\ DOMAIN s = 1 .. n
    BY DEF Long
  <1>1. p \in Seq(S) /\ Len(p) = j /\ DOMAIN p = 1 .. j /\ \A i \in 1 .. j : p[i] = s[i]
    BY <1>0, SubSeqProperties
  <1>2. Len(T) = j
    <2>1. T \in [1 .. j -> X]
      BY <1>1
    <2>3. \A g \in [1 .. j -> X] : g \in Seq(X) /\ Len(g) = j
      <3>. HIDE DEF X
      <3>1. \A g \in [1 .. j -> X] : g \in Seq(X)
        BY SeqDef
      <3>. QED
        BY <3>1, LenProperties
    <2>. HIDE DEF X, T
    <2>. QED
      BY <2>1, <2>3
  <1>3. \A i \in 1 .. j : T[i] = Row(s)[i]
    BY <1>0, <1>1 DEF Row
  <1>. QED
    BY <1>2, <1>3 DEF Row, File!Strings, Before

LEMMA BeforeIs ==
    ASSUME NEW s, NEW n \in Nat, Long(s, n), NEW j \in Nat, 0 < j, j <= n, NEW f, LaysOut(f, Row(s), n)
    PROVE  Before(s, j) = f[j]
  <1>1. PICK T : T = Row(SubSeq(s, 1, j))
    OBVIOUS
  <1>2. Before(s, j) = File!FlattenSeq(T) /\ Len(T) = j /\ \A i \in 1 .. j : T[i] = Row(s)[i]
    BY <1>1, PrefixTexts
  <1>3. File!FlattenSeq(T) = (CHOOSE g : LaysOut(g, T, j))[j]
    BY <1>2, Flattened
  <1>4. (CHOOSE g : LaysOut(g, T, j))[j] = f[j]
    <2>1. PICK U : U = Row(s)
      OBVIOUS
    <2>2. Agree(T, U, j) /\ LaysOut(f, U, n)
      BY <1>2, <2>1 DEF Agree
    <2>. QED
      BY <2>2, LayoutChosen
  <1>. QED
    BY <1>2, <1>3, <1>4

LEMMA NothingBefore == ASSUME NEW s PROVE Before(s, 0) = <<>>
  <1>1. SubSeq(s, 1, 0) = <<>>
    BY SubSeqEmpty
  <1>2. File!Strings(<<>>) = File!FlattenSeq(<<>>)
    <2>1. [j \in DOMAIN <<>> |-> File!TextsOf(<<>>[j])] = <<>>
      OBVIOUS
    <2>. QED
      BY <2>1 DEF File!Strings
  <1>. QED
    BY <1>1, <1>2 DEF Before, File!FlattenSeq

LEMMA TextMore ==
    ASSUME NEW s, NEW n \in Nat, Long(s, n), Readable(s), NEW j \in Nat, 0 < j, j <= n
    PROVE  Before(s, j) = Before(s, j - 1) \o File!TextsOf(s[j])
  <1>1. PICK f : LaysOut(f, Row(s), n)
    BY LayoutExists
  <1>0. j \in DOMAIN s /\ Row(s)[j] = File!TextsOf(s[j])
    BY DEF Long, Row
  <1>2. f[j] = IF j = 1 THEN Row(s)[j] ELSE f[j - 1] \o Row(s)[j]
    BY <1>1, LayoutAt
  <1>3. Before(s, j) = f[j]
    BY <1>1, BeforeIs
  <1>4. CASE j = 1
    <2>1. <<>> \o File!TextsOf(s[j]) = File!TextsOf(s[j])
      BY <1>0, ConcatEmptySeq DEF Readable
    <2>2. Before(s, j - 1) = <<>>
      BY <1>4, NothingBefore
    <2>. QED
      BY <1>4, <1>0, <1>2, <1>3, <2>1, <2>2
  <1>5. CASE j # 1
    <2>1. j - 1 \in Nat /\ 0 < j - 1 /\ j - 1 <= n
      BY <1>5
    <2>2. Before(s, j - 1) = f[j - 1]
      BY <1>1, <2>1, BeforeIs
    <2>. QED
      BY <1>5, <1>0, <1>2, <1>3, <2>2
  <1>. QED
    BY <1>4, <1>5

(* The table of the first texts is a sequence of numbers, one text longer  *)
(* than that of one less.                                                  *)
Laid(s, j) ==
    /\ Before(s, j - 1) \in Seq(Nat) /\ Before(s, j) \in Seq(Nat) /\ Len(Before(s, j - 1)) \in Nat
    /\ File!TextsOf(s[j]) \in Seq(Nat) /\ Len(File!TextsOf(s[j])) \in Nat
    /\ Len(Before(s, j)) = Len(Before(s, j - 1)) + Len(File!TextsOf(s[j]))
    /\ \A x \in 1 .. Len(Before(s, j - 1)) : Before(s, j)[x] = Before(s, j - 1)[x]
    /\ \A x \in 1 .. Len(File!TextsOf(s[j])) :
          Before(s, j)[Len(Before(s, j - 1)) + x] = File!TextsOf(s[j])[x]

LEMMA TextAdded ==
    ASSUME NEW s, NEW n \in Nat, Long(s, n), Readable(s), NEW j \in Nat, 0 < j, j <= n,
           Before(s, j - 1) \in Seq(Nat)
    PROVE  Laid(s, j)
  <1>1. Before(s, j) = Before(s, j - 1) \o File!TextsOf(s[j])
    BY TextMore
  <1>2. File!TextsOf(s[j]) \in Seq(Nat)
    BY DEF Long, Readable
  <1>3. ASSUME NEW p \in Seq(Nat), NEW q \in Seq(Nat)
        PROVE  /\ p \o q \in Seq(Nat) /\ Len(p) \in Nat /\ Len(q) \in Nat /\ Len(p \o q) = Len(p) + Len(q)
               /\ \A x \in 1 .. Len(p) : (p \o q)[x] = p[x]
               /\ \A x \in 1 .. Len(q) : (p \o q)[Len(p) + x] = q[x]
    <2>1. /\ p \o q \in Seq(Nat) /\ Len(p \o q) = Len(p) + Len(q)
          /\ \A i \in 1 .. Len(p) + Len(q) : (p \o q)[i] = IF i <= Len(p) THEN p[i] ELSE q[i - Len(p)]
      BY ConcatProperties
    <2>2. Len(p) \in Nat /\ Len(q) \in Nat
      OBVIOUS
    <2>3. ASSUME NEW x \in 1 .. Len(p) PROVE (p \o q)[x] = p[x]
      <3>1. x \in 1 .. Len(p) + Len(q) /\ x <= Len(p)
        BY <2>2
      <3>. QED
        BY <2>1, <3>1
    <2>4. ASSUME NEW x \in 1 .. Len(q) PROVE (p \o q)[Len(p) + x] = q[x]
      <3>1. Len(p) + x \in 1 .. Len(p) + Len(q) /\ ~ (Len(p) + x <= Len(p)) /\ Len(p) + x - Len(p) = x
        BY <2>2
      <3>. QED
        BY <2>1, <3>1
    <2>. QED
      BY <2>1, <2>2, <2>3, <2>4
  <1>. DEFINE p == Before(s, j - 1)
              q == File!TextsOf(s[j])
  <1>4. p \in Seq(Nat) /\ q \in Seq(Nat) /\ Before(s, j) = p \o q
    BY <1>1, <1>2
  <1>5. /\ p \o q \in Seq(Nat) /\ Len(p) \in Nat /\ Len(q) \in Nat /\ Len(p \o q) = Len(p) + Len(q)
        /\ \A x \in 1 .. Len(p) : (p \o q)[x] = p[x]
        /\ \A x \in 1 .. Len(q) : (p \o q)[Len(p) + x] = q[x]
    <2>. HIDE DEF p, q
    <2>. QED
      BY <1>3, <1>4
  <1>. QED
    BY <1>4, <1>5 DEF Laid

LEMMA TextsLaid ==
    ASSUME NEW s, NEW n \in Nat, Long(s, n), Readable(s)
    PROVE  /\ \A j \in 1 .. n : Laid(s, j)
           /\ \A j \in 0 .. n : Before(s, j) \in Seq(Nat) /\ Len(Before(s, j)) \in Nat
           /\ Len(Before(s, 0)) = 0 /\ Before(s, n) = File!Strings(s)
  <1>. DEFINE Bad == {j \in Nat : j <= n /\ Before(s, j) \notin Seq(Nat)}
  <1>1. 0 \notin Bad
    BY NothingBefore, EmptySeq
  <1>2. ASSUME NEW j \in Nat, j \notin Bad PROVE j + 1 \notin Bad
    <2>1. SUFFICES ASSUME j + 1 <= n PROVE Before(s, j + 1) \in Seq(Nat)
      OBVIOUS
    <2>2. j + 1 \in Nat /\ 0 < j + 1 /\ j + 1 - 1 = j /\ j <= n
      BY <2>1
    <2>3. Before(s, j + 1 - 1) \in Seq(Nat)
      BY <1>2, <2>2
    <2>. QED
      BY <2>1, <2>2, <2>3, TextAdded DEF Laid
  <1>3. Bad = {}
    <2>. HIDE DEF Bad
    <2>0. Bad \in SUBSET Nat
      BY DEF Bad
    <2>. QED
      BY <2>0, <1>1, <1>2, NoLeast
  <1>4. \A j \in 0 .. n : Before(s, j) \in Seq(Nat)
    BY <1>3
  <1>5. ASSUME NEW j \in 1 .. n PROVE Laid(s, j)
    <2>1. j \in Nat /\ 0 < j /\ j <= n /\ j - 1 \in 0 .. n
      OBVIOUS
    <2>. QED
      BY <1>4, <2>1, TextAdded
  <1>6. Before(s, n) = File!Strings(s)
    <2>1. SubSeq(s, 1, n) = s
      BY SubSeqFull DEF Long
    <2>. QED
      BY <2>1 DEF Before
  <1>. QED
    BY <1>4, <1>5, <1>6, NothingBefore, EmptySeq, LenProperties

(* Every text has its place in the whole table.                            *)
LEMMA TextsThere ==
    ASSUME NEW s, NEW n \in Nat, Long(s, n), Readable(s), NEW j \in 1 .. n
    PROVE  /\ Len(Before(s, j)) <= Len(File!Strings(s))
           /\ \A x \in 1 .. Len(File!TextsOf(s[j])) :
                 File!Strings(s)[Len(Before(s, j - 1)) + x] = File!TextsOf(s[j])[x]
  <1>. DEFINE q == File!TextsOf(s[j])
              from == Len(Before(s, j - 1))
              Standing(m) == /\ Len(Before(s, j)) <= Len(Before(s, m))
                         /\ \A x \in 1 .. Len(q) : Before(s, m)[from + x] = q[x]
              Bad == {m \in Nat : j <= m /\ m <= n /\ ~ Standing(m)}
  <1>0. Laid(s, j) /\ from \in Nat /\ Len(q) \in Nat /\ Len(Before(s, j)) = from + Len(q)
    BY TextsLaid DEF Laid
  <1>1. 0 \notin Bad
    OBVIOUS
  <1>2. ASSUME NEW m \in Nat, m \notin Bad PROVE m + 1 \notin Bad
    <2>1. SUFFICES ASSUME j <= m + 1, m + 1 <= n PROVE Standing(m + 1)
      OBVIOUS
    <2>2. CASE j = m + 1
      <3>. QED
        BY <2>2, <1>0 DEF Laid
    <2>3. CASE j <= m
      <3>1. Standing(m)
        BY <2>3, <2>1, <1>2
      <3>2. m + 1 \in 1 .. n /\ m + 1 - 1 = m
        BY <2>1
      <3>3. Laid(s, m + 1)
        BY <3>2, TextsLaid
      <3>4. /\ Len(Before(s, m)) \in Nat /\ Len(File!TextsOf(s[m + 1])) \in Nat
            /\ Len(Before(s, m + 1)) = Len(Before(s, m)) + Len(File!TextsOf(s[m + 1]))
            /\ \A x \in 1 .. Len(Before(s, m)) : Before(s, m + 1)[x] = Before(s, m)[x]
        BY <3>2, <3>3 DEF Laid
      <3>5. Len(Before(s, j)) <= Len(Before(s, m + 1))
        BY <3>1, <3>4, <1>0
      <3>6. ASSUME NEW x \in 1 .. Len(q) PROVE Before(s, m + 1)[from + x] = q[x]
        <4>1. from + x \in 1 .. Len(Before(s, m))
          BY <3>1, <3>4, <1>0
        <4>. QED
          BY <4>1, <3>1, <3>4
      <3>. QED
        BY <3>5, <3>6
    <2>. QED
      BY <2>1, <2>2, <2>3
  <1>3. Bad = {}
    <2>. HIDE DEF Bad
    <2>0. Bad \in SUBSET Nat
      BY DEF Bad
    <2>. QED
      BY <2>0, <1>1, <1>2, NoLeast
  <1>4. Standing(n)
    <2>. HIDE DEF Standing
    <2>. QED
      BY <1>3
  <1>. QED
    BY <1>4, TextsLaid

(* A table that has every text in its place is the table.                  *)
Follow(s, n, c, b) ==
    /\ c[0] = 0
    /\ \A j \in 1 .. n : /\ c[j] = c[j - 1] + Len(File!TextsOf(s[j]))
                         /\ \A x \in 1 .. Len(File!TextsOf(s[j])) : b[c[j - 1] + x] = File!TextsOf(s[j])[x]
TextsAre(s, n, c, b) ==
    \A j \in 0 .. n : Len(Before(s, j)) = c[j] /\ \A x \in 1 .. c[j] : Before(s, j)[x] = b[x]

LEMMA TextsFound ==
    ASSUME NEW s, NEW n \in Nat, Long(s, n), Readable(s), NEW c, NEW b, Follow(s, n, c, b)
    PROVE  TextsAre(s, n, c, b)
  <1>. DEFINE Good(j) == Len(Before(s, j)) = c[j] /\ \A x \in 1 .. c[j] : Before(s, j)[x] = b[x]
              Bad == {j \in Nat : j <= n /\ ~ Good(j)}
  <1>0. /\ c[0] = 0
        /\ \A j \in 1 .. n : /\ c[j] = c[j - 1] + Len(File!TextsOf(s[j]))
                             /\ \A x \in 1 .. Len(File!TextsOf(s[j])) : b[c[j - 1] + x] = File!TextsOf(s[j])[x]
    BY DEF Follow
  <1>1. 0 \notin Bad
    BY <1>0, TextsLaid
  <1>2. ASSUME NEW j \in Nat, j \notin Bad PROVE j + 1 \notin Bad
    <2>1. SUFFICES ASSUME j + 1 <= n PROVE Good(j + 1)
      OBVIOUS
    <2>2. j + 1 \in 1 .. n /\ j + 1 - 1 = j /\ Good(j)
      BY <2>1, <1>2
    <2>3. Laid(s, j + 1)
      BY <2>2, TextsLaid
    <2>. DEFINE k == j + 1
                q == File!TextsOf(s[k])
    <2>31. Laid(s, k) /\ k - 1 = j
      BY <2>2, <2>3
    <2>4. /\ Len(Before(s, j)) \in Nat /\ Len(q) \in Nat
          /\ Len(Before(s, j + 1)) = Len(Before(s, j)) + Len(q)
          /\ \A x \in 1 .. Len(Before(s, j)) : Before(s, j + 1)[x] = Before(s, j)[x]
          /\ \A x \in 1 .. Len(q) : Before(s, j + 1)[Len(Before(s, j)) + x] = q[x]
      <3>. HIDE DEF k
      <3>1. /\ Len(Before(s, k - 1)) \in Nat /\ Len(q) \in Nat
            /\ Len(Before(s, k)) = Len(Before(s, k - 1)) + Len(q)
            /\ \A x \in 1 .. Len(Before(s, k - 1)) : Before(s, k)[x] = Before(s, k - 1)[x]
            /\ \A x \in 1 .. Len(q) : Before(s, k)[Len(Before(s, k - 1)) + x] = q[x]
        BY <2>31 DEF Laid
      <3>2. k = j + 1
        BY DEF k
      <3>. QED
        BY <3>1, <3>2, <2>31
    <2>5. c[j + 1] = c[j] + Len(q) /\ \A x \in 1 .. Len(q) : b[c[j] + x] = q[x]
      BY <1>0, <2>2
    <2>6. ASSUME NEW x \in 1 .. c[j + 1] PROVE Before(s, j + 1)[x] = b[x]
      <3>. HIDE DEF q
      <3>1. CASE x \in 1 .. c[j]
        BY <3>1, <2>2, <2>4
      <3>2. CASE ~ (x \in 1 .. c[j])
        <4>1. x - c[j] \in 1 .. Len(q) /\ c[j] + (x - c[j]) = x /\ c[j] = Len(Before(s, j))
          BY <3>2, <2>2, <2>4, <2>5
        <4>2. Before(s, j + 1)[c[j] + (x - c[j])] = b[c[j] + (x - c[j])]
          BY <4>1, <2>4, <2>5
        <4>. QED
          BY <4>1, <4>2
      <3>. QED
        BY <3>1, <3>2
    <2>7. Len(Before(s, j + 1)) = c[j + 1]
      BY <2>2, <2>4, <2>5
    <2>. QED
      BY <2>6, <2>7
  <1>3. Bad = {}
    <2>. HIDE DEF Bad
    <2>0. Bad \in SUBSET Nat
      BY DEF Bad
    <2>. QED
      BY <2>0, <1>1, <1>2, NoLeast
  <1>4. \A j \in Nat : j <= n => Good(j)
    <2>. HIDE DEF Good
    <2>. QED
      BY <1>3
  <1>. QED
    BY <1>4 DEF TextsAre

(* Rounding up, once or twice.                                             *)
LEMMA FileAligned ==
    ASSUME NEW n \in Nat
    PROVE  /\ File!Aligned(n) \in Nat /\ File!Aligned(n) >= n
           /\ File!Aligned(File!Aligned(n)) = File!Aligned(n)
  <1>. DEFINE m == n + ALIGN - 1
              q == m \div ALIGN
              p == (q * ALIGN + (ALIGN - 1)) \div ALIGN
  <1>1. ALIGN \in Nat \ {0}
    BY NxoAssumption
  <1>2. q \in Nat /\ q * ALIGN <= m /\ m < (q + 1) * ALIGN
    BY <1>1
  <1>3. (q + 1) * ALIGN = q * ALIGN + ALIGN /\ q * ALIGN \in Nat
    BY <1>1, <1>2
  <1>4. p = q
    <2>. HIDE DEF q
    <2>1. p \in Nat /\ p * ALIGN <= q * ALIGN + (ALIGN - 1) /\ q * ALIGN + (ALIGN - 1) < (p + 1) * ALIGN
      BY <1>1, <1>2, <1>3
    <2>2. CASE p > q
      <3>1. p * ALIGN >= (q + 1) * ALIGN
        BY <1>1, <1>2, <2>1, <2>2
      <3>. QED
        BY <1>1, <1>3, <2>1, <3>1
    <2>3. CASE p < q
      <3>1. q * ALIGN >= (p + 1) * ALIGN
        BY <1>1, <1>2, <2>1, <2>3
      <3>. QED
        BY <1>1, <1>3, <2>1, <3>1
    <2>. QED
      BY <1>2, <2>1, <2>2, <2>3
  <1>5. File!Aligned(n) = q * ALIGN
    BY DEF File!Aligned
  <1>6. File!Aligned(q * ALIGN) = p * ALIGN
    BY <1>1, <1>3 DEF File!Aligned
  <1>. QED
    BY <1>1, <1>2, <1>3, <1>4, <1>5, <1>6

(* Where the sections are.                                                 *)
LEMMA SectionPlaces ==
    ASSUME NEW o
    PROVE  /\ File!SectionAt(o, 1) = File!Payload(o)
           /\ File!SectionAt(o, 2) = File!Aligned(File!SectionAt(o, 1) + File!Size(o, 1))
           /\ File!SectionAt(o, 3) = File!Aligned(File!SectionAt(o, 2) + File!Size(o, 2))
  <1>. DEFINE Term(f, j) == IF j = 1 THEN File!Payload(o) ELSE File!Aligned(f[j - 1] + File!Size(o, j - 1))
              Settled(f) == f = [j \in 1 .. 3 |-> Term(f, j)]
              a == File!Payload(o)
              b == File!Aligned(a + File!Size(o, 1))
              c == File!Aligned(b + File!Size(o, 2))
  <1>1. \A k : File!SectionAt(o, k) = (CHOOSE f : Settled(f))[k]
    BY DEF File!SectionAt, File!Sections, File!TEXT
  <1>2. \E f : Settled(f)
    <2>. DEFINE f == [j \in 1 .. 3 |-> IF j = 1 THEN a ELSE IF j = 2 THEN b ELSE c]
    <2>1. f[1] = a /\ f[2] = b /\ f[3] = c
      OBVIOUS
    <2>2. \A j \in 1 .. 3 : f[j] = Term(f, j)
      <3>1. 2 - 1 = 1 /\ 3 - 1 = 2 /\ \A j \in 1 .. 3 : j = 1 \/ j = 2 \/ j = 3
        OBVIOUS
      <3>2. f[1] = Term(f, 1) /\ f[2] = Term(f, 2) /\ f[3] = Term(f, 3)
        <4>. HIDE DEF f
        <4>. QED
          BY <2>1, <3>1
      <3>. QED
        BY <3>1, <3>2
    <2>3. DOMAIN f = 1 .. 3 /\ f = [j \in 1 .. 3 |-> f[j]]
      OBVIOUS
    <2>4. Settled(f)
      <3>. HIDE DEF f, Term
      <3>. QED
        BY <2>2, <2>3
    <2>. QED
      BY <2>4
  <1>3. PICK f : f = (CHOOSE g : Settled(g)) /\ Settled(f)
    <2>. HIDE DEF Settled
    <2>. QED
      BY <1>2
  <1>4. \A j \in 1 .. 3 : f[j] = Term(f, j)
    <2>. HIDE DEF Term
    <2>. QED
      BY <1>3
  <1>5. f[1] = a /\ f[2] = File!Aligned(f[1] + File!Size(o, 1)) /\ f[3] = File!Aligned(f[2] + File!Size(o, 2))
    <2>1. 1 \in 1 .. 3 /\ 2 \in 1 .. 3 /\ 3 \in 1 .. 3 /\ 2 - 1 = 1 /\ 3 - 1 = 2
      OBVIOUS
    <2>2. f[1] = Term(f, 1) /\ f[2] = Term(f, 2) /\ f[3] = Term(f, 3)
      <3>. HIDE DEF Term
      <3>. QED
        BY <1>4, <2>1
    <2>. QED
      BY <2>1, <2>2
  <1>6. \A k : File!SectionAt(o, k) = f[k]
    <2>. HIDE DEF Settled
    <2>. QED
      BY <1>1, <1>3
  <1>. QED
    BY <1>5, <1>6

(* An object whose parts are sequences, and the numbers of its file.       *)
FileParts(o) ==
    /\ Long(o.symbols, Len(o.symbols)) /\ Readable(o.symbols) /\ Len(o.relocs) \in Nat
    /\ \A k \in File!Sections : File!Size(o, k) \in Nat

LEMMA FileNumbers ==
    ASSUME NEW o, FileParts(o)
    PROVE  /\ Len(o.symbols) \in Nat /\ HEADER \in Nat
           /\ File!RelocsAt(o) \in Nat /\ File!StringsAt(o) \in Nat /\ HEADER <= File!StringsAt(o)
           /\ Len(File!Strings(o.symbols)) \in Nat
           /\ File!StringsEnd(o) \in Nat /\ File!StringsAt(o) <= File!StringsEnd(o)
           /\ File!Payload(o) \in Nat /\ File!StringsEnd(o) <= File!Payload(o)
           /\ File!Aligned(File!Payload(o)) = File!Payload(o)
           /\ \A k \in 1 .. 3 : File!Size(o, k) \in Nat /\ File!SectionAt(o, k) \in Nat
           /\ File!SectionAt(o, 1) = File!Payload(o)
           /\ File!SectionAt(o, 1) + File!Size(o, 1) <= File!SectionAt(o, 2)
           /\ File!SectionAt(o, 2) = File!Aligned(File!SectionAt(o, 1) + File!Size(o, 1))
           /\ File!SectionAt(o, 2) + File!Size(o, 2) <= File!SectionAt(o, 3)
           /\ File!SectionAt(o, 3) = File!Aligned(File!SectionAt(o, 2) + File!Size(o, 2))
           /\ File!Total(o) = File!SectionAt(o, 3) + File!Size(o, 3)
  <1>. DEFINE n == Len(o.symbols)
              m == Len(o.relocs)
              l == Len(File!Strings(o.symbols))
              u == n * SYMBOL
              v == m * RELOC
  <1>1. n \in Nat /\ m \in Nat /\ HEADER \in Nat /\ SYMBOL \in Nat /\ RELOC \in Nat
    BY FileAssumption DEF File!FileAssumption, FileParts, Long
  <1>2. l \in Nat
    <2>1. Before(o.symbols, n) = File!Strings(o.symbols) /\ Len(Before(o.symbols, n)) \in Nat
      <3>1. n \in 0 .. n
        BY <1>1
      <3>. QED
        BY <1>1, <3>1, TextsLaid DEF FileParts
    <2>. QED
      BY <2>1
  <1>3. u \in Nat /\ v \in Nat
    BY <1>1
  <1>4. /\ File!RelocsAt(o) = HEADER + u
        /\ File!StringsAt(o) = HEADER + u + v
        /\ File!StringsEnd(o) = HEADER + u + v + l
    BY DEF File!RelocsAt, File!SymbolsAt, File!StringsAt, File!StringsEnd
  <1>5. /\ File!RelocsAt(o) \in Nat /\ File!StringsAt(o) \in Nat /\ File!StringsEnd(o) \in Nat
        /\ HEADER <= File!StringsAt(o) /\ File!StringsAt(o) <= File!StringsEnd(o)
    <2>. HIDE DEF u, v, l
    <2>. QED
      BY <1>1, <1>2, <1>3, <1>4
  <1>6. /\ File!Payload(o) \in Nat /\ File!StringsEnd(o) <= File!Payload(o)
        /\ File!Aligned(File!Payload(o)) = File!Payload(o)
    BY <1>5, FileAligned DEF File!Payload
  <1>7. File!Size(o, 1) \in Nat /\ File!Size(o, 2) \in Nat /\ File!Size(o, 3) \in Nat
    BY DEF FileParts, File!Sections
  <1>. DEFINE a == File!SectionAt(o, 1)
              b == File!SectionAt(o, 2)
              c == File!SectionAt(o, 3)
  <1>8. a \in Nat /\ a = File!Payload(o)
    BY <1>6, SectionPlaces
  <1>9. b \in Nat /\ b = File!Aligned(a + File!Size(o, 1)) /\ a + File!Size(o, 1) <= b
    <2>1. a + File!Size(o, 1) \in Nat
      BY <1>7, <1>8
    <2>. QED
      BY <2>1, FileAligned, SectionPlaces
  <1>10. c \in Nat /\ c = File!Aligned(b + File!Size(o, 2)) /\ b + File!Size(o, 2) <= c
    <2>1. b + File!Size(o, 2) \in Nat
      BY <1>7, <1>9
    <2>. QED
      BY <2>1, FileAligned, SectionPlaces
  <1>11. File!Total(o) = c + File!Size(o, 3)
    BY DEF File!Total, File!DATA
  <1>12. \A k \in 1 .. 3 : k = 1 \/ k = 2 \/ k = 3
    OBVIOUS
  <1>. QED
    BY <1>1, <1>2, <1>5, <1>6, <1>7, <1>8, <1>9, <1>10, <1>11, <1>12

(* What lies where in a file: the table of texts, zeros, and the sections. *)
LEMMA BytesLaid ==
    ASSUME NEW o, FileParts(o), NEW x \in Nat, x < File!Total(o)
    PROVE  /\ x < File!StringsEnd(o) => File!ByteAt(o, x) = File!Strings(o.symbols)[x - File!StringsAt(o) + 1]
           /\ \A k \in 1 .. 3 : File!SectionAt(o, k) <= x /\ x < File!SectionAt(o, k) + File!Size(o, k)
                 => File!ByteAt(o, x) = o.sections[k][x - File!SectionAt(o, k) + 1]
           /\ (/\ File!StringsEnd(o) <= x
               /\ \A k \in 1 .. 3 : x < File!SectionAt(o, k) \/ File!SectionAt(o, k) + File!Size(o, k) <= x)
                 => File!ByteAt(o, x) = 0
  <1>. DEFINE e == File!StringsEnd(o)
              at(k) == File!SectionAt(o, k)
              sz(k) == File!Size(o, k)
              ks == {k \in File!Sections : x >= at(k) /\ x < at(k) + sz(k)}
  <1>0. /\ e \in Nat /\ e <= at(1) /\ at(1) + sz(1) <= at(2) /\ at(2) + sz(2) <= at(3)
        /\ at(1) \in Nat /\ at(2) \in Nat /\ at(3) \in Nat /\ sz(1) \in Nat /\ sz(2) \in Nat /\ sz(3) \in Nat
    <2>1. 1 \in 1 .. 3 /\ 2 \in 1 .. 3 /\ 3 \in 1 .. 3
      OBVIOUS
    <2>. QED
      BY <2>1, FileNumbers
  <1>1. File!ByteAt(o, x) = IF x < e THEN File!Strings(o.symbols)[x - File!StringsAt(o) + 1]
                           ELSE IF ks = {} THEN 0
                           ELSE o.sections[CHOOSE k \in ks : TRUE][x - at(CHOOSE k \in ks : TRUE) + 1]
    BY DEF File!ByteAt
  <1>2. ASSUME NEW k \in 1 .. 3, at(k) <= x, x < at(k) + sz(k)
        PROVE  File!ByteAt(o, x) = o.sections[k][x - at(k) + 1]
    <2>1. ~ (x < e) /\ ks = {k}
      <3>1. k = 1 \/ k = 2 \/ k = 3
        OBVIOUS
      <3>2. ASSUME NEW i \in 1 .. 3, at(i) <= x, x < at(i) + sz(i) PROVE i = k /\ ~ (x < e)
        <4>1. i = 1 \/ i = 2 \/ i = 3
          OBVIOUS
        <4>. HIDE DEF e, at, sz
        <4>. QED
          BY <1>0, <1>2, <3>1, <3>2, <4>1
      <3>3. k \in File!Sections /\ \A i \in File!Sections : i \in 1 .. 3
        BY DEF File!Sections
      <3>. QED
        BY <1>2, <3>2, <3>3
    <2>2. (CHOOSE i \in ks : TRUE) = k
      BY <2>1
    <2>. HIDE DEF ks
    <2>. QED
      BY <1>1, <2>1, <2>2
  <1>3. ASSUME e <= x, \A k \in 1 .. 3 : x < at(k) \/ at(k) + sz(k) <= x
        PROVE  File!ByteAt(o, x) = 0
    <2>1. ks = {}
      <3>1. \A k \in File!Sections : k \in 1 .. 3 /\ at(k) \in Nat /\ sz(k) \in Nat
        <4>1. \A k \in File!Sections : k = 1 \/ k = 2 \/ k = 3
          BY DEF File!Sections
        <4>. QED
          BY <1>0, <4>1
      <3>. HIDE DEF e, at, sz
      <3>. QED
        BY <1>3, <3>1
    <2>2. ~ (x < e)
      BY <1>3, <1>0
    <2>. HIDE DEF ks, e
    <2>. QED
      BY <1>1, <2>1, <2>2
  <1>4. x < e => File!ByteAt(o, x) = File!Strings(o.symbols)[x - File!StringsAt(o) + 1]
    <2>. HIDE DEF ks, e
    <2>. QED
      BY <1>1
  <1>. QED
    BY <1>2, <1>3, <1>4

(* The texts of a symbol, one behind the other.                            *)
TextPair(s, p, q) ==
    /\ p \in Seq(Nat \ {0}) /\ q \in Seq(Nat \ {0}) /\ Len(p) \in Nat /\ Len(q) \in Nat
    /\ File!TextsOf(s) \in Seq(Nat) /\ Len(File!TextsOf(s)) = Len(p) + Len(q)
    /\ \A x \in 1 .. Len(p) : File!TextsOf(s)[x] = p[x] /\ p[x] # 0
    /\ \A x \in 1 .. Len(q) : File!TextsOf(s)[Len(p) + x] = q[x] /\ q[x] # 0

LEMMA TextsPaired ==
    ASSUME NEW s, s.name \in DOMAIN Names, s.contract \in DOMAIN Contracts
    PROVE  TextPair(s, Names[s.name], Contracts[s.contract])
  <1>. DEFINE p == Names[s.name]
              q == Contracts[s.contract]
  <1>1. p \in Seq(Nat \ {0}) /\ q \in Seq(Nat \ {0})
    BY FileAssumption DEF File!FileAssumption, File!Range
  <1>2. File!TextsOf(s) = p \o q
    BY DEF File!TextsOf
  <1>3. ASSUME NEW a \in Seq(Nat \ {0}), NEW b \in Seq(Nat \ {0})
        PROVE  /\ Len(a) \in Nat /\ Len(b) \in Nat
               /\ a \o b \in Seq(Nat) /\ Len(a \o b) = Len(a) + Len(b)
               /\ \A x \in 1 .. Len(a) : (a \o b)[x] = a[x] /\ a[x] # 0
               /\ \A x \in 1 .. Len(b) : (a \o b)[Len(a) + x] = b[x] /\ b[x] # 0
    <2>1. /\ a \o b \in Seq(Nat \ {0}) /\ Len(a \o b) = Len(a) + Len(b)
          /\ \A i \in 1 .. Len(a) + Len(b) : (a \o b)[i] = IF i <= Len(a) THEN a[i] ELSE b[i - Len(a)]
      BY ConcatProperties
    <2>2. Len(a) \in Nat /\ Len(b) \in Nat
      OBVIOUS
    <2>3. ASSUME NEW x \in 1 .. Len(a) PROVE (a \o b)[x] = a[x] /\ a[x] # 0
      <3>1. x \in 1 .. Len(a) + Len(b) /\ x <= Len(a) /\ a[x] \in Nat \ {0}
        BY <2>2, ElementOfSeq
      <3>. QED
        BY <2>1, <3>1
    <2>4. ASSUME NEW x \in 1 .. Len(b) PROVE (a \o b)[Len(a) + x] = b[x] /\ b[x] # 0
      <3>1. Len(a) + x \in 1 .. Len(a) + Len(b) /\ ~ (Len(a) + x <= Len(a)) /\ Len(a) + x - Len(a) = x
            /\ b[x] \in Nat \ {0}
        BY <2>2, ElementOfSeq
      <3>. QED
        BY <2>1, <3>1
    <2>5. a \o b \in Seq(Nat)
      BY <2>1, SeqMonotonic
    <2>. QED
      BY <2>1, <2>2, <2>3, <2>4, <2>5
  <1>4. /\ Len(p) \in Nat /\ Len(q) \in Nat
        /\ p \o q \in Seq(Nat) /\ Len(p \o q) = Len(p) + Len(q)
        /\ \A x \in 1 .. Len(p) : (p \o q)[x] = p[x] /\ p[x] # 0
        /\ \A x \in 1 .. Len(q) : (p \o q)[Len(p) + x] = q[x] /\ q[x] # 0
    <2>. HIDE DEF p, q
    <2>. QED
      BY <1>1, <1>3
  <1>5. /\ p \in Seq(Nat \ {0}) /\ q \in Seq(Nat \ {0}) /\ Len(p) \in Nat /\ Len(q) \in Nat
        /\ File!TextsOf(s) \in Seq(Nat) /\ Len(File!TextsOf(s)) = Len(p) + Len(q)
        /\ \A x \in 1 .. Len(p) : File!TextsOf(s)[x] = p[x] /\ p[x] # 0
        /\ \A x \in 1 .. Len(q) : File!TextsOf(s)[Len(p) + x] = q[x] /\ q[x] # 0
    <2>. HIDE DEF p, q
    <2>. QED
      BY <1>1, <1>2, <1>4
  <1>. QED
    BY <1>5 DEF TextPair

(* What the assumptions say of the objects written.                        *)
NameOf(o, j) == Names[o.symbols[j].name]
ContractOf(o, j) == Contracts[o.symbols[j].contract]

LEMMA InputParts ==
    ASSUME NEW o \in Files
    PROVE  /\ FileParts(o) /\ o \in File!Objects
           /\ DOMAIN o.symbols = 1 .. Len(o.symbols) /\ DOMAIN o.relocs = 1 .. Len(o.relocs)
           /\ \A j \in 1 .. Len(o.symbols) :
                 /\ TextPair(o.symbols[j], NameOf(o, j), ContractOf(o, j))
                 /\ o.symbols[j].name \in DOMAIN Names /\ o.symbols[j].contract \in DOMAIN Contracts
                 /\ o.symbols[j].kind \in {"function", "variable"}
                 /\ o.symbols[j] \in File!SymbolRecords
           /\ \A j \in 1 .. Len(o.relocs) : o.relocs[j] \in File!RelocRecords
           /\ \A k \in 1 .. 3 : o.sections[k] \in Seq(Nat)
           /\ DOMAIN o.sections = 1 .. 3
  <1>1. File!Named(o)
    BY FileAssumption DEF File!FileAssumption
  <1>2. /\ o \in File!Objects
        /\ \A j \in DOMAIN o.symbols : /\ o.symbols[j].name \in DOMAIN Names /\ o.symbols[j].contract \in DOMAIN Contracts
                                       /\ o.symbols[j].kind \in {"function", "variable"}
    BY <1>1 DEF File!Named
  <1>3. /\ o.symbols \in Seq(File!SymbolRecords) /\ o.relocs \in Seq(File!RelocRecords)
        /\ o.sections \in [File!Sections -> Seq(Nat)]
    BY <1>2 DEF File!Objects
  <1>4. /\ Len(o.symbols) \in Nat /\ DOMAIN o.symbols = 1 .. Len(o.symbols)
        /\ Len(o.relocs) \in Nat /\ DOMAIN o.relocs = 1 .. Len(o.relocs)
        /\ \A j \in 1 .. Len(o.symbols) : o.symbols[j] \in File!SymbolRecords
        /\ \A j \in 1 .. Len(o.relocs) : o.relocs[j] \in File!RelocRecords
    BY <1>3
  <1>5. \A j \in 1 .. Len(o.symbols) : TextPair(o.symbols[j], NameOf(o, j), ContractOf(o, j))
    BY <1>2, <1>4, TextsPaired DEF NameOf, ContractOf
  <1>6. Readable(o.symbols)
    BY <1>4, <1>5 DEF Readable, TextPair
  <1>7. DOMAIN o.sections = 1 .. 3 /\ \A k \in 1 .. 3 : o.sections[k] \in Seq(Nat) /\ File!Size(o, k) \in Nat
    BY <1>3 DEF File!Sections, File!Size
  <1>8. Long(o.symbols, Len(o.symbols))
    BY <1>3, <1>4 DEF Long
  <1>9. FileParts(o)
    BY <1>4, <1>6, <1>7, <1>8 DEF FileParts, File!Sections
  <1>. QED
    BY <1>2, <1>4, <1>5, <1>7, <1>9

(* The fields of a file written.                                           *)
Cut(o, j) == Len(Before(o.symbols, j))
SymbolFields(r, s, from, p, q) ==
    /\ r.name = from /\ r.nameLength = Len(p) /\ r.contract = from + Len(p) /\ r.contractLength = Len(q)
    /\ r.section = s.section /\ r.flags = File!Flags(s) /\ r.offset = s.offset /\ r.size = s.size
    /\ r.version = 1 /\ r.reserved = 0
RelocFields(r, s) ==
    /\ r.section = s.section /\ r.kind = s.kind /\ r.offset = s.offset /\ r.target = s.target
    /\ r.addend = s.addend /\ r.reserved = 0
FileFields(f, o) ==
    /\ f.fixed = File!Fixed /\ f.target = o.target /\ f.entry = o.entry
    /\ f.symbolCount = Len(o.symbols) /\ f.relocCount = Len(o.relocs)
    /\ f.symbolsAt = HEADER /\ f.relocsAt = File!RelocsAt(o) /\ f.stringsAt = File!StringsAt(o)
    /\ f.strings = Len(File!Strings(o.symbols)) /\ f.payload = File!Payload(o)
    /\ f.size = File!Total(o) /\ f.length = File!Total(o)
    /\ \A k \in 1 .. 3 : /\ f.table[k].fixed = File!SectionFixed(k)
                         /\ f.table[k].size = File!Size(o, k) /\ f.table[k].at = File!SectionAt(o, k)
    /\ \A j \in 1 .. Len(o.symbols) :
          SymbolFields(f.symbols[j], o.symbols[j], Cut(o, j - 1), NameOf(o, j), ContractOf(o, j))
    /\ \A j \in 1 .. Len(o.relocs) : RelocFields(f.relocs[j], o.relocs[j])
    /\ \A x \in File!StringsAt(o) .. File!Total(o) - 1 : f.bytes[x] = File!ByteAt(o, x)

LEMMA FieldsWritten == ASSUME NEW o \in Files PROVE FileFields(File!FileOf(o), o)
  <1>. DEFINE f == File!FileOf(o)
  <1>1. DOMAIN o.symbols = 1 .. Len(o.symbols) /\ DOMAIN o.relocs = 1 .. Len(o.relocs)
    BY InputParts
  <1>2. /\ f.fixed = File!Fixed /\ f.target = o.target /\ f.entry = o.entry
        /\ f.symbolCount = Len(o.symbols) /\ f.relocCount = Len(o.relocs)
        /\ f.symbolsAt = HEADER /\ f.relocsAt = File!RelocsAt(o) /\ f.stringsAt = File!StringsAt(o)
        /\ f.strings = Len(File!Strings(o.symbols)) /\ f.payload = File!Payload(o)
        /\ f.size = File!Total(o) /\ f.length = File!Total(o)
    BY DEF File!FileOf, File!SymbolsAt
  <1>3. /\ f.table = [k \in 1 .. 3 |-> [fixed |-> File!SectionFixed(k), size |-> File!Size(o, k), at |-> File!SectionAt(o, k)]]
        /\ f.symbols = [j \in DOMAIN o.symbols |-> File!SymbolRecord(o, j)]
        /\ f.relocs = [j \in DOMAIN o.relocs |-> File!RelocRecord(o.relocs[j])]
        /\ f.bytes = [x \in File!StringsAt(o) .. File!Total(o) - 1 |-> File!ByteAt(o, x)]
    BY DEF File!FileOf, File!Sections
  <1>4. ASSUME NEW k \in 1 .. 3
        PROVE  /\ f.table[k].fixed = File!SectionFixed(k)
               /\ f.table[k].size = File!Size(o, k) /\ f.table[k].at = File!SectionAt(o, k)
    <2>. HIDE DEF f
    <2>. QED
      BY <1>3
  <1>5. ASSUME NEW j \in 1 .. Len(o.symbols)
        PROVE  SymbolFields(f.symbols[j], o.symbols[j], Cut(o, j - 1), NameOf(o, j), ContractOf(o, j))
    <2>1. f.symbols[j] = File!SymbolRecord(o, j)
      <3>. HIDE DEF f
      <3>. QED
        BY <1>1, <1>3
    <2>2. SymbolFields(File!SymbolRecord(o, j), o.symbols[j], Cut(o, j - 1), NameOf(o, j), ContractOf(o, j))
      BY DEF File!SymbolRecord, SymbolFields, Cut, Before, NameOf, ContractOf
    <2>. QED
      BY <2>1, <2>2
  <1>6. ASSUME NEW j \in 1 .. Len(o.relocs) PROVE RelocFields(f.relocs[j], o.relocs[j])
    <2>1. f.relocs[j] = File!RelocRecord(o.relocs[j])
      <3>. HIDE DEF f
      <3>. QED
        BY <1>1, <1>3
    <2>2. RelocFields(File!RelocRecord(o.relocs[j]), o.relocs[j])
      BY DEF File!RelocRecord, RelocFields
    <2>. QED
      BY <2>1, <2>2
  <1>7. \A x \in File!StringsAt(o) .. File!Total(o) - 1 : f.bytes[x] = File!ByteAt(o, x)
    <2>. HIDE DEF f
    <2>. QED
      BY <1>3
  <1>. HIDE DEF f
  <1>8. FileFields(f, o)
    BY <1>2, <1>4, <1>5, <1>6, <1>7 DEF FileFields
  <1>. QED
    BY <1>8 DEF f

(* Where the texts of each symbol begin, and that they are all there.      *)
LEMMA CutsInOrder ==
    ASSUME NEW o \in Files
    PROVE  /\ Cut(o, 0) = 0 /\ Cut(o, Len(o.symbols)) = Len(File!Strings(o.symbols))
           /\ \A j \in 1 .. Len(o.symbols) :
                 /\ Cut(o, j - 1) \in Nat /\ Cut(o, j) \in Nat
                 /\ Cut(o, j) = Cut(o, j - 1) + Len(NameOf(o, j)) + Len(ContractOf(o, j))
                 /\ Cut(o, j) <= Len(File!Strings(o.symbols))
                 /\ \A x \in 1 .. Len(NameOf(o, j)) :
                       File!Strings(o.symbols)[Cut(o, j - 1) + x] = NameOf(o, j)[x]
                 /\ \A x \in 1 .. Len(ContractOf(o, j)) :
                       File!Strings(o.symbols)[Cut(o, j - 1) + Len(NameOf(o, j)) + x] = ContractOf(o, j)[x]
  <1>. DEFINE s == o.symbols
              n == Len(s)
  <1>1. Long(s, n) /\ Readable(s) /\ n \in Nat
    BY InputParts DEF FileParts, Long
  <1>2. Cut(o, 0) = 0 /\ Cut(o, n) = Len(File!Strings(s))
    <2>. HIDE DEF n
    <2>. QED
      BY <1>1, TextsLaid DEF Cut
  <1>3. ASSUME NEW j \in 1 .. n
        PROVE  /\ Cut(o, j - 1) \in Nat /\ Cut(o, j) \in Nat
               /\ Cut(o, j) = Cut(o, j - 1) + Len(NameOf(o, j)) + Len(ContractOf(o, j))
               /\ Cut(o, j) <= Len(File!Strings(s))
               /\ \A x \in 1 .. Len(NameOf(o, j)) :
                     File!Strings(s)[Cut(o, j - 1) + x] = NameOf(o, j)[x]
               /\ \A x \in 1 .. Len(ContractOf(o, j)) :
                     File!Strings(s)[Cut(o, j - 1) + Len(NameOf(o, j)) + x] = ContractOf(o, j)[x]
    <2>. DEFINE p == NameOf(o, j)
                q == ContractOf(o, j)
                t == File!TextsOf(s[j])
                c == Cut(o, j - 1)
                l == File!Strings(s)
    <2>1. TextPair(s[j], p, q)
      BY InputParts
    <2>2. /\ Len(p) \in Nat /\ Len(q) \in Nat /\ Len(t) = Len(p) + Len(q)
          /\ \A x \in 1 .. Len(p) : t[x] = p[x]
          /\ \A x \in 1 .. Len(q) : t[Len(p) + x] = q[x]
      <3>. HIDE DEF p, q
      <3>. QED
        BY <2>1 DEF TextPair
    <2>3. Laid(s, j) /\ Cut(o, j) <= Len(l) /\ \A x \in 1 .. Len(t) : l[c + x] = t[x]
      <3>. HIDE DEF n, s
      <3>1. Laid(s, j)
        BY <1>1, TextsLaid
      <3>2. Len(Before(s, j)) <= Len(File!Strings(s)) /\ \A x \in 1 .. Len(File!TextsOf(s[j])) :
               File!Strings(s)[Len(Before(s, j - 1)) + x] = File!TextsOf(s[j])[x]
        BY <1>1, TextsThere
      <3>3. Cut(o, j) = Len(Before(s, j)) /\ c = Len(Before(s, j - 1))
        BY DEF Cut, s
      <3>. QED
        BY <3>1, <3>2, <3>3, Zenon
    <2>4. c \in Nat /\ Cut(o, j) = c + Len(t)
      BY <2>3 DEF Laid, Cut
    <2>. HIDE DEF p, q, t, c, l
    <2>5. c \in Nat /\ Cut(o, j) \in Nat /\ Cut(o, j) = c + Len(p) + Len(q)
      BY <2>2, <2>4
    <2>6. ASSUME NEW x \in 1 .. Len(p) PROVE l[c + x] = p[x]
      <3>1. x \in 1 .. Len(t)
        BY <2>2
      <3>. QED
        BY <2>2, <2>3, <3>1
    <2>7. ASSUME NEW x \in 1 .. Len(q) PROVE l[c + Len(p) + x] = q[x]
      <3>1. Len(p) + x \in 1 .. Len(t) /\ c + (Len(p) + x) = c + Len(p) + x
        BY <2>2, <2>5
      <3>2. l[c + (Len(p) + x)] = t[Len(p) + x]
        BY <2>3, <3>1
      <3>. QED
        BY <2>2, <3>1, <3>2
    <2>8. /\ c \in Nat /\ Cut(o, j) \in Nat /\ Cut(o, j) = c + Len(p) + Len(q) /\ Cut(o, j) <= Len(l)
          /\ \A x \in 1 .. Len(p) : l[c + x] = p[x]
          /\ \A x \in 1 .. Len(q) : l[c + Len(p) + x] = q[x]
      BY <2>3, <2>5, <2>6, <2>7
    <2>. QED
      BY <2>8 DEF p, q, t, c, l
  <1>. QED
    BY <1>2, <1>3

(* The texts are read where they were written.                             *)
LEMMA SlicesRead ==
    ASSUME NEW o \in Files, NEW f, FileFields(f, o), NEW j \in 1 .. Len(o.symbols)
    PROVE  /\ File!Slice(f, f.symbols[j].name, f.symbols[j].nameLength) = NameOf(o, j)
           /\ File!Slice(f, f.symbols[j].contract, f.symbols[j].contractLength) = ContractOf(o, j)
  <1>. DEFINE a == File!StringsAt(o)
              l == File!Strings(o.symbols)
              t == File!Total(o)
              p == NameOf(o, j)
              q == ContractOf(o, j)
              c == Cut(o, j - 1)
  <1>1. /\ a \in Nat /\ Len(l) \in Nat /\ t \in Nat /\ a + Len(l) <= t
        /\ File!StringsEnd(o) = a + Len(l)
    <2>1. 1 \in 1 .. 3 /\ 2 \in 1 .. 3 /\ 3 \in 1 .. 3 /\ FileParts(o)
      BY InputParts
    <2>2. File!StringsEnd(o) = a + Len(l)
      BY DEF File!StringsEnd
    <2>. HIDE DEF a, l, t
    <2>3. a \in Nat /\ Len(l) \in Nat /\ t \in Nat /\ File!StringsEnd(o) <= t
      <3>1. /\ a \in Nat /\ Len(l) \in Nat /\ File!StringsEnd(o) \in Nat
            /\ File!StringsEnd(o) <= File!SectionAt(o, 1)
            /\ File!SectionAt(o, 1) \in Nat /\ File!SectionAt(o, 2) \in Nat /\ File!SectionAt(o, 3) \in Nat
            /\ File!Size(o, 1) \in Nat /\ File!Size(o, 2) \in Nat /\ File!Size(o, 3) \in Nat
            /\ File!SectionAt(o, 1) + File!Size(o, 1) <= File!SectionAt(o, 2)
            /\ File!SectionAt(o, 2) + File!Size(o, 2) <= File!SectionAt(o, 3)
            /\ t = File!SectionAt(o, 3) + File!Size(o, 3)
        BY <2>1, FileNumbers DEF a, l, t
      <3>. QED
        BY <3>1
    <2>. QED
      BY <2>2, <2>3
  <1>2. /\ c \in Nat /\ Cut(o, j) \in Nat /\ Cut(o, j) = c + Len(p) + Len(q) /\ Cut(o, j) <= Len(l)
        /\ \A x \in 1 .. Len(p) : l[c + x] = p[x]
        /\ \A x \in 1 .. Len(q) : l[c + Len(p) + x] = q[x]
    BY CutsInOrder
  <1>3. p \in Seq(Nat \ {0}) /\ q \in Seq(Nat \ {0}) /\ Len(p) \in Nat /\ Len(q) \in Nat
    BY InputParts DEF TextPair
  <1>4. /\ f.symbols[j].name = c /\ f.symbols[j].nameLength = Len(p)
        /\ f.symbols[j].contract = c + Len(p) /\ f.symbols[j].contractLength = Len(q)
        /\ f.stringsAt = a
    BY DEF FileFields, SymbolFields
  <1>5. ASSUME NEW y \in Nat, y < Len(l) PROVE f.bytes[a + y] = l[y + 1]
    <2>1. a + y \in Nat /\ a + y < t /\ a + y < a + Len(l) /\ a + y - a + 1 = y + 1 /\ a + y \in a .. t - 1
      <3>. HIDE DEF a, t, l
      <3>. QED
        BY <1>1, <1>5
    <2>2. f.bytes[a + y] = File!ByteAt(o, a + y)
      BY <2>1 DEF FileFields
    <2>3. File!ByteAt(o, a + y) = l[y + 1]
      <3>1. PICK x \in Nat : x = a + y
        BY <2>1
      <3>2. x < t /\ x < File!StringsEnd(o) /\ x - a + 1 = y + 1
        BY <1>1, <2>1, <3>1
      <3>3. FileParts(o)
        BY InputParts
      <3>4. File!ByteAt(o, x) = l[x - a + 1]
        BY <3>2, <3>3, BytesLaid
      <3>. QED
        BY <3>1, <3>2, <3>4
    <2>. QED
      BY <2>1, <2>2, <2>3
  <1>. HIDE DEF a, l, t, p, q, c
  <1>0. /\ a \in Nat /\ c \in Nat /\ Len(p) \in Nat /\ Len(q) \in Nat /\ Len(l) \in Nat
        /\ c + Len(p) + Len(q) <= Len(l)
    BY <1>1, <1>2, <1>3
  <1>6. ASSUME NEW x \in 1 .. Len(p) PROVE f.bytes[a + c + x - 1] = p[x]
    <2>1. c + x - 1 \in Nat /\ c + x - 1 < Len(l) /\ c + x - 1 + 1 = c + x /\ a + (c + x - 1) = a + c + x - 1
      BY <1>0
    <2>2. f.bytes[a + (c + x - 1)] = l[c + x - 1 + 1]
      BY <2>1, <1>5
    <2>. QED
      BY <1>2, <2>1, <2>2
  <1>7. ASSUME NEW x \in 1 .. Len(q) PROVE f.bytes[a + (c + Len(p)) + x - 1] = q[x]
    <2>1. /\ c + Len(p) + x - 1 \in Nat /\ c + Len(p) + x - 1 < Len(l) /\ c + Len(p) + x - 1 + 1 = c + Len(p) + x
          /\ a + (c + Len(p) + x - 1) = a + (c + Len(p)) + x - 1
      BY <1>0
    <2>2. f.bytes[a + (c + Len(p) + x - 1)] = l[c + Len(p) + x - 1 + 1]
      BY <2>1, <1>5
    <2>. QED
      BY <1>2, <2>1, <2>2
  <1>8. ASSUME NEW w \in Seq(Nat \ {0}), NEW from, \A x \in 1 .. Len(w) : f.bytes[a + from + x - 1] = w[x]
        PROVE  File!Slice(f, from, Len(w)) = w
    <2>1. File!Slice(f, from, Len(w)) = [x \in 1 .. Len(w) |-> f.bytes[a + from + x - 1]]
      BY <1>4 DEF File!Slice
    <2>2. w = [x \in 1 .. Len(w) |-> w[x]]
      OBVIOUS
    <2>. QED
      BY <1>8, <2>1, <2>2
  <1>9. File!Slice(f, c, Len(p)) = p
    BY <1>3, <1>6, <1>8
  <1>10. File!Slice(f, c + Len(p), Len(q)) = q
    BY <1>3, <1>7, <1>8
  <1>. QED
    BY <1>4, <1>9, <1>10 DEF p, q

LEMMA CursorsRead ==
    ASSUME NEW o \in Files, NEW f, FileFields(f, o)
    PROVE  \A j \in 1 .. Len(o.symbols) + 1 : File!Cursor(f, j) = Cut(o, j - 1)
  <1>. TAKE j \in 1 .. Len(o.symbols) + 1
  <1>0. Len(o.symbols) \in Nat
    BY InputParts DEF FileParts, Long
  <1>1. CASE j = 1
    BY <1>1, CutsInOrder DEF File!Cursor
  <1>2. CASE j # 1
    <2>. DEFINE i == j - 1
    <2>1. i \in 1 .. Len(o.symbols)
      BY <1>0, <1>2
    <2>. HIDE DEF i
    <2>2. /\ f.symbols[i].contract = Cut(o, i - 1) + Len(NameOf(o, i))
          /\ f.symbols[i].contractLength = Len(ContractOf(o, i))
      BY <2>1 DEF FileFields, SymbolFields
    <2>3. Cut(o, i) = Cut(o, i - 1) + Len(NameOf(o, i)) + Len(ContractOf(o, i))
      BY <2>1, CutsInOrder
    <2>4. File!Cursor(f, j) = f.symbols[i].contract + f.symbols[i].contractLength
      BY <1>2 DEF File!Cursor, i
    <2>. QED
      BY <2>2, <2>3, <2>4 DEF i
  <1>. QED
    BY <1>1, <1>2

(* Nothing of a file written is refused: its symbols.                      *)
LEMMA SymbolsGood ==
    ASSUME NEW o \in Files, File!Storable(o), NEW f, FileFields(f, o), NEW j \in 1 .. Len(o.symbols)
    PROVE  File!GoodSymbol(f, j) /\ Len(NameOf(o, j)) > 0 /\ Len(ContractOf(o, j)) > 0
  <1>. DEFINE p == NameOf(o, j)
              q == ContractOf(o, j)
              c == Cut(o, j - 1)
              l == Len(File!Strings(o.symbols))
              r == f.symbols[j]
  <1>1. Len(o.symbols) \in Nat /\ j \in 1 .. Len(o.symbols) + 1 /\ j \in DOMAIN o.symbols
    BY InputParts DEF FileParts, Long
  <1>2. Len(p) \in 1 .. NAME_LIMIT /\ Len(q) \in 1 .. CONTRACT_LIMIT
    BY <1>1 DEF File!Storable, File!ValidTexts, NameOf, ContractOf
  <1>3. c \in Nat /\ Len(p) \in Nat /\ Len(q) \in Nat /\ l \in Nat /\ c + Len(p) + Len(q) <= l
    <2>1. Cut(o, j) = c + Len(p) + Len(q) /\ Cut(o, j) <= l /\ c \in Nat
      BY CutsInOrder
    <2>2. l \in Nat
      BY InputParts, FileNumbers
    <2>3. Len(p) \in Nat /\ Len(q) \in Nat
      BY InputParts DEF TextPair
    <2>. QED
      BY <2>1, <2>2, <2>3
  <1>4. /\ r.name = c /\ r.nameLength = Len(p) /\ r.contract = c + Len(p) /\ r.contractLength = Len(q)
        /\ r.version = 1 /\ r.reserved = 0 /\ f.strings = l
    BY DEF FileFields, SymbolFields
  <1>5. File!Cursor(f, j) = c
    BY <1>1, CursorsRead
  <1>6. 0 \notin File!Range(File!Slice(f, r.name, r.nameLength) \o File!Slice(f, r.contract, r.contractLength))
    <2>1. File!Slice(f, r.name, r.nameLength) = p /\ File!Slice(f, r.contract, r.contractLength) = q
      BY SlicesRead
    <2>2. p \in Seq(Nat \ {0}) /\ q \in Seq(Nat \ {0})
      BY InputParts DEF TextPair
    <2>3. ASSUME NEW a \in Seq(Nat \ {0}), NEW b \in Seq(Nat \ {0}) PROVE 0 \notin File!Range(a \o b)
      <3>1. a \o b \in Seq(Nat \ {0})
        BY ConcatProperties
      <3>2. ASSUME NEW w \in Seq(Nat \ {0}) PROVE 0 \notin File!Range(w)
        BY <3>2 DEF File!Range
      <3>. QED
        BY <3>1, <3>2
    <2>. HIDE DEF p, q
    <2>. QED
      BY <2>1, <2>2, <2>3
  <1>. HIDE DEF p, q, c, l
  <1>7. /\ File!Span(r.name, r.nameLength, f.strings) /\ File!Span(r.contract, r.contractLength, f.strings)
        /\ Len(p) > 0 /\ Len(q) > 0
    <2>1. Len(p) > 0 /\ Len(q) > 0
      BY <1>2, <1>3
    <2>2. File!Span(c, Len(p), l) /\ File!Span(c + Len(p), Len(q), l)
      BY <1>3 DEF File!Span
    <2>. HIDE DEF r
    <2>. QED
      BY <1>4, <2>1, <2>2
  <1>8. File!GoodSymbol(f, j)
    BY <1>2, <1>4, <1>5, <1>6, <1>7 DEF File!GoodSymbol
  <1>. QED
    BY <1>7, <1>8 DEF p, q

(* ... and its layout.                                                     *)
LEMMA LayoutGood ==
    ASSUME NEW o \in Files, File!Storable(o), NEW f, FileFields(f, o)
    PROVE  File!GoodLayout(f)
  <1>. DEFINE e == File!StringsEnd(o)
              at(k) == File!SectionAt(o, k)
              sz(k) == File!Size(o, k)
              t == File!Total(o)
  <1>0. 1 \in 1 .. 3 /\ 2 \in 1 .. 3 /\ 3 \in 1 .. 3 /\ FileParts(o)
    BY InputParts
  <1>1. /\ File!StringsAt(o) \in Nat /\ HEADER \in Nat /\ HEADER <= File!StringsAt(o) /\ File!StringsAt(o) <= e
        /\ e \in Nat /\ e <= at(1) /\ at(1) = File!Payload(o) /\ at(1) = File!Aligned(at(1))
        /\ at(1) + sz(1) <= at(2) /\ at(2) = File!Aligned(at(1) + sz(1))
        /\ at(2) + sz(2) <= at(3) /\ at(3) = File!Aligned(at(2) + sz(2)) /\ t = at(3) + sz(3)
        /\ at(1) \in Nat /\ at(2) \in Nat /\ at(3) \in Nat /\ sz(1) \in Nat /\ sz(2) \in Nat /\ sz(3) \in Nat
    <2>. HIDE DEF e, at, sz, t
    <2>1. /\ File!StringsAt(o) \in Nat /\ HEADER \in Nat /\ HEADER <= File!StringsAt(o) /\ File!StringsAt(o) <= e
          /\ e \in Nat /\ e <= File!Payload(o) /\ at(1) = File!Payload(o) /\ at(1) = File!Aligned(at(1))
      BY <1>0, FileNumbers DEF e, at
    <2>2. /\ at(1) + sz(1) <= at(2) /\ at(2) = File!Aligned(at(1) + sz(1))
          /\ at(2) + sz(2) <= at(3) /\ at(3) = File!Aligned(at(2) + sz(2)) /\ t = at(3) + sz(3)
      BY <1>0, FileNumbers DEF at, sz, t
    <2>3. at(1) \in Nat /\ at(2) \in Nat /\ at(3) \in Nat /\ sz(1) \in Nat /\ sz(2) \in Nat /\ sz(3) \in Nat
      BY <1>0, FileNumbers DEF at, sz
    <2>. QED
      BY <2>1, <2>2, <2>3
  <1>2. /\ f.fixed = File!Fixed /\ f.symbolCount = Len(o.symbols) /\ f.relocCount = Len(o.relocs)
        /\ f.symbolsAt = HEADER /\ f.relocsAt = File!RelocsAt(o) /\ f.stringsAt = File!StringsAt(o)
        /\ f.strings = Len(File!Strings(o.symbols)) /\ f.payload = at(1)
        /\ f.size = t /\ f.length = t
        /\ \A k \in 1 .. 3 : f.table[k].fixed = File!SectionFixed(k) /\ f.table[k].size = sz(k) /\ f.table[k].at = at(k)
    BY <1>1 DEF FileFields
  <1>3. t <= FILE_LIMIT /\ FILE_LIMIT \in Nat
    <2>1. 3 \in File!Sections
      BY DEF File!Sections
    <2>. QED
      BY <1>1, <2>1, FileAssumption DEF File!Storable, File!FitsFile
  <1>4. ASSUME NEW from \in Nat, NEW to \in Nat, e <= from, to <= t,
               \A x \in from .. to - 1 : \A k \in 1 .. 3 : x < at(k) \/ at(k) + sz(k) <= x
        PROVE  File!Zero(f, from, to)
    <2>. SUFFICES ASSUME NEW x \in from .. to - 1 PROVE f.bytes[x] = 0
      BY DEF File!Zero
    <2>1. x \in Nat /\ x < t /\ e <= x /\ x \in File!StringsAt(o) .. t - 1
      <3>. HIDE DEF e, t, at, sz
      <3>. QED
        BY <1>1, <1>4
    <2>2. File!ByteAt(o, x) = 0
      BY <1>0, <1>4, <2>1, BytesLaid
    <2>3. f.bytes[x] = File!ByteAt(o, x)
      BY <2>1 DEF FileFields
    <2>. QED
      BY <2>2, <2>3
  <1>5. e = File!StringsAt(o) + Len(File!Strings(o.symbols)) /\ Len(File!Strings(o.symbols)) \in Nat
    BY <1>0, FileNumbers DEF File!StringsEnd
  <1>6. \A k \in 1 .. 3 : k = 1 \/ k = 2 \/ k = 3
    OBVIOUS
  <1>. HIDE DEF e, t, at, sz
  <1>7. File!Zero(f, e, at(1)) /\ File!Zero(f, at(1) + sz(1), at(2)) /\ File!Zero(f, at(2) + sz(2), at(3))
    <2>1. File!Zero(f, e, at(1))
      <3>1. \A x \in e .. at(1) - 1 : \A k \in 1 .. 3 : x < at(k) \/ at(k) + sz(k) <= x
        BY <1>1, <1>6
      <3>2. at(1) <= t
        BY <1>1
      <3>. QED
        BY <1>1, <1>4, <3>1, <3>2
    <2>2. File!Zero(f, at(1) + sz(1), at(2))
      <3>1. \A x \in at(1) + sz(1) .. at(2) - 1 : \A k \in 1 .. 3 : x < at(k) \/ at(k) + sz(k) <= x
        BY <1>1, <1>6
      <3>2. at(2) <= t /\ at(1) + sz(1) \in Nat /\ e <= at(1) + sz(1)
        BY <1>1
      <3>. QED
        BY <1>1, <1>4, <3>1, <3>2
    <2>3. File!Zero(f, at(2) + sz(2), at(3))
      <3>1. \A x \in at(2) + sz(2) .. at(3) - 1 : \A k \in 1 .. 3 : x < at(k) \/ at(k) + sz(k) <= x
        BY <1>1, <1>6
      <3>2. at(3) <= t /\ at(2) + sz(2) \in Nat /\ e <= at(2) + sz(2)
        BY <1>1
      <3>. QED
        BY <1>1, <1>4, <3>1, <3>2
    <2>. QED
      BY <2>1, <2>2, <2>3
  <1>8. File!GoodTables(f)
    <2>1. f.length \in HEADER .. FILE_LIMIT
      <3>1. /\ HEADER \in Nat /\ at(1) \in Nat /\ at(2) \in Nat /\ at(3) \in Nat
            /\ sz(1) \in Nat /\ sz(2) \in Nat /\ sz(3) \in Nat /\ e \in Nat /\ File!StringsAt(o) \in Nat
        BY <1>1, Zenon
      <3>2. /\ HEADER <= File!StringsAt(o) /\ File!StringsAt(o) <= e /\ e <= at(1) /\ at(1) + sz(1) <= at(2)
            /\ at(2) + sz(2) <= at(3) /\ t = at(3) + sz(3)
        BY <1>1, Zenon
      <3>3. HEADER <= t /\ t \in Nat
        BY <3>1, <3>2
      <3>4. f.length = t
        BY <1>2, Zenon
      <3>. QED
        BY <1>3, <3>1, <3>3, <3>4
    <2>2. f.symbolCount <= MAX_SYMBOLS /\ f.relocCount <= MAX_RELOCS
      BY <1>2 DEF File!Storable, File!Valid
    <2>3. f.symbolsAt = File!SymbolsAt /\ f.relocsAt = f.symbolsAt + f.symbolCount * SYMBOL
          /\ f.stringsAt = f.relocsAt + f.relocCount * RELOC
      BY <1>2 DEF File!SymbolsAt, File!RelocsAt, File!StringsAt
    <2>4. File!Span(f.stringsAt, f.strings, f.length)
      <3>1. File!Span(File!StringsAt(o), Len(File!Strings(o.symbols)), t)
        <4>1. e <= t /\ e \in Nat /\ t \in Nat /\ File!StringsAt(o) \in Nat
          BY <1>1
        <4>2. ASSUME NEW a \in Nat, NEW l \in Nat, a + l <= t PROVE File!Span(a, l, t)
          BY <4>1, <4>2 DEF File!Span
        <4>. QED
          BY <1>5, <4>1, <4>2
      <3>. QED
        BY <1>2, <3>1
    <2>5. f.stringsAt + f.strings = e /\ f.payload = File!Aligned(e) /\ f.payload <= f.length /\ f.size = f.length
      <3>1. at(1) = File!Aligned(e)
        BY <1>1 DEF File!Payload, e
      <3>2. at(1) <= t
        BY <1>1
      <3>. QED
        BY <1>2, <1>5, <3>1, <3>2
    <2>6. File!Zero(f, f.stringsAt + f.strings, f.payload)
      BY <1>2, <1>7, <2>5
    <2>. QED
      BY <1>2, <2>1, <2>2, <2>3, <2>4, <2>5, <2>6 DEF File!GoodTables
  <1>9. ASSUME NEW k \in 1 .. 3 PROVE File!GoodSection(f, k)
    <2>1. f.table[k].fixed = File!SectionFixed(k)
      BY <1>2
    <2>2. File!Span(f.table[k].at, f.table[k].size, f.length)
      <3>1. File!Span(at(k), sz(k), t)
        BY <1>1, <1>6 DEF File!Span
      <3>. QED
        BY <1>2, <3>1
    <2>3. f.table[k].at = File!Aligned(File!Begin(f, k)) /\ File!Zero(f, File!Begin(f, k), f.table[k].at)
      <3>1. CASE k = 1
        <4>1. File!Begin(f, k) = at(1) /\ f.table[k].at = at(1)
          BY <1>2, <3>1 DEF File!Begin, File!TEXT
        <4>2. File!Zero(f, at(1), at(1))
          BY <1>1 DEF File!Zero
        <4>. QED
          BY <1>1, <4>1, <4>2
      <3>2. CASE k = 2
        <4>1. File!Begin(f, k) = at(1) + sz(1) /\ f.table[k].at = at(2)
          BY <1>0, <1>2, <3>2 DEF File!Begin, File!TEXT
        <4>. QED
          BY <1>1, <1>7, <4>1
      <3>3. CASE k = 3
        <4>1. File!Begin(f, k) = at(2) + sz(2) /\ f.table[k].at = at(3)
          BY <1>0, <1>2, <3>3 DEF File!Begin, File!TEXT
        <4>. QED
          BY <1>1, <1>7, <4>1
      <3>. QED
        BY <1>6, <3>1, <3>2, <3>3
    <2>. QED
      BY <2>1, <2>2, <2>3 DEF File!GoodSection
  <1>10. f.table[3].at + f.table[3].size = f.length
    BY <1>0, <1>1, <1>2
  <1>. QED
    BY <1>8, <1>9, <1>10 DEF File!GoodLayout, File!Sections, File!DATA

(* What a read leaves of a file.                                           *)
SymbolRead(f, j) ==
    [name |-> File!Slice(f, f.symbols[j].name, f.symbols[j].nameLength),
     contract |-> File!Slice(f, f.symbols[j].contract, f.symbols[j].contractLength),
     section |-> f.symbols[j].section, flags |-> f.symbols[j].flags,
     offset |-> f.symbols[j].offset, size |-> f.symbols[j].size]
RelocRead(f, j) ==
    [section |-> f.relocs[j].section, kind |-> f.relocs[j].kind, offset |-> f.relocs[j].offset,
     target |-> f.relocs[j].target, addend |-> f.relocs[j].addend]
SectionRead(f, k) == [x \in 1 .. f.table[k].size |-> f.bytes[f.table[k].at + x - 1]]
Loaded(f, r) ==
    /\ r.target = f.target /\ r.entry = f.entry
    /\ r.symbols = [j \in 1 .. f.symbolCount |-> SymbolRead(f, j)]
    /\ r.relocs = [j \in 1 .. f.relocCount |-> RelocRead(f, j)]
    /\ r.sections = [k \in 1 .. 3 |-> SectionRead(f, k)]

(* A symbol of an object, made of one read.                                *)
Understood(s) ==
    [name |-> CHOOSE n \in DOMAIN Names : Names[n] = s.name,
     contract |-> CHOOSE c \in DOMAIN Contracts : Contracts[c] = s.contract,
     section |-> s.section, kind |-> IF "function" \in s.flags THEN "function" ELSE "variable",
     import |-> "import" \in s.flags, export |-> "export" \in s.flags, offset |-> s.offset, size |-> s.size]

LEMMA ObjectRead ==
    ASSUME NEW f, NEW r, Loaded(f, r)
    PROVE  /\ File!AsObject(r).target = f.target /\ File!AsObject(r).entry = f.entry
           /\ File!AsObject(r).symbols = [j \in 1 .. f.symbolCount |-> Understood(SymbolRead(f, j))]
           /\ File!AsObject(r).relocs = [j \in 1 .. f.relocCount |-> RelocRead(f, j)]
           /\ File!AsObject(r).sections = [k \in 1 .. 3 |-> SectionRead(f, k)]
  <1>1. /\ File!AsObject(r).target = r.target /\ File!AsObject(r).entry = r.entry
        /\ File!AsObject(r).relocs = r.relocs /\ File!AsObject(r).sections = r.sections
        /\ File!AsObject(r).symbols = [j \in DOMAIN r.symbols |-> Understood(r.symbols[j])]
    BY DEF File!AsObject, Understood
  <1>2. DOMAIN r.symbols = 1 .. f.symbolCount /\ \A j \in 1 .. f.symbolCount : r.symbols[j] = SymbolRead(f, j)
    BY DEF Loaded
  <1>. QED
    BY <1>1, <1>2 DEF Loaded

(* The symbol written is the symbol read.                                  *)
LEMMA SymbolKept ==
    ASSUME NEW o \in Files, NEW f, FileFields(f, o), NEW j \in 1 .. Len(o.symbols)
    PROVE  /\ Understood(SymbolRead(f, j)) = o.symbols[j]
           /\ File!Storable(o) => File!GoodFields(SymbolRead(f, j))
  <1>. DEFINE s == o.symbols[j]
              q == SymbolRead(f, j)
  <1>1. /\ s \in File!SymbolRecords /\ s.name \in DOMAIN Names /\ s.contract \in DOMAIN Contracts
        /\ s.kind \in {"function", "variable"}
    BY InputParts
  <1>2. /\ q.name = Names[s.name] /\ q.contract = Contracts[s.contract]
        /\ q.section = s.section /\ q.flags = File!Flags(s) /\ q.offset = s.offset /\ q.size = s.size
    <2>1. /\ q.name = File!Slice(f, f.symbols[j].name, f.symbols[j].nameLength)
          /\ q.contract = File!Slice(f, f.symbols[j].contract, f.symbols[j].contractLength)
          /\ q.section = f.symbols[j].section /\ q.flags = f.symbols[j].flags
          /\ q.offset = f.symbols[j].offset /\ q.size = f.symbols[j].size
      BY DEF SymbolRead
    <2>. HIDE DEF q
    <2>2. /\ f.symbols[j].section = s.section /\ f.symbols[j].flags = File!Flags(s)
          /\ f.symbols[j].offset = s.offset /\ f.symbols[j].size = s.size
      BY DEF FileFields, SymbolFields
    <2>. QED
      BY <2>1, <2>2, SlicesRead DEF NameOf, ContractOf
  <1>3. /\ (CHOOSE n \in DOMAIN Names : Names[n] = q.name) = s.name
        /\ (CHOOSE c \in DOMAIN Contracts : Contracts[c] = q.contract) = s.contract
    <2>1. /\ \A m, n \in DOMAIN Names : Names[m] = Names[n] => m = n
          /\ \A m, n \in DOMAIN Contracts : Contracts[m] = Contracts[n] => m = n
      BY FileAssumption DEF File!FileAssumption
    <2>. HIDE DEF q, s
    <2>. QED
      BY <1>1, <1>2, <2>1
  <1>4. s.import \in BOOLEAN /\ s.export \in BOOLEAN
    BY <1>1 DEF File!SymbolRecords
  <1>5. /\ "function" \in q.flags <=> s.kind = "function"
        /\ "variable" \in q.flags <=> s.kind = "variable"
        /\ "import" \in q.flags <=> s.import
        /\ "export" \in q.flags <=> s.export
        /\ q.flags \subseteq {"function", "variable", "import", "export"}
    <2>. HIDE DEF q, s
    <2>. QED
      BY <1>1, <1>2 DEF File!Flags
  <1>6. Understood(q) = s
    <2>. HIDE DEF q
    <2>1. Understood(q) = [name |-> s.name, contract |-> s.contract, section |-> s.section, kind |-> s.kind,
                           import |-> s.import, export |-> s.export, offset |-> s.offset, size |-> s.size]
      <3>1. (IF "function" \in q.flags THEN "function" ELSE "variable") = s.kind
        BY <1>1, <1>5
      <3>2. ("import" \in q.flags) = s.import /\ ("export" \in q.flags) = s.export
        BY <1>4, <1>5
      <3>. QED
        BY <1>2, <1>3, <3>1, <3>2 DEF Understood
    <2>2. ASSUME NEW w \in File!SymbolRecords
          PROVE w = [name |-> w.name, contract |-> w.contract, section |-> w.section, kind |-> w.kind,
                     import |-> w.import, export |-> w.export, offset |-> w.offset, size |-> w.size]
      BY <2>2 DEF File!SymbolRecords
    <2>. QED
      BY <1>1, <2>1, <2>2
  <1>7. ASSUME File!Storable(o) PROVE File!GoodFields(q)
    <2>4. File!Plain(q.name) /\ File!Plain(q.contract)
      <3>1. File!Plain(Names[s.name]) /\ File!Plain(Contracts[s.contract])
        BY <1>7 DEF File!Storable, File!ValidTexts
      <3>. HIDE DEF q, s
      <3>. QED
        BY <1>2, <3>1
    <2>. HIDE DEF q, s
    <2>1. \E x : q.flags \cap {"function", "variable"} = {x}
      <3>1. CASE s.kind = "function"
        <4>1. q.flags \cap {"function", "variable"} = {"function"}
          BY <3>1, <1>5
        <4>. QED
          BY <4>1
      <3>2. CASE s.kind = "variable"
        <4>1. q.flags \cap {"function", "variable"} = {"variable"}
          BY <3>2, <1>5
        <4>. QED
          BY <4>1
      <3>. QED
        BY <1>1, <3>1, <3>2
    <2>2. Cardinality(q.flags \cap {"function", "variable"}) = 1
      BY <2>1, FS_Singleton
    <2>3. \A S : File!Cardinality(S) = Cardinality(S)
      BY DEF File!Cardinality, Cardinality
    <2>. QED
      BY <1>5, <2>2, <2>3, <2>4 DEF File!GoodFields
  <1>. QED
    BY <1>6, <1>7

(* The bytes of a section are read where they were written.                *)
LEMMA SectionKept ==
    ASSUME NEW o \in Files, NEW f, FileFields(f, o), NEW k \in 1 .. 3
    PROVE  SectionRead(f, k) = o.sections[k]
  <1>. DEFINE a == File!SectionAt(o, k)
              w == o.sections[k]
              t == File!Total(o)
  <1>0. 1 \in 1 .. 3 /\ 2 \in 1 .. 3 /\ 3 \in 1 .. 3 /\ FileParts(o)
    BY InputParts
  <1>1. w \in Seq(Nat) /\ Len(w) \in Nat /\ Len(w) = File!Size(o, k)
    BY InputParts DEF File!Size
  <1>2. /\ a \in Nat /\ t \in Nat /\ File!StringsAt(o) \in Nat /\ File!StringsAt(o) <= a /\ a + Len(w) <= t
    <2>1. /\ File!StringsAt(o) \in Nat /\ File!StringsEnd(o) \in Nat /\ File!StringsAt(o) <= File!StringsEnd(o)
          /\ File!StringsEnd(o) <= File!Payload(o) /\ File!SectionAt(o, 1) = File!Payload(o)
          /\ File!SectionAt(o, 1) \in Nat /\ File!SectionAt(o, 2) \in Nat /\ File!SectionAt(o, 3) \in Nat
          /\ File!Size(o, 1) \in Nat /\ File!Size(o, 2) \in Nat /\ File!Size(o, 3) \in Nat
      BY <1>0, FileNumbers
    <2>2. /\ File!SectionAt(o, 1) + File!Size(o, 1) <= File!SectionAt(o, 2)
          /\ File!SectionAt(o, 2) + File!Size(o, 2) <= File!SectionAt(o, 3)
          /\ t = File!SectionAt(o, 3) + File!Size(o, 3)
      BY <1>0, FileNumbers
    <2>3. k = 1 \/ k = 2 \/ k = 3
      OBVIOUS
    <2>. HIDE DEF t, w, a
    <2>4. CASE k = 1
      <3>1. a = File!SectionAt(o, 1) /\ Len(w) = File!Size(o, 1)
        BY <1>1, <2>4 DEF a
      <3>. QED
        BY <2>1, <2>2, <3>1
    <2>5. CASE k = 2
      <3>1. a = File!SectionAt(o, 2) /\ Len(w) = File!Size(o, 2)
        BY <1>1, <2>5 DEF a
      <3>. QED
        BY <2>1, <2>2, <3>1
    <2>6. CASE k = 3
      <3>1. a = File!SectionAt(o, 3) /\ Len(w) = File!Size(o, 3)
        BY <1>1, <2>6 DEF a
      <3>. QED
        BY <2>1, <2>2, <3>1
    <2>. QED
      BY <2>3, <2>4, <2>5, <2>6
  <1>3. f.table[k].size = Len(w) /\ f.table[k].at = a
    BY <1>1 DEF FileFields
  <1>4. ASSUME NEW i \in 1 .. Len(w) PROVE f.bytes[a + i - 1] = w[i]
    <2>1. PICK x \in Nat : x = a + i - 1
      BY <1>1, <1>2
    <2>2. /\ x < t /\ a <= x /\ x < a + File!Size(o, k) /\ x - a + 1 = i /\ x \in File!StringsAt(o) .. t - 1
      <3>. HIDE DEF a, t, w
      <3>. QED
        BY <1>1, <1>2, <2>1
    <2>3. File!ByteAt(o, x) = w[x - a + 1]
      BY <1>0, <2>2, BytesLaid
    <2>4. f.bytes[x] = File!ByteAt(o, x)
      BY <2>2 DEF FileFields
    <2>. QED
      BY <2>1, <2>2, <2>3, <2>4
  <1>5. SectionRead(f, k) = [i \in 1 .. Len(w) |-> w[i]]
    <2>. HIDE DEF a, w
    <2>. QED
      BY <1>3, <1>4 DEF SectionRead
  <1>. HIDE DEF w
  <1>6. w = [i \in 1 .. Len(w) |-> w[i]]
    BY <1>1
  <1>. QED
    BY <1>5, <1>6 DEF w

(* The object written is the object read.                                  *)
LEMMA SameObject ==
    ASSUME NEW o \in Files, NEW f, FileFields(f, o), NEW r, Loaded(f, r)
    PROVE  File!AsObject(r) = o
  <1>. DEFINE a == File!AsObject(r)
  <1>1. /\ o \in File!Objects /\ DOMAIN o.symbols = 1 .. Len(o.symbols) /\ DOMAIN o.relocs = 1 .. Len(o.relocs)
        /\ DOMAIN o.sections = 1 .. 3
    BY InputParts
  <1>2. /\ f.symbolCount = Len(o.symbols) /\ f.relocCount = Len(o.relocs) /\ f.target = o.target /\ f.entry = o.entry
    BY DEF FileFields
  <1>3. /\ a.target = o.target /\ a.entry = o.entry
        /\ a.symbols = [j \in 1 .. Len(o.symbols) |-> Understood(SymbolRead(f, j))]
        /\ a.relocs = [j \in 1 .. Len(o.relocs) |-> RelocRead(f, j)]
        /\ a.sections = [k \in 1 .. 3 |-> SectionRead(f, k)]
    <2>1. /\ a.target = f.target /\ a.entry = f.entry
          /\ a.symbols = [j \in 1 .. f.symbolCount |-> Understood(SymbolRead(f, j))]
          /\ a.relocs = [j \in 1 .. f.relocCount |-> RelocRead(f, j)]
          /\ a.sections = [k \in 1 .. 3 |-> SectionRead(f, k)]
      BY ObjectRead
    <2>. HIDE DEF a
    <2>. QED
      BY <1>2, <2>1, Zenon
  <1>4. o.symbols \in Seq(File!SymbolRecords) /\ o.relocs \in Seq(File!RelocRecords) /\ o.sections \in [1 .. 3 -> Seq(Nat)]
    BY <1>1 DEF File!Objects, File!Sections
  <1>5. a.symbols = o.symbols
    <2>1. \A j \in 1 .. Len(o.symbols) : Understood(SymbolRead(f, j)) = o.symbols[j]
      BY SymbolKept
    <2>2. o.symbols = [j \in 1 .. Len(o.symbols) |-> o.symbols[j]]
      <3>1. ASSUME NEW S, NEW w \in Seq(S) PROVE w = [j \in 1 .. Len(w) |-> w[j]]
        OBVIOUS
      <3>. QED
        BY <1>4, <3>1
    <2>. HIDE DEF a
    <2>. QED
      BY <1>3, <2>1, <2>2
  <1>6. a.sections = o.sections
    <2>1. \A k \in 1 .. 3 : SectionRead(f, k) = o.sections[k]
      BY SectionKept
    <2>2. o.sections = [k \in 1 .. 3 |-> o.sections[k]]
      BY <1>4
    <2>. HIDE DEF a
    <2>. QED
      BY <1>3, <2>1, <2>2
  <1>7. a.relocs = o.relocs
    <2>1. ASSUME NEW j \in 1 .. Len(o.relocs) PROVE RelocRead(f, j) = o.relocs[j]
      <3>. DEFINE s == o.relocs[j]
      <3>1. /\ f.relocs[j].section = s.section /\ f.relocs[j].kind = s.kind /\ f.relocs[j].offset = s.offset
            /\ f.relocs[j].target = s.target /\ f.relocs[j].addend = s.addend
        BY DEF FileFields, RelocFields
      <3>2. s \in File!RelocRecords
        BY InputParts
      <3>3. ASSUME NEW w \in File!RelocRecords
            PROVE w = [section |-> w.section, kind |-> w.kind, offset |-> w.offset, target |-> w.target, addend |-> w.addend]
        BY <3>3 DEF File!RelocRecords
      <3>. HIDE DEF s
      <3>4. RelocRead(f, j) = [section |-> s.section, kind |-> s.kind, offset |-> s.offset, target |-> s.target,
                               addend |-> s.addend]
        BY <3>1 DEF RelocRead
      <3>5. RelocRead(f, j) = s
        BY <3>2, <3>3, <3>4
      <3>. QED
        BY <3>5 DEF s
    <2>2. o.relocs = [j \in 1 .. Len(o.relocs) |-> o.relocs[j]]
      <3>1. ASSUME NEW S, NEW w \in Seq(S) PROVE w = [j \in 1 .. Len(w) |-> w[j]]
        OBVIOUS
      <3>. QED
        BY <1>4, <3>1
    <2>. HIDE DEF a
    <2>. QED
      BY <1>3, <2>1, <2>2
  <1>8. ASSUME NEW w \in File!Objects
        PROVE w = [target |-> w.target, entry |-> w.entry, sections |-> w.sections, symbols |-> w.symbols, relocs |-> w.relocs]
    BY <1>8 DEF File!Objects
  <1>9. a = [target |-> a.target, entry |-> a.entry, sections |-> a.sections, symbols |-> a.symbols, relocs |-> a.relocs]
    BY DEF File!AsObject
  <1>. HIDE DEF a
  <1>10. a = o
    BY <1>1, <1>3, <1>5, <1>6, <1>7, <1>8, <1>9
  <1>. QED
    BY <1>10 DEF a

(* A file, whatever became of it, whose every field the reader took, and   *)
(* the object made of it.                                                  *)
Admitted(f) ==
    /\ File!FileShaped(f) /\ File!GoodLayout(f)
    /\ \A j \in 1 .. f.symbolCount : File!GoodSymbol(f, j) /\ File!GoodFields(SymbolRead(f, j))
    /\ File!Cursor(f, f.symbolCount + 1) = f.strings
    /\ \A j \in 1 .. f.relocCount : f.relocs[j].reserved = 0
MadeOf(f, o) ==
    /\ o.target = f.target /\ o.entry = f.entry
    /\ o.symbols = [j \in 1 .. f.symbolCount |-> Understood(SymbolRead(f, j))]
    /\ o.relocs = [j \in 1 .. f.relocCount |-> RelocRead(f, j)]
    /\ o.sections = [k \in 1 .. 3 |-> SectionRead(f, k)]

SymbolFieldTypes ==
    [name : Nat, nameLength : Nat, section : Nat, flags : SUBSET STRING, offset : Nat, size : Nat,
     contract : Nat, contractLength : Nat, version : Nat, reserved : Nat]
RelocFieldTypes == [section : Nat, kind : STRING, offset : Nat, target : Nat, addend : Int, reserved : Nat]

LEMMA ShapedParts ==
    ASSUME NEW f, File!FileShaped(f), File!GoodTables(f)
    PROVE  /\ {f.symbolCount, f.relocCount, f.stringsAt, f.strings, f.payload, f.size, f.length} \subseteq Nat
           /\ \A k \in 1 .. 3 : f.table[k].size \in Nat /\ f.table[k].at \in Nat
           /\ DOMAIN f.symbols = 1 .. f.symbolCount /\ DOMAIN f.relocs = 1 .. f.relocCount
           /\ f.symbols \in Seq(SymbolFieldTypes) /\ f.relocs \in Seq(RelocFieldTypes)
           /\ f.bytes \in [f.stringsAt .. f.length - 1 -> Nat]
           /\ \A j \in 1 .. f.symbolCount : File!GoodSymbol(f, j) /\ File!GoodFields(SymbolRead(f, j)) =>
                 /\ \E n \in DOMAIN Names : Names[n] = File!Slice(f, f.symbols[j].name, f.symbols[j].nameLength)
                 /\ \E c \in DOMAIN Contracts :
                       Contracts[c] = File!Slice(f, f.symbols[j].contract, f.symbols[j].contractLength)
  <1>1. /\ {f.symbolCount, f.relocCount, f.stringsAt, f.strings, f.payload, f.size, f.length} \subseteq Nat
        /\ f.symbols \in Seq(SymbolFieldTypes) /\ f.relocs \in Seq(RelocFieldTypes)
        /\ f.table \in [File!Sections -> [fixed : {f.table[k].fixed : k \in File!Sections}, size : Nat, at : Nat]]
    BY DEF File!FileShaped, SymbolFieldTypes, RelocFieldTypes
  <1>2. /\ Len(f.symbols) = f.symbolCount /\ Len(f.relocs) = f.relocCount
        /\ f.bytes \in [f.stringsAt .. f.length - 1 -> Nat]
    BY DEF File!FileShaped
  <1>5. ASSUME NEW j \in DOMAIN f.symbols, File!GoodSymbol(f, j), File!GoodFields(SymbolRead(f, j))
        PROVE  /\ File!Slice(f, f.symbols[j].name, f.symbols[j].nameLength) \in File!Range(Names)
               /\ File!Slice(f, f.symbols[j].contract, f.symbols[j].contractLength) \in File!Range(Contracts)
    <2>1. /\ File!Plain(File!Slice(f, f.symbols[j].name, f.symbols[j].nameLength))
          /\ File!Plain(File!Slice(f, f.symbols[j].contract, f.symbols[j].contractLength))
      <3>1. /\ SymbolRead(f, j).name = File!Slice(f, f.symbols[j].name, f.symbols[j].nameLength)
            /\ SymbolRead(f, j).contract = File!Slice(f, f.symbols[j].contract, f.symbols[j].contractLength)
        BY DEF SymbolRead
      <3>2. File!Plain(SymbolRead(f, j).name) /\ File!Plain(SymbolRead(f, j).contract)
        BY <1>5 DEF File!GoodFields
      <3>. QED
        BY <3>1, <3>2
    <2>. QED
      BY <1>5, <2>1 DEF File!FileShaped
  <1>3. DOMAIN f.symbols = 1 .. f.symbolCount /\ DOMAIN f.relocs = 1 .. f.relocCount
    BY <1>1, <1>2
  <1>4. \A k \in 1 .. 3 : f.table[k].size \in Nat /\ f.table[k].at \in Nat
    <2>1. ASSUME NEW S, NEW k \in 1 .. 3, f.table \in [File!Sections -> [fixed : S, size : Nat, at : Nat]]
          PROVE  f.table[k].size \in Nat /\ f.table[k].at \in Nat
      <3>1. f.table[k] \in [fixed : S, size : Nat, at : Nat]
        BY <2>1 DEF File!Sections
      <3>. QED
        BY <3>1
    <2>. QED
      BY <1>1, <2>1
  <1>. QED
    BY <1>1, <1>2, <1>3, <1>4, <1>5 DEF File!Range

(* Each text read is that of the symbol made of it.                        *)
LEMMA TextsUnderstood ==
    ASSUME NEW f, Admitted(f), NEW o, MadeOf(f, o), NEW j \in 1 .. f.symbolCount
    PROVE  /\ o.symbols[j] = Understood(SymbolRead(f, j))
           /\ NameOf(o, j) = File!Slice(f, f.symbols[j].name, f.symbols[j].nameLength)
           /\ ContractOf(o, j) = File!Slice(f, f.symbols[j].contract, f.symbols[j].contractLength)
           /\ TextPair(o.symbols[j], NameOf(o, j), ContractOf(o, j))
  <1>. DEFINE p == File!Slice(f, f.symbols[j].name, f.symbols[j].nameLength)
              q == File!Slice(f, f.symbols[j].contract, f.symbols[j].contractLength)
              s == o.symbols[j]
  <1>1. s = Understood(SymbolRead(f, j))
    BY DEF MadeOf
  <1>2. (\E n \in DOMAIN Names : Names[n] = p) /\ (\E c \in DOMAIN Contracts : Contracts[c] = q)
    <2>1. File!GoodSymbol(f, j) /\ File!GoodFields(SymbolRead(f, j)) /\ File!GoodTables(f) /\ File!FileShaped(f)
      BY DEF Admitted, File!GoodLayout
    <2>. QED
      BY <2>1, ShapedParts
  <1>3. /\ s.name = CHOOSE n \in DOMAIN Names : Names[n] = p
        /\ s.contract = CHOOSE c \in DOMAIN Contracts : Contracts[c] = q
    <2>. HIDE DEF s
    <2>. QED
      BY <1>1 DEF Understood, SymbolRead
  <1>4. s.name \in DOMAIN Names /\ Names[s.name] = p /\ s.contract \in DOMAIN Contracts /\ Contracts[s.contract] = q
    <2>. HIDE DEF p, q, s
    <2>. QED
      BY <1>2, <1>3
  <1>5. TextPair(s, Names[s.name], Contracts[s.contract])
    BY <1>4, TextsPaired
  <1>. QED
    BY <1>1, <1>4, <1>5 DEF NameOf, ContractOf

LEMMA MadeParts ==
    ASSUME NEW f, Admitted(f), NEW o, MadeOf(f, o)
    PROVE  /\ FileParts(o) /\ Len(o.symbols) = f.symbolCount /\ Len(o.relocs) = f.relocCount
           /\ DOMAIN o.symbols = 1 .. f.symbolCount /\ DOMAIN o.relocs = 1 .. f.relocCount
           /\ \A k \in 1 .. 3 : File!Size(o, k) = f.table[k].size /\ o.sections[k] = SectionRead(f, k)
  <1>1. /\ f.symbolCount \in Nat /\ f.relocCount \in Nat /\ \A k \in 1 .. 3 : f.table[k].size \in Nat
    <2>1. File!GoodTables(f) /\ File!FileShaped(f)
      BY DEF Admitted, File!GoodLayout
    <2>. QED
      BY <2>1, ShapedParts
  <1>2. ASSUME NEW n \in Nat, NEW w, DOMAIN w = 1 .. n, w = [i \in 1 .. n |-> w[i]]
        PROVE  Len(w) = n /\ w \in Seq({w[i] : i \in 1 .. n})
    <2>. DEFINE X == {w[i] : i \in 1 .. n}
    <2>1. w \in [1 .. n -> X]
      BY <1>2
    <2>2. \A g \in [1 .. n -> X] : g \in Seq(X) /\ Len(g) = n
      <3>. HIDE DEF X
      <3>1. \A g \in [1 .. n -> X] : g \in Seq(X)
        BY SeqDef
      <3>. QED
        BY <3>1, LenProperties
    <2>. HIDE DEF X
    <2>3. w \in Seq(X) /\ Len(w) = n
      BY <2>1, <2>2
    <2>. QED
      BY <2>3 DEF X
  <1>3. /\ DOMAIN o.symbols = 1 .. f.symbolCount /\ o.symbols = [i \in 1 .. f.symbolCount |-> o.symbols[i]]
        /\ DOMAIN o.relocs = 1 .. f.relocCount /\ o.relocs = [i \in 1 .. f.relocCount |-> o.relocs[i]]
        /\ \A k \in 1 .. 3 : o.sections[k] = SectionRead(f, k)
    BY DEF MadeOf
  <1>4. /\ Len(o.symbols) = f.symbolCount /\ Len(o.relocs) = f.relocCount
        /\ Long(o.symbols, Len(o.symbols))
    <2>. DEFINE w == o.symbols
    <2>0. DOMAIN w = 1 .. f.symbolCount /\ w = [i \in 1 .. f.symbolCount |-> w[i]]
      BY <1>3
    <2>1. Len(w) = f.symbolCount /\ \E S : w \in Seq(S)
      <3>. HIDE DEF w
      <3>1. Len(w) = f.symbolCount /\ w \in Seq({w[i] : i \in 1 .. f.symbolCount})
        BY <1>1, <1>2, <2>0
      <3>. QED
        BY <3>1
    <2>2. Len(o.relocs) = f.relocCount
      BY <1>1, <1>2, <1>3
    <2>. QED
      BY <1>1, <2>1, <2>2 DEF Long
  <1>5. \A k \in 1 .. 3 : File!Size(o, k) = f.table[k].size
    <2>. TAKE k \in 1 .. 3
    <2>. DEFINE w == SectionRead(f, k)
    <2>1. DOMAIN w = 1 .. f.table[k].size /\ w = [i \in 1 .. f.table[k].size |-> w[i]]
      BY DEF SectionRead
    <2>. HIDE DEF w
    <2>2. Len(w) = f.table[k].size
      BY <1>1, <1>2, <2>1
    <2>. QED
      BY <1>3, <2>2 DEF File!Size, w
  <1>6. Readable(o.symbols)
    <2>1. \A j \in 1 .. f.symbolCount : File!TextsOf(o.symbols[j]) \in Seq(Nat)
      BY TextsUnderstood DEF TextPair
    <2>. QED
      BY <1>3, <2>1 DEF Readable
  <1>7. FileParts(o)
    BY <1>1, <1>4, <1>5, <1>6 DEF FileParts, File!Sections
  <1>. QED
    BY <1>3, <1>4, <1>5, <1>7

(* The texts read follow each other from the start of the string table.    *)
LEMMA CutsMade ==
    ASSUME NEW f, Admitted(f), NEW o, MadeOf(f, o)
    PROVE  \A j \in 0 .. f.symbolCount :
              /\ Cut(o, j) = File!Cursor(f, j + 1)
              /\ \A x \in 1 .. Cut(o, j) : Before(o.symbols, j)[x] = f.bytes[f.stringsAt + x - 1]
  <1>. DEFINE n == f.symbolCount
              s == o.symbols
              c == [j \in 0 .. n |-> File!Cursor(f, j + 1)]
              b == [y \in Nat |-> f.bytes[f.stringsAt + y - 1]]
  <1>1. n \in Nat /\ f.stringsAt \in Nat /\ f.symbols \in Seq(SymbolFieldTypes) /\ DOMAIN f.symbols = 1 .. n
    BY ShapedParts DEF Admitted, File!GoodLayout
  <1>2. Long(s, n) /\ Readable(s)
    BY MadeParts DEF FileParts
  <1>3. c[0] = 0
    BY <1>1 DEF File!Cursor
  <1>4. ASSUME NEW j \in 1 .. n
        PROVE  /\ c[j] = c[j - 1] + Len(File!TextsOf(s[j]))
               /\ \A x \in 1 .. Len(File!TextsOf(s[j])) : b[c[j - 1] + x] = File!TextsOf(s[j])[x]
    <2>. DEFINE r == f.symbols[j]
                p == NameOf(o, j)
                q == ContractOf(o, j)
                t == File!TextsOf(s[j])
    <2>1. /\ r.name = File!Cursor(f, j) /\ r.contract = r.name + r.nameLength
      BY DEF Admitted, File!GoodSymbol
    <2>2. r.name \in Nat /\ r.nameLength \in Nat /\ r.contract \in Nat /\ r.contractLength \in Nat
      <3>1. r \in SymbolFieldTypes
        BY <1>1
      <3>. QED
        BY <3>1 DEF SymbolFieldTypes
    <2>3. c[j - 1] = r.name
      <3>1. j - 1 \in 0 .. n /\ j - 1 + 1 = j
        BY <1>1
      <3>. QED
        BY <2>1, <3>1
    <2>4. c[j] = r.contract + r.contractLength
      <3>1. j \in 0 .. n /\ j + 1 # 1 /\ j + 1 - 1 = j
        BY <1>1
      <3>. QED
        BY <3>1 DEF File!Cursor
    <2>5. /\ p = File!Slice(f, r.name, r.nameLength) /\ q = File!Slice(f, r.contract, r.contractLength)
          /\ TextPair(s[j], p, q)
      BY TextsUnderstood
    <2>6. ASSUME NEW w \in Seq(Nat \ {0}), NEW from \in Nat, NEW m \in Nat, w = File!Slice(f, from, m)
          PROVE  Len(w) = m /\ \A x \in 1 .. m : w[x] = b[from + x]
      <3>1. DOMAIN w = 1 .. m /\ \A x \in 1 .. m : w[x] = f.bytes[f.stringsAt + from + x - 1]
        BY <2>6 DEF File!Slice
      <3>2. \A x \in 1 .. m : from + x \in Nat /\ f.stringsAt + (from + x) - 1 = f.stringsAt + from + x - 1
        BY <1>1
      <3>3. \A x \in 1 .. m : b[from + x] = f.bytes[f.stringsAt + (from + x) - 1]
        BY <3>2
      <3>4. Len(w) = m
        BY <3>1
      <3>. QED
        BY <3>1, <3>2, <3>3, <3>4
    <2>. HIDE DEF b, c, r, p, q, t
    <2>7. /\ p \in Seq(Nat \ {0}) /\ q \in Seq(Nat \ {0})
          /\ Len(t) = Len(p) + Len(q)
          /\ \A x \in 1 .. Len(p) : t[x] = p[x]
          /\ \A x \in 1 .. Len(q) : t[Len(p) + x] = q[x]
      BY <2>5 DEF TextPair, t
    <2>8. Len(p) = r.nameLength /\ \A x \in 1 .. r.nameLength : p[x] = b[r.name + x]
      BY <2>2, <2>5, <2>6, <2>7
    <2>9. Len(q) = r.contractLength /\ \A x \in 1 .. r.contractLength : q[x] = b[r.contract + x]
      BY <2>2, <2>5, <2>6, <2>7
    <2>. DEFINE u == r.nameLength
                v == r.contractLength
                e == r.name
    <2>10. /\ u \in Nat /\ v \in Nat /\ e \in Nat /\ r.contract = e + u /\ Len(t) = u + v
           /\ \A x \in 1 .. u : t[x] = b[e + x]
           /\ \A x \in 1 .. v : t[u + x] = b[e + u + x]
      BY <2>1, <2>2, <2>7, <2>8, <2>9
    <2>. HIDE DEF u, v, e
    <2>11. ASSUME NEW x \in 1 .. Len(t) PROVE b[e + x] = t[x]
      <3>1. CASE x <= u
        <4>1. x \in 1 .. u
          BY <2>10, <3>1
        <4>. QED
          BY <2>10, <4>1
      <3>2. CASE x > u
        <4>1. PICK y \in 1 .. v : x = u + y
          <5>1. x - u \in 1 .. v /\ x = u + (x - u)
            BY <2>10, <3>2
          <5>. QED
            BY <5>1
        <4>2. e + u + y = e + x
          BY <2>10, <4>1
        <4>. QED
          BY <2>10, <4>1, <4>2
      <3>. QED
        BY <2>10, <3>1, <3>2
    <2>12. c[j] = e + Len(t) /\ c[j - 1] = e
      <3>1. c[j - 1] = e /\ c[j] = (e + u) + v
        BY <2>3, <2>4, <2>10 DEF e, u, v
      <3>. QED
        BY <2>10, <3>1
    <2>. QED
      BY <2>11, <2>12 DEF t
  <1>5. \A j \in 0 .. n : Len(Before(s, j)) = c[j] /\ \A x \in 1 .. c[j] : Before(s, j)[x] = b[x]
    <2>1. n \in Nat
      BY <1>1
    <2>. HIDE DEF b, c, s, n
    <2>2. Follow(s, n, c, b)
      BY <1>3, <1>4 DEF Follow
    <2>3. TextsAre(s, n, c, b)
      BY <2>1, <1>2, <2>2, TextsFound
    <2>. QED
      BY <2>3 DEF TextsAre
  <1>. QED
    <2>1. ASSUME NEW j \in 0 .. n PROVE c[j] = File!Cursor(f, j + 1)
      OBVIOUS
    <2>2. ASSUME NEW j \in 0 .. n, NEW x \in 1 .. Cut(o, j) PROVE b[x] = f.bytes[f.stringsAt + x - 1]
      <3>1. x \in Nat
        BY DEF Cut
      <3>. QED
        BY <3>1
    <2>. HIDE DEF b, c
    <2>3. \A j \in 0 .. n : Cut(o, j) = c[j]
      BY <1>5 DEF Cut
    <2>. QED
      BY <1>5, <2>1, <2>2, <2>3

(* The object made puts everything where the file has it.                  *)
PlacesOf(f, o) ==
    /\ f.symbolsAt = HEADER /\ f.relocsAt = File!RelocsAt(o) /\ f.stringsAt = File!StringsAt(o)
    /\ f.strings = Len(File!Strings(o.symbols)) /\ File!StringsEnd(o) = f.stringsAt + f.strings
    /\ f.payload = File!Payload(o) /\ f.size = f.length /\ f.length = File!Total(o)
    /\ \A k \in 1 .. 3 : f.table[k].at = File!SectionAt(o, k) /\ f.table[k].size = File!Size(o, k)

LEMMA PlacesMade ==
    ASSUME NEW f, Admitted(f), NEW o, MadeOf(f, o)
    PROVE  PlacesOf(f, o)
  <1>1. /\ FileParts(o) /\ Len(o.symbols) = f.symbolCount /\ Len(o.relocs) = f.relocCount
        /\ \A k \in 1 .. 3 : File!Size(o, k) = f.table[k].size
    BY MadeParts
  <1>2. File!GoodTables(f) /\ (\A k \in 1 .. 3 : File!GoodSection(f, k))
        /\ f.table[3].at + f.table[3].size = f.length
    BY DEF Admitted, File!GoodLayout, File!Sections, File!DATA
  <1>3. f.symbolsAt = HEADER /\ f.relocsAt = File!RelocsAt(o) /\ f.stringsAt = File!StringsAt(o)
    <2>1. /\ f.symbolsAt = HEADER /\ f.relocsAt = f.symbolsAt + f.symbolCount * SYMBOL
          /\ f.stringsAt = f.relocsAt + f.relocCount * RELOC
      BY <1>2 DEF File!GoodTables, File!SymbolsAt
    <2>2. /\ File!RelocsAt(o) = HEADER + Len(o.symbols) * SYMBOL
          /\ File!StringsAt(o) = File!RelocsAt(o) + Len(o.relocs) * RELOC
      BY DEF File!RelocsAt, File!StringsAt, File!SymbolsAt
    <2>. QED
      BY <1>1, <2>1, <2>2, Zenon
  <1>4. f.strings = Len(File!Strings(o.symbols))
    <2>. DEFINE n == f.symbolCount
    <2>1. n \in Nat /\ Long(o.symbols, n) /\ Readable(o.symbols)
      <3>1. n \in Nat
        BY ShapedParts, <1>2 DEF Admitted
      <3>. QED
        BY <1>1, <3>1 DEF FileParts
    <2>2. n \in 0 .. n
      BY <2>1
    <2>3. Cut(o, n) = File!Cursor(f, n + 1)
      BY <2>2, CutsMade
    <2>4. File!Cursor(f, n + 1) = f.strings
      BY DEF Admitted
    <2>5. Before(o.symbols, n) = File!Strings(o.symbols)
      <3>. HIDE DEF n
      <3>. QED
        BY <2>1, TextsLaid
    <2>. QED
      BY <2>3, <2>4, <2>5 DEF Cut
  <1>5. File!StringsEnd(o) = f.stringsAt + f.strings
    BY <1>3, <1>4, Zenon DEF File!StringsEnd
  <1>6. f.payload = File!Payload(o)
    BY <1>2, <1>5, Zenon DEF File!GoodTables, File!Payload
  <1>7. /\ File!SectionAt(o, 1) = File!Payload(o) /\ File!Aligned(File!Payload(o)) = File!Payload(o)
        /\ File!SectionAt(o, 2) = File!Aligned(File!SectionAt(o, 1) + File!Size(o, 1))
        /\ File!SectionAt(o, 3) = File!Aligned(File!SectionAt(o, 2) + File!Size(o, 2))
        /\ File!Total(o) = File!SectionAt(o, 3) + File!Size(o, 3)
    BY <1>1, FileNumbers
  <1>8. /\ f.table[1].at = File!Aligned(f.payload)
        /\ f.table[2].at = File!Aligned(f.table[1].at + f.table[1].size)
        /\ f.table[3].at = File!Aligned(f.table[2].at + f.table[2].size)
    <2>1. 1 \in 1 .. 3 /\ 2 \in 1 .. 3 /\ 3 \in 1 .. 3 /\ 2 # 1 /\ 3 # 1 /\ 2 - 1 = 1 /\ 3 - 1 = 2
      OBVIOUS
    <2>2. /\ f.table[1].at = File!Aligned(File!Begin(f, 1)) /\ f.table[2].at = File!Aligned(File!Begin(f, 2))
          /\ f.table[3].at = File!Aligned(File!Begin(f, 3))
      BY <1>2, <2>1, Zenon DEF File!GoodSection
    <2>3. /\ File!Begin(f, 1) = f.payload /\ File!Begin(f, 2) = f.table[1].at + f.table[1].size
          /\ File!Begin(f, 3) = f.table[2].at + f.table[2].size
      BY <2>1 DEF File!Begin, File!TEXT
    <2>. QED
      BY <2>2, <2>3, Zenon
  <1>9. /\ File!Size(o, 1) = f.table[1].size /\ File!Size(o, 2) = f.table[2].size /\ File!Size(o, 3) = f.table[3].size
    BY <1>1
  <1>10. f.table[1].at = File!SectionAt(o, 1)
    BY <1>6, <1>7, <1>8, Zenon
  <1>11. f.table[2].at = File!SectionAt(o, 2)
    BY <1>7, <1>8, <1>9, <1>10, Zenon
  <1>12. f.table[3].at = File!SectionAt(o, 3)
    BY <1>7, <1>8, <1>9, <1>11, Zenon
  <1>13. f.size = f.length /\ f.length = File!Total(o)
    <2>1. f.size = f.length
      BY <1>2 DEF File!GoodTables
    <2>. QED
      BY <2>1, <1>2, <1>7, <1>9, <1>12, Zenon
  <1>14. ASSUME NEW k \in 1 .. 3 PROVE f.table[k].at = File!SectionAt(o, k) /\ f.table[k].size = File!Size(o, k)
    <2>1. k = 1 \/ k = 2 \/ k = 3
      OBVIOUS
    <2>. QED
      BY <2>1, <1>9, <1>10, <1>11, <1>12, Zenon
  <1>. QED
    BY <1>3, <1>4, <1>5, <1>6, <1>13, <1>14 DEF PlacesOf

(* Each byte of the file is the one the object made has there.             *)
LEMMA BytesMade ==
    ASSUME NEW f, Admitted(f), NEW o, MadeOf(f, o), NEW x \in File!StringsAt(o) .. File!Total(o) - 1
    PROVE  File!ByteAt(o, x) = f.bytes[x]
  <1>. DEFINE a == File!StringsAt(o)
              e == File!StringsEnd(o)
              l == File!Strings(o.symbols)
              n == f.symbolCount
  <1>1. PlacesOf(f, o) /\ FileParts(o)
    BY PlacesMade, MadeParts
  <1>2. /\ a \in Nat /\ e \in Nat /\ Len(l) \in Nat /\ e = a + Len(l) /\ e <= File!Payload(o)
        /\ File!Payload(o) \in Nat /\ a <= e
        /\ \A k \in 1 .. 3 : File!Size(o, k) \in Nat /\ File!SectionAt(o, k) \in Nat
        /\ File!SectionAt(o, 1) = File!Payload(o)
        /\ File!SectionAt(o, 1) + File!Size(o, 1) <= File!SectionAt(o, 2)
        /\ File!SectionAt(o, 2) + File!Size(o, 2) <= File!SectionAt(o, 3)
        /\ File!Total(o) = File!SectionAt(o, 3) + File!Size(o, 3)
    BY <1>1, FileNumbers DEF File!StringsEnd
  <1>3. x \in Nat /\ a <= x /\ x < File!Total(o)
    <2>0. 3 \in 1 .. 3
      OBVIOUS
    <2>1. a \in Nat /\ File!Total(o) = File!SectionAt(o, 3) + File!Size(o, 3)
      BY <1>2, Zenon
    <2>2. File!SectionAt(o, 3) \in Nat /\ File!Size(o, 3) \in Nat
      BY <1>2, <2>0, Zenon
    <2>. HIDE DEF a
    <2>3. x \in a .. File!Total(o) - 1
      BY DEF a
    <2>. QED
      BY <2>1, <2>2, <2>3
  <1>4. /\ x < e => File!ByteAt(o, x) = l[x - a + 1]
        /\ \A k \in 1 .. 3 : File!SectionAt(o, k) <= x /\ x < File!SectionAt(o, k) + File!Size(o, k)
              => File!ByteAt(o, x) = o.sections[k][x - File!SectionAt(o, k) + 1]
        /\ (/\ e <= x
            /\ \A k \in 1 .. 3 : x < File!SectionAt(o, k) \/ File!SectionAt(o, k) + File!Size(o, k) <= x)
              => File!ByteAt(o, x) = 0
    <2>1. x \in Nat /\ x < File!Total(o) /\ FileParts(o)
      BY <1>1, <1>3
    <2>. QED
      BY <2>1, BytesLaid
  <1>5. CASE x < e
    <2>1. /\ n \in Nat /\ n \in 0 .. n /\ Before(o.symbols, n) = l
      <3>1. n \in Nat
        BY ShapedParts DEF Admitted, File!GoodLayout
      <3>2. Long(o.symbols, n) /\ Readable(o.symbols)
        BY <1>1, MadeParts DEF FileParts
      <3>. HIDE DEF n
      <3>. QED
        BY <3>1, <3>2, TextsLaid DEF l
    <2>2. \A y \in 1 .. Cut(o, n) : Before(o.symbols, n)[y] = f.bytes[f.stringsAt + y - 1]
      BY <2>1, CutsMade
    <2>3. Cut(o, n) = Len(l)
      BY <2>1, Zenon DEF Cut
    <2>4. f.stringsAt = a
      BY <1>1 DEF PlacesOf
    <2>5. x - a + 1 \in 1 .. Len(l) /\ a + (x - a + 1) - 1 = x
      <3>. HIDE DEF a, l, e
      <3>. QED
        BY <1>2, <1>3, <1>5
    <2>. HIDE DEF a, l, e, n
    <2>6. l[x - a + 1] = f.bytes[a + (x - a + 1) - 1]
      <3>1. \A y \in 1 .. Len(l) : l[y] = f.bytes[a + y - 1]
        BY <2>1, <2>2, <2>3, <2>4
      <3>. QED
        BY <3>1, <2>5
    <2>. QED
      BY <1>4, <1>5, <2>5, <2>6
  <1>6. ASSUME NEW k \in 1 .. 3, File!SectionAt(o, k) <= x, x < File!SectionAt(o, k) + File!Size(o, k)
        PROVE  File!ByteAt(o, x) = f.bytes[x]
    <2>. DEFINE b == File!SectionAt(o, k)
                m == File!Size(o, k)
    <2>1. f.table[k].at = b /\ f.table[k].size = m /\ o.sections[k] = SectionRead(f, k)
      BY <1>1, MadeParts DEF PlacesOf
    <2>2. b \in Nat /\ m \in Nat
      BY <1>2
    <2>3. SectionRead(f, k) = [y \in 1 .. m |-> f.bytes[b + y - 1]]
      BY <2>1 DEF SectionRead
    <2>4. File!ByteAt(o, x) = o.sections[k][x - b + 1]
      BY <1>4, <1>6
    <2>5. x - b + 1 \in 1 .. m /\ b + (x - b + 1) - 1 = x
      <3>. HIDE DEF b, m
      <3>1. b <= x /\ x < b + m
        BY <1>6 DEF b, m
      <3>. QED
        BY <1>3, <2>2, <3>1
    <2>. HIDE DEF b, m
    <2>. QED
      BY <2>1, <2>3, <2>4, <2>5
  <1>7. CASE /\ e <= x
             /\ \A k \in 1 .. 3 : x < File!SectionAt(o, k) \/ File!SectionAt(o, k) + File!Size(o, k) <= x
    <2>1. File!ByteAt(o, x) = 0
      BY <1>4, <1>7
    <2>2. /\ File!Zero(f, e, File!SectionAt(o, 1))
          /\ File!Zero(f, File!SectionAt(o, 1) + File!Size(o, 1), File!SectionAt(o, 2))
          /\ File!Zero(f, File!SectionAt(o, 2) + File!Size(o, 2), File!SectionAt(o, 3))
      <3>0. 1 \in 1 .. 3 /\ 2 \in 1 .. 3 /\ 3 \in 1 .. 3 /\ 2 # 1 /\ 3 # 1 /\ 2 - 1 = 1 /\ 3 - 1 = 2
        OBVIOUS
      <3>1. File!GoodTables(f) /\ (\A k \in 1 .. 3 : File!GoodSection(f, k))
        BY DEF Admitted, File!GoodLayout, File!Sections
      <3>2. File!Zero(f, f.stringsAt + f.strings, f.payload)
        BY <3>1 DEF File!GoodTables
      <3>3. \A k \in 1 .. 3 : File!Zero(f, File!Begin(f, k), f.table[k].at)
        BY <3>1, Zenon DEF File!GoodSection
      <3>4. /\ f.table[1].at = File!SectionAt(o, 1) /\ f.table[2].at = File!SectionAt(o, 2)
            /\ f.table[3].at = File!SectionAt(o, 3) /\ f.payload = File!SectionAt(o, 1)
            /\ f.table[1].size = File!Size(o, 1) /\ f.table[2].size = File!Size(o, 2)
            /\ e = f.stringsAt + f.strings
        BY <1>1, <1>2, <3>0, Zenon DEF PlacesOf
      <3>5. /\ File!Begin(f, 2) = f.table[1].at + f.table[1].size
            /\ File!Begin(f, 3) = f.table[2].at + f.table[2].size
        BY <3>0 DEF File!Begin, File!TEXT
      <3>6. File!Zero(f, File!Begin(f, 2), f.table[2].at) /\ File!Zero(f, File!Begin(f, 3), f.table[3].at)
        BY <3>0, <3>3
      <3>. HIDE DEF e
      <3>. QED
        BY <3>2, <3>4, <3>5, <3>6, Zenon
    <2>3. ASSUME NEW i \in Nat, NEW j \in Nat, i <= x, x < j, File!Zero(f, i, j) PROVE f.bytes[x] = 0
      BY <1>3, <2>3 DEF File!Zero
    <2>. DEFINE a1 == File!SectionAt(o, 1)
                a2 == File!SectionAt(o, 2)
                a3 == File!SectionAt(o, 3)
                b1 == a1 + File!Size(o, 1)
                b2 == a2 + File!Size(o, 2)
                b3 == a3 + File!Size(o, 3)
    <2>4. /\ a1 \in Nat /\ a2 \in Nat /\ a3 \in Nat /\ b1 \in Nat /\ b2 \in Nat /\ b3 \in Nat
          /\ e \in Nat /\ e <= x /\ x < b3
          /\ (x < a1 \/ b1 <= x) /\ (x < a2 \/ b2 <= x) /\ (x < a3 \/ b3 <= x)
      <3>1. 1 \in 1 .. 3 /\ 2 \in 1 .. 3 /\ 3 \in 1 .. 3
        OBVIOUS
      <3>. HIDE DEF e
      <3>2. (x < a1 \/ b1 <= x) /\ (x < a2 \/ b2 <= x) /\ (x < a3 \/ b3 <= x)
        BY <1>7, <3>1, Zenon
      <3>3. x < b3
        <4>1. File!Total(o) = b3
          BY <1>2, Zenon
        <4>. QED
          BY <1>3, <4>1
      <3>4. a1 \in Nat /\ a2 \in Nat /\ a3 \in Nat /\ b1 \in Nat /\ b2 \in Nat /\ b3 \in Nat
        <4>1. /\ a1 \in Nat /\ a2 \in Nat /\ a3 \in Nat
              /\ File!Size(o, 1) \in Nat /\ File!Size(o, 2) \in Nat /\ File!Size(o, 3) \in Nat
          BY <1>2, <3>1, Zenon
        <4>. QED
          BY <4>1
      <3>. QED
        BY <1>2, <1>7, <3>2, <3>3, <3>4
    <2>5. File!Zero(f, e, a1) /\ File!Zero(f, b1, a2) /\ File!Zero(f, b2, a3)
      BY <2>2
    <2>6. a1 <= b1 /\ b1 <= a2 /\ a2 <= b2 /\ b2 <= a3
      <3>0. 1 \in 1 .. 3 /\ 2 \in 1 .. 3
        OBVIOUS
      <3>1. File!Size(o, 1) \in Nat /\ File!Size(o, 2) \in Nat /\ File!SectionAt(o, 1) \in Nat /\ File!SectionAt(o, 2) \in Nat
        BY <1>2, <3>0, Zenon
      <3>2. b1 <= a2 /\ b2 <= a3
        BY <1>2, Zenon
      <3>. QED
        BY <3>1, <3>2
    <2>. HIDE DEF a1, a2, a3, b1, b2, b3, e
    <2>7. x < a1 \/ (b1 <= x /\ x < a2) \/ (b2 <= x /\ x < a3)
      BY <1>3, <2>4, <2>6
    <2>8. f.bytes[x] = 0
      BY <2>3, <2>4, <2>5, <2>7
    <2>. QED
      BY <2>1, <2>8
  <1>8. \/ x < e \/ (\E k \in 1 .. 3 : File!SectionAt(o, k) <= x /\ x < File!SectionAt(o, k) + File!Size(o, k))
        \/ (/\ e <= x
            /\ \A k \in 1 .. 3 : x < File!SectionAt(o, k) \/ File!SectionAt(o, k) + File!Size(o, k) <= x)
    <2>1. ASSUME NEW k \in 1 .. 3
          PROVE  \/ File!SectionAt(o, k) <= x /\ x < File!SectionAt(o, k) + File!Size(o, k)
                 \/ x < File!SectionAt(o, k) \/ File!SectionAt(o, k) + File!Size(o, k) <= x
      <3>1. File!SectionAt(o, k) \in Nat /\ File!Size(o, k) \in Nat
        BY <1>2
      <3>. QED
        BY <1>3, <3>1
    <2>2. x < e \/ e <= x
      <3>. HIDE DEF e
      <3>. QED
        BY <1>2, <1>3
    <2>. HIDE DEF e
    <2>. QED
      BY <2>1, <2>2
  <1>. QED
    BY <1>5, <1>6, <1>7, <1>8

LEMMA OneRole ==
    ASSUME NEW s, File!GoodFields(s)
    PROVE  /\ s.flags \subseteq {"function", "variable", "import", "export"}
           /\ "function" \in s.flags <=> "variable" \notin s.flags
  <1>. DEFINE e == s.flags \cap {"function", "variable"}
  <1>1. s.flags \subseteq {"function", "variable", "import", "export"} /\ Cardinality(e) = 1
    BY DEF File!GoodFields, File!Cardinality, Cardinality
  <1>2. PICK c : e = {c}
    <2>1. IsFiniteSet({"function", "variable"}) /\ IsFiniteSet(e)
      <3>1. IsFiniteSet({"function"})
        BY FS_Singleton
      <3>2. {"function", "variable"} = {"function"} \cup {"variable"}
        OBVIOUS
      <3>3. IsFiniteSet({"function", "variable"})
        BY <3>1, <3>2, FS_AddElement
      <3>. QED
        BY <3>3, FS_Subset
    <2>. HIDE DEF e
    <2>. QED
      BY <1>1, <2>1, FS_Singleton
  <1>3. c = "function" \/ c = "variable"
    BY <1>2
  <1>. QED
    BY <1>1, <1>2, <1>3

(* The records of the object made are those that were read.                *)
LEMMA SymbolMade ==
    ASSUME NEW f, Admitted(f), NEW o, MadeOf(f, o), NEW j \in 1 .. f.symbolCount
    PROVE  File!SymbolRecord(o, j) = f.symbols[j]
  <1>. DEFINE r == f.symbols[j]
              s == o.symbols[j]
              p == NameOf(o, j)
              q == ContractOf(o, j)
  <1>1. f.symbolCount \in Nat /\ r \in SymbolFieldTypes
    BY ShapedParts DEF Admitted, File!GoodLayout
  <1>2. File!GoodSymbol(f, j) /\ File!GoodFields(SymbolRead(f, j))
    BY DEF Admitted
  <1>3. s = Understood(SymbolRead(f, j)) /\ p = File!Slice(f, r.name, r.nameLength)
        /\ q = File!Slice(f, r.contract, r.contractLength) /\ TextPair(s, p, q)
    BY TextsUnderstood
  <1>4. Cut(o, j - 1) = r.name
    <2>1. j - 1 \in 0 .. f.symbolCount /\ j - 1 + 1 = j
      BY <1>1
    <2>2. Cut(o, j - 1) = File!Cursor(f, j - 1 + 1)
      BY <2>1, CutsMade
    <2>. QED
      BY <1>2, <2>1, <2>2 DEF File!GoodSymbol
  <1>5. Len(p) = r.nameLength /\ Len(q) = r.contractLength
    <2>1. r.nameLength \in Nat /\ r.contractLength \in Nat
      BY <1>1 DEF SymbolFieldTypes
    <2>2. p \in Seq(Nat \ {0}) /\ q \in Seq(Nat \ {0}) /\ DOMAIN p = 1 .. r.nameLength /\ DOMAIN q = 1 .. r.contractLength
      BY <1>3 DEF TextPair, File!Slice
    <2>. HIDE DEF p, q, r
    <2>. QED
      BY <2>1, <2>2
  <1>6. /\ s.section = r.section /\ s.offset = r.offset /\ s.size = r.size
        /\ s.kind = (IF "function" \in r.flags THEN "function" ELSE "variable")
        /\ s.import = ("import" \in r.flags) /\ s.export = ("export" \in r.flags)
    <2>. HIDE DEF s
    <2>. QED
      BY <1>3 DEF Understood, SymbolRead
  <1>7. File!Flags(s) = r.flags
    <2>1. /\ r.flags \subseteq {"function", "variable", "import", "export"}
          /\ "function" \in r.flags <=> "variable" \notin r.flags
      BY <1>2, OneRole DEF SymbolRead
    <2>2. File!Flags(s) = {s.kind} \cup (IF s.import THEN {"import"} ELSE {}) \cup (IF s.export THEN {"export"} ELSE {})
      BY DEF File!Flags
    <2>. DEFINE g == r.flags
    <2>3. /\ s.kind = (IF "function" \in g THEN "function" ELSE "variable")
          /\ s.import = ("import" \in g) /\ s.export = ("export" \in g)
          /\ g \subseteq {"function", "variable", "import", "export"}
          /\ "function" \in g <=> "variable" \notin g
      BY <1>6, <2>1
    <2>. HIDE DEF s, g
    <2>4. /\ (IF s.import THEN {"import"} ELSE {}) = (IF "import" \in g THEN {"import"} ELSE {})
          /\ (IF s.export THEN {"export"} ELSE {}) = (IF "export" \in g THEN {"export"} ELSE {})
      BY <2>3
    <2>5. File!Flags(s) = {s.kind} \cup (IF "import" \in g THEN {"import"} ELSE {})
                                   \cup (IF "export" \in g THEN {"export"} ELSE {})
      BY <2>2, <2>4
    <2>6. ASSUME NEW c PROVE c \in File!Flags(s) <=> c \in g
      BY <2>3, <2>5
    <2>. QED
      BY <2>6 DEF g
  <1>8. File!SymbolRecord(o, j) =
           [name |-> Cut(o, j - 1), nameLength |-> Len(p), section |-> s.section, flags |-> File!Flags(s),
            offset |-> s.offset, size |-> s.size, contract |-> Cut(o, j - 1) + Len(p),
            contractLength |-> Len(q), version |-> 1, reserved |-> 0]
    BY DEF File!SymbolRecord, Cut, Before, NameOf, ContractOf
  <1>9. /\ r.contract = r.name + r.nameLength /\ r.version = 1 /\ r.reserved = 0
    BY <1>2 DEF File!GoodSymbol
  <1>10. r = [name |-> r.name, nameLength |-> r.nameLength, section |-> r.section, flags |-> r.flags,
              offset |-> r.offset, size |-> r.size, contract |-> r.contract,
              contractLength |-> r.contractLength, version |-> r.version, reserved |-> r.reserved]
    <2>. HIDE DEF r
    <2>. QED
      BY <1>1 DEF SymbolFieldTypes
  <1>. HIDE DEF s, p, q, r
  <1>11. File!SymbolRecord(o, j) = r
    BY <1>4, <1>5, <1>6, <1>7, <1>8, <1>9, <1>10
  <1>. QED
    BY <1>11 DEF r

LEMMA RelocMade ==
    ASSUME NEW f, Admitted(f), NEW o, MadeOf(f, o), NEW j \in 1 .. f.relocCount
    PROVE  File!RelocRecord(o.relocs[j]) = f.relocs[j]
  <1>. DEFINE r == f.relocs[j]
              s == o.relocs[j]
  <1>1. r \in RelocFieldTypes
    BY ShapedParts DEF Admitted, File!GoodLayout
  <1>2. s = RelocRead(f, j) /\ r.reserved = 0
    BY DEF MadeOf, Admitted
  <1>3. /\ s.section = r.section /\ s.kind = r.kind /\ s.offset = r.offset /\ s.target = r.target
        /\ s.addend = r.addend
    <2>. HIDE DEF s
    <2>. QED
      BY <1>2 DEF RelocRead
  <1>4. r = [section |-> r.section, kind |-> r.kind, offset |-> r.offset, target |-> r.target,
             addend |-> r.addend, reserved |-> r.reserved]
    <2>. HIDE DEF r
    <2>. QED
      BY <1>1 DEF RelocFieldTypes
  <1>5. File!RelocRecord(s) =
           [section |-> s.section, kind |-> s.kind, offset |-> s.offset, target |-> s.target,
            addend |-> s.addend, reserved |-> 0]
    BY DEF File!RelocRecord
  <1>. HIDE DEF r, s
  <1>6. File!RelocRecord(s) = r
    BY <1>2, <1>3, <1>4, <1>5
  <1>. QED
    BY <1>6 DEF r, s

(* A file from which an object is made is the file of that object.         *)
LEMMA SameFile ==
    ASSUME NEW f, Admitted(f), NEW o, MadeOf(f, o)
    PROVE  File!FileOf(o) = f
  <1>1. f = [fixed |-> f.fixed, target |-> f.target, entry |-> f.entry, symbolCount |-> f.symbolCount,
             relocCount |-> f.relocCount, symbolsAt |-> f.symbolsAt, relocsAt |-> f.relocsAt,
             stringsAt |-> f.stringsAt, strings |-> f.strings, payload |-> f.payload, size |-> f.size,
             table |-> f.table, symbols |-> f.symbols, relocs |-> f.relocs, bytes |-> f.bytes, length |-> f.length]
    <2>1. ASSUME NEW A, NEW B, NEW C, NEW D, NEW E,
                 f \in [fixed : A, target : Nat, entry : Nat, symbolCount : Nat, relocCount : Nat, symbolsAt : Nat,
                        relocsAt : Nat, stringsAt : Nat, strings : Nat, payload : Nat, size : Nat, length : Nat,
                        table : B, symbols : C, relocs : D, bytes : E]
          PROVE  <1>1!:
      BY <2>1
    <2>. QED
      BY <2>1 DEF Admitted, File!FileShaped
  <1>2. PlacesOf(f, o)
    BY PlacesMade
  <1>3. /\ Len(o.symbols) = f.symbolCount /\ Len(o.relocs) = f.relocCount
        /\ DOMAIN o.symbols = 1 .. f.symbolCount /\ DOMAIN o.relocs = 1 .. f.relocCount
    BY MadeParts
  <1>4. File!GoodTables(f) /\ File!FileShaped(f) /\ \A k \in 1 .. 3 : File!GoodSection(f, k)
    BY DEF Admitted, File!GoodLayout, File!Sections
  <1>5. o.target = f.target /\ o.entry = f.entry /\ File!Fixed = f.fixed
    BY <1>4 DEF MadeOf, File!GoodTables
  <1>6. [j \in DOMAIN o.symbols |-> File!SymbolRecord(o, j)] = f.symbols
    <2>1. f.symbols = [j \in 1 .. f.symbolCount |-> f.symbols[j]]
      BY <1>4, ShapedParts
    <2>. QED
      BY <1>3, <2>1, SymbolMade
  <1>7. [j \in DOMAIN o.relocs |-> File!RelocRecord(o.relocs[j])] = f.relocs
    <2>1. f.relocs = [j \in 1 .. f.relocCount |-> f.relocs[j]]
      BY <1>4, ShapedParts
    <2>. QED
      BY <1>3, <2>1, RelocMade
  <1>8. [k \in File!Sections |-> [fixed |-> File!SectionFixed(k), size |-> File!Size(o, k),
                                  at |-> File!SectionAt(o, k)]] = f.table
    <2>1. ASSUME NEW S, f.table \in [File!Sections -> [fixed : S, size : Nat, at : Nat]]
          PROVE  /\ f.table = [k \in File!Sections |-> f.table[k]]
                 /\ \A k \in File!Sections :
                       f.table[k] = [fixed |-> f.table[k].fixed, size |-> f.table[k].size, at |-> f.table[k].at]
      <3>1. ASSUME NEW k \in File!Sections
            PROVE  f.table[k] = [fixed |-> f.table[k].fixed, size |-> f.table[k].size, at |-> f.table[k].at]
        <4>1. f.table[k] \in [fixed : S, size : Nat, at : Nat]
          BY <2>1
        <4>. QED
          BY <4>1
      <3>. QED
        BY <2>1, <3>1
    <2>2. f.table \in [File!Sections -> [fixed : {f.table[k].fixed : k \in File!Sections}, size : Nat, at : Nat]]
      BY <1>4 DEF File!FileShaped
    <2>3. \A k \in File!Sections :
             /\ f.table[k].fixed = File!SectionFixed(k) /\ f.table[k].size = File!Size(o, k)
             /\ f.table[k].at = File!SectionAt(o, k)
      BY <1>2, <1>4 DEF File!GoodSection, PlacesOf, File!Sections
    <2>4. /\ f.table = [k \in File!Sections |-> f.table[k]]
          /\ \A k \in File!Sections :
                f.table[k] = [fixed |-> f.table[k].fixed, size |-> f.table[k].size, at |-> f.table[k].at]
      BY <2>1, <2>2
    <2>. QED
      BY <2>3, <2>4
  <1>9. [x \in File!StringsAt(o) .. File!Total(o) - 1 |-> File!ByteAt(o, x)] = f.bytes
    <2>1. f.bytes = [x \in File!StringsAt(o) .. File!Total(o) - 1 |-> f.bytes[x]]
      <3>1. f.bytes \in [f.stringsAt .. f.length - 1 -> Nat]
        BY <1>4, ShapedParts
      <3>2. f.stringsAt = File!StringsAt(o) /\ f.length = File!Total(o)
        BY <1>2 DEF PlacesOf
      <3>. QED
        BY <3>1, <3>2
    <2>. QED
      BY <2>1, BytesMade
  <1>10. /\ f.symbolsAt = File!SymbolsAt /\ f.relocsAt = File!RelocsAt(o) /\ f.stringsAt = File!StringsAt(o)
         /\ f.strings = Len(File!Strings(o.symbols)) /\ f.payload = File!Payload(o)
         /\ f.size = File!Total(o) /\ f.length = File!Total(o)
    BY <1>2 DEF PlacesOf, File!SymbolsAt
  <1>11. File!FileOf(o) =
           [fixed |-> f.fixed, target |-> f.target, entry |-> f.entry, symbolCount |-> f.symbolCount,
            relocCount |-> f.relocCount, symbolsAt |-> f.symbolsAt, relocsAt |-> f.relocsAt,
            stringsAt |-> f.stringsAt, strings |-> f.strings, payload |-> f.payload, size |-> f.size,
            table |-> f.table, symbols |-> f.symbols, relocs |-> f.relocs, bytes |-> f.bytes, length |-> f.length]
    <2>1. File!FileOf(o) =
           [fixed |-> File!Fixed, target |-> o.target, entry |-> o.entry, symbolCount |-> Len(o.symbols),
            relocCount |-> Len(o.relocs), symbolsAt |-> File!SymbolsAt, relocsAt |-> File!RelocsAt(o),
            stringsAt |-> File!StringsAt(o), strings |-> Len(File!Strings(o.symbols)), payload |-> File!Payload(o),
            size |-> File!Total(o), table |-> f.table, symbols |-> f.symbols, relocs |-> f.relocs,
            bytes |-> f.bytes, length |-> File!Total(o)]
      BY <1>6, <1>7, <1>8, <1>9, Zenon DEF File!FileOf
    <2>. QED
      BY <1>3, <1>5, <1>10, <2>1, Zenon
  <1>. QED
    BY <1>1, <1>11, Zenon

-----------------------------------------------------------------------------
(* nt_object_read, record by record.                                       *)

Empty6 == [name |-> File!NoText, contract |-> File!NoText, section |-> 0, flags |-> {}, offset |-> 0, size |-> 0]
SoFar(f, t) == [j \in 1 .. f.symbolCount |-> IF j <= t THEN SymbolRead(f, j) ELSE Empty6]
NoneYet(f) == [j \in 1 .. f.relocCount |-> {}]
NoBytes == [k \in 1 .. 3 |-> <<>>]
TheSymbols(f) == [j \in 1 .. f.symbolCount |-> SymbolRead(f, j)]
TheRelocs(f) == [j \in 1 .. f.relocCount |-> RelocRead(f, j)]
TheSections(f) == [k \in 1 .. 3 |-> SectionRead(f, k)]
Reading(f, s, r, b) ==
    [owned |-> TRUE, target |-> f.target, entry |-> f.entry, symbols |-> s, relocs |-> r, sections |-> b]

(* What a reader that came to the sections has found in order.             *)
Checked(f) ==
    /\ File!GoodLayout(f) /\ \A j \in 1 .. f.symbolCount : File!GoodSymbol(f, j)
    /\ File!Cursor(f, f.symbolCount + 1) = f.strings
    /\ \A j \in 1 .. f.relocCount : f.relocs[j].reserved = 0

(* The file written, or what became of it.                                 *)
SoundFile(f, o, w) == IF w THEN File!Storable(o) /\ f = File!FileOf(o) ELSE File!FileShaped(f)

FileKept == /\ object \in Files /\ whole \in BOOLEAN /\ (turn = "write" => whole)
            /\ turn \notin {"write", "refused"} => SoundFile(file, object, whole)
NotYetRead == turn \in {"write", "written"} =>
    /\ taken = 0 /\ blocks = {} /\ verdict = "none"
    /\ read \in {File!Unread, [File!Unread EXCEPT !.owned = TRUE]}
SymbolsComing == turn = "symbols" =>
    /\ taken \in 0 .. file.symbolCount /\ File!GoodLayout(file)
    /\ \A j \in 1 .. taken : File!GoodSymbol(file, j)
    /\ read = Reading(file, SoFar(file, taken), NoneYet(file), NoBytes)
SectionsComing == turn = "sections" =>
    Checked(file) /\ read = Reading(file, TheSymbols(file), TheRelocs(file), NoBytes)
AllRead == turn \in {"validate", "read"} =>
    Checked(file) /\ read = Reading(file, TheSymbols(file), TheRelocs(file), TheSections(file))
RolesGood == turn = "read" => \A j \in 1 .. file.symbolCount : File!GoodFields(SymbolRead(file, j))
BlocksHeld == turn \in {"symbols", "sections", "validate", "release", "read"} => blocks = File!Reachable(read)
BlamedRight == whole /\ turn \in {"release", "failed"} => verdict \in {"output", "allocation"}
Emptied == turn = "failed" => blocks = {} /\ (verdict = "output" \/ read = File!Unread)

FileIInv ==
    /\ FileKept /\ NotYetRead /\ SymbolsComing /\ SectionsComing /\ AllRead /\ RolesGood
    /\ BlocksHeld /\ BlamedRight /\ Emptied

LEMMA SoundCounts ==
    ASSUME NEW o \in Files, NEW f, NEW w \in BOOLEAN, SoundFile(f, o, w), File!GoodLayout(f)
    PROVE  f.symbolCount \in Nat /\ f.relocCount \in Nat /\ \A k \in 1 .. 3 : f.table[k].size \in Nat
  <1>1. CASE w
    <2>1. FileFields(f, o)
      BY <1>1, FieldsWritten DEF SoundFile
    <2>2. FileParts(o) /\ Len(o.symbols) \in Nat /\ Len(o.relocs) \in Nat
      <3>1. FileParts(o)
        BY InputParts
      <3>. QED
        BY <3>1, FileNumbers DEF FileParts
    <2>. QED
      BY <2>1, <2>2 DEF FileFields, FileParts, File!Sections
  <1>2. CASE ~ w
    BY <1>2, ShapedParts DEF SoundFile, File!GoodLayout
  <1>. QED
    BY <1>1, <1>2

(* The reader finds nothing wrong with a file that was kept well.          *)
LEMMA WholeChecked ==
    ASSUME NEW o \in Files, File!Storable(o)
    PROVE  /\ Checked(File!FileOf(o)) /\ File!FileOf(o).symbolCount \in Nat
           /\ \A j \in 1 .. File!FileOf(o).symbolCount : File!GoodFields(SymbolRead(File!FileOf(o), j))
  <1>. DEFINE f == File!FileOf(o)
  <1>1. FileFields(f, o)
    BY FieldsWritten
  <1>. HIDE DEF f
  <1>2. File!GoodLayout(f) /\ \A j \in 1 .. Len(o.symbols) : File!GoodSymbol(f, j)
    BY <1>1, LayoutGood, SymbolsGood
  <1>3. f.symbolCount = Len(o.symbols) /\ f.relocCount = Len(o.relocs) /\ f.strings = Len(File!Strings(o.symbols))
    BY <1>1 DEF FileFields
  <1>4. Len(o.symbols) \in Nat
    <2>1. FileParts(o)
      BY InputParts
    <2>. QED
      BY <2>1, FileNumbers
  <1>5. File!Cursor(f, f.symbolCount + 1) = f.strings
    <2>1. PICK n \in Nat : n = Len(o.symbols)
      BY <1>4
    <2>2. n + 1 \in 1 .. n + 1 /\ n + 1 - 1 = n
      OBVIOUS
    <2>3. \A j \in 1 .. n + 1 : File!Cursor(f, j) = Cut(o, j - 1)
      BY <1>1, <2>1, CursorsRead
    <2>4. File!Cursor(f, n + 1) = Cut(o, n)
      BY <2>2, <2>3
    <2>5. Cut(o, Len(o.symbols)) = Len(File!Strings(o.symbols))
      BY CutsInOrder
    <2>. QED
      BY <1>3, <2>1, <2>4, <2>5, Zenon
  <1>6. \A j \in 1 .. f.relocCount : f.relocs[j].reserved = 0
    BY <1>1, <1>3 DEF FileFields, RelocFields
  <1>7. \A j \in 1 .. f.symbolCount : File!GoodFields(SymbolRead(f, j))
    BY <1>1, <1>3, SymbolKept
  <1>8. Checked(f)
    BY <1>2, <1>3, <1>5, <1>6 DEF Checked
  <1>9. f.symbolCount \in Nat
    BY <1>3, <1>4
  <1>. QED
    BY <1>7, <1>8, <1>9 DEF f

LEMMA ReadingFields ==
    ASSUME NEW f, NEW s, NEW r, NEW b, NEW e, e = Reading(f, s, r, b)
    PROVE  /\ e.owned = TRUE /\ e.target = f.target /\ e.entry = f.entry
           /\ e.symbols = s /\ e.relocs = r /\ e.sections = b
  BY DEF Reading

LEMMA ReachableIs ==
    ASSUME NEW r, NEW c
    PROVE  c \in File!Reachable(r) <=>
             \/ \E k \in 1 .. 3 : r.sections[k] # <<>> /\ c = <<"section", k>>
             \/ \E j \in DOMAIN r.symbols : c = <<"symbols">>
             \/ \E j \in DOMAIN r.relocs : c = <<"relocs">>
             \/ \E j \in DOMAIN r.symbols : r.symbols[j].name # <<>> /\ c = <<"name", j>>
             \/ \E j \in DOMAIN r.symbols : r.symbols[j].contract # <<>> /\ c = <<"contract", j>>
  BY DEF File!Reachable, File!Sections, File!NoText

LEMMA FileStarts == ASSUME File!Init, object \in Files PROVE FileIInv
  BY DEF File!Init, FileIInv, FileKept, NotYetRead, SymbolsComing, SectionsComing, AllRead, RolesGood,
         BlocksHeld, BlamedRight, Emptied

LEMMA FileWrite == ASSUME FileIInv, File!Write PROVE FileIInv'
  <1>1. turn = "write" /\ turn' \in {"written", "refused"} /\ UNCHANGED <<object, whole, read, taken, blocks>>
    BY DEF File!Write
  <1>2. FileKept'
    <2>1. turn' = "written" => File!Storable(object) /\ file' = File!FileOf(object)
      BY DEF File!Write
    <2>. QED
      BY <1>1, <2>1 DEF FileIInv, FileKept, SoundFile
  <1>3. NotYetRead'
    <2>1. turn' = "written" => UNCHANGED verdict
      BY DEF File!Write
    <2>. QED
      BY <1>1, <2>1 DEF FileIInv, NotYetRead
  <1>. QED
    BY <1>1, <1>2, <1>3 DEF FileIInv, SymbolsComing, SectionsComing, AllRead, RolesGood, BlocksHeld, BlamedRight, Emptied

LEMMA FileDamage == ASSUME FileIInv, File!Damage PROVE FileIInv'
  <1>1. turn = "written" /\ whole /\ file' \in Damaged(file) /\ whole' = FALSE
        /\ UNCHANGED <<object, read, taken, blocks, verdict, turn>>
    BY DEF File!Damage
  <1>2. FileKept'
    <2>1. object \in Files /\ File!Storable(object) /\ file = File!FileOf(object)
      BY <1>1 DEF FileIInv, FileKept, SoundFile
    <2>2. File!FileShaped(file')
      BY <1>1, <2>1, FileAssumption DEF File!FileAssumption
    <2>. QED
      BY <1>1, <2>1, <2>2 DEF FileKept, SoundFile
  <1>3. NotYetRead'
    BY <1>1 DEF FileIInv, NotYetRead
  <1>. QED
    BY <1>1, <1>2, <1>3 DEF FileIInv, SymbolsComing, SectionsComing, AllRead, RolesGood, BlocksHeld, BlamedRight, Emptied

(* The reader only looks at the file.                                      *)
LEMMA FileUnchanged ==
    ASSUME FileIInv, turn \notin {"write", "refused"}, turn' # "write", UNCHANGED <<object, file, whole>> PROVE FileKept'
  BY DEF FileIInv, FileKept, SoundFile

LEMMA FileRelease == ASSUME FileIInv, File!Release PROVE FileIInv'
  <1>1. turn = "release" /\ blocks' = blocks \ File!Reachable(read) /\ read' = File!Unread /\ turn' = "failed"
        /\ UNCHANGED <<object, file, whole, taken, verdict>>
    BY DEF File!Release
  <1>2. FileKept'
    BY <1>1, FileUnchanged
  <1>3. BlamedRight' /\ Emptied'
    BY <1>1 DEF FileIInv, BlocksHeld, BlamedRight, Emptied
  <1>. QED
    BY <1>1, <1>2, <1>3 DEF FileIInv, NotYetRead, SymbolsComing, SectionsComing, AllRead, RolesGood, BlocksHeld

LEMMA FileStops == ASSUME FileIInv, UNCHANGED File!vars PROVE FileIInv'
  BY DEF File!vars, FileIInv, FileKept, SoundFile, NotYetRead, SymbolsComing, SectionsComing, AllRead, RolesGood,
         BlocksHeld, BlamedRight, Emptied

LEMMA FileValidate == ASSUME FileIInv, File!Validate PROVE FileIInv'
  <1>1. turn = "validate" /\ turn' \in {"read", "release"} /\ UNCHANGED <<object, file, whole, read, taken, blocks>>
    BY DEF File!Validate, File!Reject
  <1>2. FileKept'
    BY <1>1, FileUnchanged
  <1>3. Checked(file) /\ read = Reading(file, TheSymbols(file), TheRelocs(file), TheSections(file))
        /\ object \in Files /\ SoundFile(file, object, whole) /\ whole \in BOOLEAN
    BY <1>1 DEF FileIInv, AllRead, FileKept
  <1>4. AllRead' /\ BlocksHeld'
    BY <1>1 DEF FileIInv, AllRead, BlocksHeld
  <1>5. Loaded(file, read) /\ DOMAIN read.symbols = 1 .. file.symbolCount
        /\ \A j \in 1 .. file.symbolCount : read.symbols[j] = SymbolRead(file, j)
    BY <1>3 DEF Loaded, Reading, TheSymbols, TheRelocs, TheSections
  <1>6. RolesGood'
    BY <1>1, <1>5 DEF File!Validate, File!Reject, RolesGood
  <1>7. BlamedRight'
    <2>1. SUFFICES ASSUME whole PROVE turn' # "release"
      BY <1>1 DEF BlamedRight
    <2>2. File!Storable(object) /\ file = File!FileOf(object)
      BY <1>3, <2>1 DEF SoundFile
    <2>3. \A j \in DOMAIN read.symbols : File!GoodFields(read.symbols[j])
      BY <1>3, <1>5, <2>2, WholeChecked
    <2>4. FileFields(file, object)
      BY <1>3, <2>2, FieldsWritten
    <2>5. File!AsObject(read) = object
      BY <1>3, <1>5, <2>4, SameObject
    <2>6. File!Valid(File!AsObject(read))
      BY <2>2, <2>5 DEF File!Storable
    <2>. QED
      BY <2>3, <2>6 DEF File!Validate
  <1>. QED
    BY <1>1, <1>2, <1>4, <1>6, <1>7 DEF FileIInv, NotYetRead, SymbolsComing, SectionsComing, Emptied

ListBlock(s) == {<<"symbols">> : j \in DOMAIN s}
FixBlock(r) == {<<"relocs">> : j \in DOMAIN r}

LEMMA BlankHolds ==
    ASSUME NEW f, NEW s, NEW r, \A j \in DOMAIN s : s[j] = Empty6
    PROVE  File!Reachable(Reading(f, s, r, NoBytes)) = ListBlock(s) \cup FixBlock(r)
  <1>. DEFINE e == Reading(f, s, r, NoBytes)
  <1>1. e.symbols = s /\ e.relocs = r /\ e.sections = NoBytes
    BY DEF Reading
  <1>2. \A k \in 1 .. 3 : NoBytes[k] = <<>>
    BY DEF NoBytes
  <1>3. \A j \in DOMAIN s : s[j].name = <<>> /\ s[j].contract = <<>>
    BY DEF Empty6, File!NoText
  <1>. HIDE DEF e
  <1>4. ASSUME NEW c
        PROVE  c \in File!Reachable(e) <=> c \in ListBlock(s) \cup FixBlock(r)
    BY <1>1, <1>2, <1>3, ReachableIs DEF ListBlock, FixBlock
  <1>5. File!Reachable(e) = ListBlock(s) \cup FixBlock(r)
    BY <1>4
  <1>. QED
    BY <1>5 DEF e

LEMMA FileReadTables == ASSUME FileIInv, File!ReadTables PROVE FileIInv'
  <1>1. turn = "written" /\ UNCHANGED <<object, file, whole, taken>>
    BY DEF File!ReadTables
  <1>2. /\ taken = 0 /\ blocks = {} /\ verdict = "none"
        /\ read \in {File!Unread, [File!Unread EXCEPT !.owned = TRUE]}
        /\ object \in Files /\ whole \in BOOLEAN /\ SoundFile(file, object, whole)
    BY <1>1 DEF FileIInv, NotYetRead, FileKept
  <1>3. CASE read.owned
    <2>1. verdict' = "output" /\ turn' = "failed" /\ UNCHANGED <<read, blocks>>
      BY <1>3 DEF File!ReadTables
    <2>2. FileKept'
      BY <1>1, <2>1, FileUnchanged
    <2>. QED
      BY <1>1, <1>2, <2>1, <2>2 DEF FileIInv, NotYetRead, SymbolsComing, SectionsComing, AllRead, RolesGood,
         BlocksHeld, BlamedRight, Emptied
  <1>4. CASE ~ read.owned /\ ~ File!GoodLayout(file)
    <2>1. verdict' = "format" /\ turn' = "failed" /\ UNCHANGED <<read, blocks>>
      BY <1>4 DEF File!ReadTables
    <2>2. FileKept'
      BY <1>1, <2>1, FileUnchanged
    <2>3. read = File!Unread
      <3>1. [File!Unread EXCEPT !.owned = TRUE].owned = TRUE
        BY DEF File!Unread
      <3>. QED
        BY <1>2, <1>4, <3>1
    <2>4. ~ whole
      <3>1. SUFFICES ASSUME whole PROVE FALSE
        OBVIOUS
      <3>2. File!Storable(object) /\ file = File!FileOf(object)
        BY <1>2, <3>1 DEF SoundFile
      <3>. QED
        BY <1>2, <1>4, <3>2, WholeChecked DEF Checked
    <2>. QED
      BY <1>1, <1>2, <2>1, <2>2, <2>3, <2>4 DEF FileIInv, NotYetRead, SymbolsComing, SectionsComing, AllRead,
         RolesGood, BlocksHeld, BlamedRight, Emptied
  <1>5. CASE ~ read.owned /\ File!GoodLayout(file)
    <2>. DEFINE null == [j \in 1 .. file.symbolCount |-> Empty6]
                new == [File!Unread EXCEPT !.owned = TRUE, !.target = file.target, !.entry = file.entry]
    <2>1. \/ read' = new /\ blocks' = {} /\ verdict' = "allocation" /\ turn' = "release"
          \/ read' = [new EXCEPT !.symbols = null] /\ blocks' = ListBlock(null) /\ verdict' = "allocation" /\ turn' = "release"
          \/ /\ read' = [new EXCEPT !.symbols = null, !.relocs = [j \in 1 .. file.relocCount |-> {}]]
             /\ blocks' = ListBlock(null) \cup FixBlock(NoneYet(file)) /\ turn' = "symbols" /\ UNCHANGED verdict
      BY <1>5 DEF File!ReadTables, File!Reject, Empty6, File!NoText, ListBlock, FixBlock, NoneYet
    <2>2. /\ new = Reading(file, <<>>, <<>>, NoBytes)
          /\ [new EXCEPT !.symbols = null] = Reading(file, null, <<>>, NoBytes)
          /\ [new EXCEPT !.symbols = null, !.relocs = [j \in 1 .. file.relocCount |-> {}]]
                = Reading(file, null, NoneYet(file), NoBytes)
      <3>. HIDE DEF null
      <3>0. /\ File!Unread = [owned |-> FALSE, target |-> 0, entry |-> 0, symbols |-> <<>>, relocs |-> <<>>,
                              sections |-> NoBytes]
            /\ new = [File!Unread EXCEPT !.owned = TRUE, !.target = file.target, !.entry = file.entry]
        BY Zenon DEF File!Unread, NoBytes, File!Sections
      <3>. HIDE DEF new
      <3>1. /\ new.owned = TRUE /\ new.target = file.target /\ new.entry = file.entry /\ new.symbols = <<>>
            /\ new.relocs = <<>> /\ new.sections = NoBytes
            /\ new = [owned |-> new.owned, target |-> new.target, entry |-> new.entry, symbols |-> new.symbols,
                      relocs |-> new.relocs, sections |-> new.sections]
        BY <3>0
      <3>2. new = Reading(file, <<>>, <<>>, NoBytes)
        BY <3>1, Zenon DEF Reading
      <3>3. ASSUME NEW v, v = [new EXCEPT !.symbols = null] PROVE v = Reading(file, null, <<>>, NoBytes)
        <4>1. /\ v.owned = TRUE /\ v.target = file.target /\ v.entry = file.entry /\ v.symbols = null
              /\ v.relocs = <<>> /\ v.sections = NoBytes
              /\ v = [owned |-> v.owned, target |-> v.target, entry |-> v.entry, symbols |-> v.symbols,
                      relocs |-> v.relocs, sections |-> v.sections]
          BY <3>2, <3>3 DEF Reading
        <4>. QED
          BY <4>1, Zenon DEF Reading
      <3>4. ASSUME NEW v, v = [new EXCEPT !.symbols = null, !.relocs = [j \in 1 .. file.relocCount |-> {}]]
            PROVE  v = Reading(file, null, NoneYet(file), NoBytes)
        <4>1. /\ v.owned = TRUE /\ v.target = file.target /\ v.entry = file.entry /\ v.symbols = null
              /\ v.relocs = NoneYet(file) /\ v.sections = NoBytes
              /\ v = [owned |-> v.owned, target |-> v.target, entry |-> v.entry, symbols |-> v.symbols,
                      relocs |-> v.relocs, sections |-> v.sections]
          BY <3>2, <3>4 DEF Reading, NoneYet
        <4>. QED
          BY <4>1, Zenon DEF Reading
      <3>. QED
        BY <3>2, <3>3, <3>4
    <2>3. /\ File!Reachable(Reading(file, <<>>, <<>>, NoBytes)) = {}
          /\ File!Reachable(Reading(file, null, <<>>, NoBytes)) = ListBlock(null)
          /\ File!Reachable(Reading(file, null, NoneYet(file), NoBytes)) = ListBlock(null) \cup FixBlock(NoneYet(file))
      <3>1. ListBlock(<<>>) = {} /\ FixBlock(<<>>) = {} /\ \A j \in DOMAIN <<>> : <<>>[j] = Empty6
        BY DEF ListBlock, FixBlock
      <3>2. \A j \in DOMAIN null : null[j] = Empty6
        OBVIOUS
      <3>. HIDE DEF null
      <3>. QED
        BY <3>1, <3>2, BlankHolds
    <2>4. null = SoFar(file, 0)
      BY DEF SoFar
    <2>. HIDE DEF null, new
    <2>5. FileKept'
      BY <1>1, <2>1, FileUnchanged
    <2>6. SymbolsComing'
      <3>1. SUFFICES ASSUME turn' = "symbols" PROVE SymbolsComing'
        BY DEF SymbolsComing
      <3>2. read' = Reading(file, SoFar(file, 0), NoneYet(file), NoBytes)
        BY <2>1, <2>2, <2>4, <3>1
      <3>3. file.symbolCount \in Nat
        BY <1>2, <1>5, SoundCounts
      <3>. QED
        BY <1>1, <1>2, <1>5, <3>2, <3>3 DEF SymbolsComing
    <2>7. BlocksHeld'
      BY <2>1, <2>2, <2>3 DEF BlocksHeld
    <2>. QED
      BY <2>1, <2>5, <2>6, <2>7 DEF FileIInv, NotYetRead, SectionsComing, AllRead, RolesGood, BlamedRight, Emptied
  <1>. QED
    BY <1>3, <1>4, <1>5

HeldAs(s, r, b, c) ==
    \/ \E k \in 1 .. 3 : b[k] # <<>> /\ c = <<"section", k>>
    \/ \E i \in DOMAIN s : c = <<"symbols">>
    \/ \E i \in DOMAIN r : c = <<"relocs">>
    \/ \E i \in DOMAIN s : s[i].name # <<>> /\ c = <<"name", i>>
    \/ \E i \in DOMAIN s : s[i].contract # <<>> /\ c = <<"contract", i>>

LEMMA HeldIs ==
    ASSUME NEW u, NEW s, NEW r, NEW b, u.symbols = s, u.relocs = r, u.sections = b, NEW c
    PROVE  c \in File!Reachable(u) <=> HeldAs(s, r, b, c)
  BY ReachableIs DEF HeldAs

TextBlock(x, j) ==
    (IF x.name # <<>> THEN {<<"name", j>>} ELSE {}) \cup (IF x.contract # <<>> THEN {<<"contract", j>>} ELSE {})

Put(s, j, x, e) ==
    j \in DOMAIN s /\ s[j].name = <<>> /\ s[j].contract = <<>> /\ e = [s EXCEPT ![j] = x]

LEMMA TextHeld ==
    ASSUME NEW f, NEW s, NEW r, NEW b, NEW j, NEW x, NEW e, Put(s, j, x, e)
    PROVE  File!Reachable(Reading(f, e, r, b)) = File!Reachable(Reading(f, s, r, b)) \cup TextBlock(x, j)
  <1>. DEFINE u == Reading(f, s, r, b)
              v == Reading(f, e, r, b)
  <1>1. /\ u.symbols = s /\ u.relocs = r /\ u.sections = b
        /\ v.symbols = e /\ v.relocs = r /\ v.sections = b
    BY DEF Reading
  <1>0. j \in DOMAIN s /\ s[j].name = <<>> /\ s[j].contract = <<>>
    BY DEF Put
  <1>2. DOMAIN e = DOMAIN s /\ e[j] = x /\ \A i \in DOMAIN s : i # j => e[i] = s[i]
    BY DEF Put
  <1>. HIDE DEF u, v
  <1>3. ASSUME NEW c
        PROVE  c \in File!Reachable(v) <=>
                 \/ c \in File!Reachable(u) \/ (x.name # <<>> /\ c = <<"name", j>>)
                 \/ (x.contract # <<>> /\ c = <<"contract", j>>)
    <2>. DEFINE Rest == \/ \E k \in 1 .. 3 : b[k] # <<>> /\ c = <<"section", k>>
                        \/ \E i \in DOMAIN s : c = <<"symbols">>
                        \/ \E i \in DOMAIN r : c = <<"relocs">>
    <2>1. c \in File!Reachable(u) <=>
            \/ Rest \/ \E i \in DOMAIN s : s[i].name # <<>> /\ c = <<"name", i>>
            \/ \E i \in DOMAIN s : s[i].contract # <<>> /\ c = <<"contract", i>>
      <3>1. c \in File!Reachable(u) <=> HeldAs(s, r, b, c)
        BY <1>1, HeldIs
      <3>. QED
        BY <3>1, Zenon DEF HeldAs
    <2>2. c \in File!Reachable(v) <=>
            \/ Rest \/ \E i \in DOMAIN s : e[i].name # <<>> /\ c = <<"name", i>>
            \/ \E i \in DOMAIN s : e[i].contract # <<>> /\ c = <<"contract", i>>
      <3>1. c \in File!Reachable(v) <=> HeldAs(e, r, b, c)
        BY <1>1, HeldIs
      <3>2. DOMAIN e = DOMAIN s
        BY <1>2
      <3>. QED
        BY <3>1, <3>2, Zenon DEF HeldAs
    <2>. HIDE DEF Rest
    <2>3. (\E i \in DOMAIN s : e[i].name # <<>> /\ c = <<"name", i>>) <=>
            ((\E i \in DOMAIN s : s[i].name # <<>> /\ c = <<"name", i>>) \/ (x.name # <<>> /\ c = <<"name", j>>))
      BY <1>0, <1>2
    <2>4. (\E i \in DOMAIN s : e[i].contract # <<>> /\ c = <<"contract", i>>) <=>
            ((\E i \in DOMAIN s : s[i].contract # <<>> /\ c = <<"contract", i>>)
              \/ (x.contract # <<>> /\ c = <<"contract", j>>))
      BY <1>0, <1>2
    <2>. QED
      BY <2>1, <2>2, <2>3, <2>4
  <1>4. File!Reachable(v) = File!Reachable(u) \cup TextBlock(x, j)
    BY <1>3 DEF TextBlock
  <1>. QED
    BY <1>4 DEF u, v


TextsOnly(f, j, p, q, x) ==
    x = [Empty6 EXCEPT
            !.name = IF p THEN File!Slice(f, f.symbols[j].name, f.symbols[j].nameLength) ELSE @,
            !.contract = IF q THEN File!Slice(f, f.symbols[j].contract, f.symbols[j].contractLength) ELSE @]
Filled(f, j, x, y) ==
    y = [x EXCEPT !.section = f.symbols[j].section, !.flags = f.symbols[j].flags,
                  !.offset = f.symbols[j].offset, !.size = f.symbols[j].size]

LEMMA TextsCopied ==
    ASSUME NEW f, NEW j, NEW p \in BOOLEAN, NEW q \in BOOLEAN, File!GoodSymbol(f, j),
           NEW x, TextsOnly(f, j, p, q, x), NEW y, Filled(f, j, x, y)
    PROVE  /\ x.name # <<>> <=> p
           /\ x.contract # <<>> <=> q
           /\ y.name = x.name /\ y.contract = x.contract
           /\ p /\ q => y = SymbolRead(f, j)
  <1>. DEFINE n == File!Slice(f, f.symbols[j].name, f.symbols[j].nameLength)
              c == File!Slice(f, f.symbols[j].contract, f.symbols[j].contractLength)
  <1>1. n # <<>> /\ c # <<>>
    <2>1. f.symbols[j].nameLength \in 1 .. NAME_LIMIT /\ f.symbols[j].contractLength \in 1 .. CONTRACT_LIMIT
      BY DEF File!GoodSymbol
    <2>2. 1 \in 1 .. f.symbols[j].nameLength /\ 1 \in 1 .. f.symbols[j].contractLength
      BY <2>1, FileAssumption DEF File!FileAssumption
    <2>3. DOMAIN n = 1 .. f.symbols[j].nameLength /\ DOMAIN c = 1 .. f.symbols[j].contractLength
      BY DEF File!Slice
    <2>4. DOMAIN <<>> = {}
      OBVIOUS
    <2>. QED
      BY <2>2, <2>3, <2>4
  <1>. HIDE DEF n, c
  <1>2. x = [Empty6 EXCEPT !.name = IF p THEN n ELSE @, !.contract = IF q THEN c ELSE @]
    BY DEF n, c, TextsOnly
  <1>3. /\ x.name = (IF p THEN n ELSE <<>>) /\ x.contract = (IF q THEN c ELSE <<>>)
        /\ DOMAIN x = DOMAIN Empty6
    BY <1>2 DEF Empty6, File!NoText
  <1>4. /\ y.name = x.name /\ y.contract = x.contract /\ y.section = f.symbols[j].section
        /\ y.flags = f.symbols[j].flags /\ y.offset = f.symbols[j].offset /\ y.size = f.symbols[j].size
        /\ y = [name |-> y.name, contract |-> y.contract, section |-> y.section, flags |-> y.flags,
                offset |-> y.offset, size |-> y.size]
    BY <1>2 DEF Empty6, File!NoText, Filled
  <1>5. ASSUME p, q PROVE y = SymbolRead(f, j)
    <2>1. y.name = n /\ y.contract = c
      BY <1>3, <1>4, <1>5
    <2>. QED
      BY <1>4, <2>1, Zenon DEF SymbolRead, n, c
  <1>. QED
    BY <1>1, <1>3, <1>4, <1>5

LEMMA FileReadSymbol == ASSUME FileIInv, File!ReadSymbol PROVE FileIInv'
  <1>. DEFINE j == taken + 1
              n == file.symbolCount
              r == file.symbols[j]
              x(p, q) == [read.symbols[j] EXCEPT !.name = IF p THEN File!Slice(file, r.name, r.nameLength) ELSE @,
                                                 !.contract = IF q THEN File!Slice(file, r.contract, r.contractLength) ELSE @]
              y(p, q) == [x(p, q) EXCEPT !.section = r.section, !.flags = r.flags, !.offset = r.offset, !.size = r.size]
  <1>1. turn = "symbols" /\ taken < n /\ UNCHANGED <<object, file, whole>>
    BY DEF File!ReadSymbol
  <1>2. /\ object \in Files /\ whole \in BOOLEAN /\ SoundFile(file, object, whole)
        /\ taken \in 0 .. n /\ File!GoodLayout(file) /\ blocks = File!Reachable(read)
        /\ \A i \in 1 .. taken : File!GoodSymbol(file, i)
        /\ read = Reading(file, SoFar(file, taken), NoneYet(file), NoBytes)
    BY <1>1 DEF FileIInv, FileKept, SymbolsComing, BlocksHeld
  <1>3. n \in Nat
    BY <1>2, SoundCounts
  <1>4. j \in 1 .. n /\ taken \in Nat /\ ~ (j <= taken)
    <2>. HIDE DEF n
    <2>. QED
      BY <1>1, <1>2, <1>3
  <1>5. read.symbols = SoFar(file, taken) /\ DOMAIN read.symbols = 1 .. n /\ read.symbols[j] = Empty6
    <2>1. read.symbols = SoFar(file, taken)
      BY <1>2 DEF Reading
    <2>2. DOMAIN SoFar(file, taken) = 1 .. n /\ SoFar(file, taken)[j] = Empty6
      BY <1>4 DEF SoFar
    <2>. QED
      BY <2>1, <2>2
  <1>6. CASE ~ File!GoodSymbol(file, j)
    <2>1. verdict' = "format" /\ turn' = "release" /\ UNCHANGED <<read, taken, blocks>>
      BY <1>6 DEF File!ReadSymbol, File!Reject
    <2>2. FileKept'
      BY <1>1, <2>1, FileUnchanged
    <2>3. ~ whole
      <3>1. SUFFICES ASSUME whole PROVE FALSE
        OBVIOUS
      <3>2. File!Storable(object) /\ file = File!FileOf(object)
        BY <1>2, <3>1 DEF SoundFile
      <3>. QED
        BY <1>2, <1>4, <1>6, <3>2, WholeChecked DEF Checked
    <2>. QED
      BY <1>1, <1>2, <2>1, <2>2, <2>3 DEF FileIInv, NotYetRead, SymbolsComing, SectionsComing, AllRead,
         RolesGood, BlocksHeld, BlamedRight, Emptied
  <1>7. CASE File!GoodSymbol(file, j)
    <2>1. PICK p \in BOOLEAN, q \in BOOLEAN :
             /\ blocks' = blocks \cup (IF p THEN {<<"name", j>>} ELSE {}) \cup (IF q THEN {<<"contract", j>>} ELSE {})
             /\ IF ~ (p /\ q)
                THEN /\ verdict' = "allocation" /\ turn' = "release" /\ read' = [read EXCEPT !.symbols[j] = x(p, q)]
                     /\ UNCHANGED taken
                ELSE read' = [read EXCEPT !.symbols[j] = y(p, q)] /\ taken' = j /\ UNCHANGED <<verdict, turn>>
      BY <1>7 DEF File!ReadSymbol, File!Reject
    <2>. DEFINE u == x(p, q)
                v == y(p, q)
    <2>2. /\ u.name # <<>> <=> p
          /\ u.contract # <<>> <=> q
          /\ v.name = u.name /\ v.contract = u.contract
          /\ p /\ q => v = SymbolRead(file, j)
      <3>1. TextsOnly(file, j, p, q, u) /\ Filled(file, j, u, v)
        BY <1>5, Zenon DEF TextsOnly, Filled
      <3>. HIDE DEF u, v, j
      <3>. QED
        BY <1>7, <3>1, TextsCopied
    <2>. HIDE DEF x, y
    <2>3. ASSUME NEW w, w.name # <<>> <=> p, w.contract # <<>> <=> q, read' = [read EXCEPT !.symbols[j] = w]
          PROVE  /\ read' = Reading(file, [SoFar(file, taken) EXCEPT ![j] = w], NoneYet(file), NoBytes)
                 /\ blocks' = File!Reachable(read')
      <3>. DEFINE s == SoFar(file, taken)
                  e == [s EXCEPT ![j] = w]
      <3>1. s[j].name = <<>> /\ s[j].contract = <<>> /\ j \in DOMAIN s
        <4>1. s[j] = Empty6 /\ j \in DOMAIN s
          BY <1>4, <1>5
        <4>. QED
          BY <4>1 DEF Empty6, File!NoText
      <3>. HIDE DEF s, j
      <3>2. read' = Reading(file, e, NoneYet(file), NoBytes)
        <4>0. read = Reading(file, s, NoneYet(file), NoBytes) /\ read' = [read EXCEPT !.symbols[j] = w]
          BY <1>2, <2>3 DEF s
        <4>1. /\ read'.owned = TRUE /\ read'.target = file.target /\ read'.entry = file.entry
              /\ read'.symbols = e /\ read'.relocs = NoneYet(file) /\ read'.sections = NoBytes
              /\ read' = [owned |-> read'.owned, target |-> read'.target, entry |-> read'.entry,
                          symbols |-> read'.symbols, relocs |-> read'.relocs, sections |-> read'.sections]
          BY <4>0 DEF Reading
        <4>. QED
          BY <4>1, Zenon DEF Reading
      <3>3. File!Reachable(Reading(file, e, NoneYet(file), NoBytes)) =
              File!Reachable(Reading(file, s, NoneYet(file), NoBytes)) \cup TextBlock(w, j)
        <4>1. Put(s, j, w, e)
          BY <3>1 DEF Put
        <4>. HIDE DEF e
        <4>. QED
          BY <4>1, TextHeld
      <3>4. blocks = File!Reachable(Reading(file, s, NoneYet(file), NoBytes))
        BY <1>2 DEF s
      <3>5. blocks' = blocks \cup TextBlock(w, j)
        <4>1. blocks' = blocks \cup (IF p THEN {<<"name", j>>} ELSE {}) \cup (IF q THEN {<<"contract", j>>} ELSE {})
          BY <2>1 DEF j
        <4>. QED
          BY <2>3, <4>1 DEF TextBlock
      <3>6. blocks' = File!Reachable(read')
        BY <3>2, <3>3, <3>4, <3>5, Zenon
      <3>. QED
        BY <3>2, <3>6 DEF s
    <2>4. CASE ~ (p /\ q)
      <3>1. verdict' = "allocation" /\ turn' = "release" /\ read' = [read EXCEPT !.symbols[j] = u]
        BY <2>1, <2>4
      <3>2. blocks' = File!Reachable(read')
        BY <2>2, <2>3, <3>1
      <3>3. FileKept'
        BY <1>1, <3>1, FileUnchanged
      <3>. QED
        BY <3>1, <3>2, <3>3 DEF FileIInv, NotYetRead, SymbolsComing, SectionsComing, AllRead,
           RolesGood, BlocksHeld, BlamedRight, Emptied
    <2>5. CASE p /\ q
      <3>1. read' = [read EXCEPT !.symbols[j] = v] /\ taken' = j /\ UNCHANGED <<verdict, turn>>
        BY <2>1, <2>5
      <3>2. /\ read' = Reading(file, [SoFar(file, taken) EXCEPT ![j] = v], NoneYet(file), NoBytes)
            /\ blocks' = File!Reachable(read')
        BY <2>2, <2>3, <3>1
      <3>3. [SoFar(file, taken) EXCEPT ![j] = v] = SoFar(file, j)
        <4>1. v = SymbolRead(file, j)
          BY <2>2, <2>5
        <4>2. ASSUME NEW i \in 1 .. n PROVE [SoFar(file, taken) EXCEPT ![j] = v][i] = SoFar(file, j)[i]
          <5>1. SoFar(file, taken)[i] = (IF i <= taken THEN SymbolRead(file, i) ELSE Empty6)
            BY DEF SoFar
          <5>2. SoFar(file, j)[i] = (IF i <= j THEN SymbolRead(file, i) ELSE Empty6)
            BY DEF SoFar
          <5>3. DOMAIN SoFar(file, taken) = 1 .. n
            BY DEF SoFar
          <5>. HIDE DEF v, n
          <5>4. i # j => (i <= j <=> i <= taken)
            BY <1>3, <1>4
          <5>5. j <= j
            BY <1>3, <1>4
          <5>. QED
            BY <4>1, <5>1, <5>2, <5>3, <5>4, <5>5
        <4>3. /\ [SoFar(file, taken) EXCEPT ![j] = v] = [i \in 1 .. n |-> [SoFar(file, taken) EXCEPT ![j] = v][i]]
              /\ SoFar(file, j) = [i \in 1 .. n |-> SoFar(file, j)[i]]
          BY DEF SoFar
        <4>. QED
          BY <4>2, <4>3
      <3>4. \A i \in 1 .. j : File!GoodSymbol(file, i)
        <4>1. \A i \in 1 .. j : i = j \/ i \in 1 .. taken
          BY <1>4
        <4>. QED
          BY <1>2, <1>7, <4>1
      <3>5. SymbolsComing'
        <4>1. /\ taken' \in 0 .. n /\ read' = Reading(file, SoFar(file, taken'), NoneYet(file), NoBytes)
              /\ \A i \in 1 .. taken' : File!GoodSymbol(file, i)
          <5>1. j \in 0 .. n
            <6>. HIDE DEF n
            <6>. QED
              BY <1>3, <1>4
          <5>. HIDE DEF j, n
          <5>. QED
            BY <3>1, <3>2, <3>3, <3>4, <5>1
        <4>. QED
          BY <1>1, <1>2, <4>1 DEF SymbolsComing
      <3>6. FileKept'
        BY <1>1, <3>1, FileUnchanged
      <3>. QED
        BY <1>1, <3>1, <3>2, <3>5, <3>6 DEF FileIInv, NotYetRead, SectionsComing, AllRead,
           RolesGood, BlocksHeld, BlamedRight, Emptied
    <2>. QED
      BY <2>4, <2>5
  <1>. QED
    BY <1>6, <1>7

LEMMA FileReadRelocs == ASSUME FileIInv, File!ReadRelocs PROVE FileIInv'
  <1>. DEFINE n == file.symbolCount
              m == file.relocCount
  <1>1. turn = "symbols" /\ taken = n /\ UNCHANGED <<object, file, whole, taken, blocks>>
    BY DEF File!ReadRelocs
  <1>2. /\ object \in Files /\ whole \in BOOLEAN /\ SoundFile(file, object, whole)
        /\ File!GoodLayout(file) /\ blocks = File!Reachable(read)
        /\ \A i \in 1 .. n : File!GoodSymbol(file, i)
        /\ read = Reading(file, SoFar(file, n), NoneYet(file), NoBytes)
    BY <1>1 DEF FileIInv, FileKept, SymbolsComing, BlocksHeld
  <1>3. n \in Nat
    BY <1>2, SoundCounts
  <1>4. read.relocs = NoneYet(file) /\ DOMAIN read.relocs = 1 .. m
    BY <1>2 DEF Reading, NoneYet
  <1>5. SoFar(file, n) = TheSymbols(file)
    BY <1>3 DEF SoFar, TheSymbols
  <1>6. CASE File!Cursor(file, taken + 1) # file.strings \/ \E j \in DOMAIN read.relocs : file.relocs[j].reserved # 0
    <2>1. verdict' = "format" /\ turn' = "release" /\ UNCHANGED read
      BY <1>6 DEF File!ReadRelocs, File!Reject
    <2>2. FileKept'
      BY <1>1, <2>1, FileUnchanged
    <2>3. ~ whole
      <3>1. SUFFICES ASSUME whole PROVE FALSE
        OBVIOUS
      <3>2. File!Storable(object) /\ file = File!FileOf(object)
        BY <1>2, <3>1 DEF SoundFile
      <3>3. Checked(file)
        BY <1>2, <3>2, WholeChecked
      <3>. QED
        BY <1>1, <1>4, <1>6, <3>3 DEF Checked
    <2>. QED
      BY <1>1, <1>2, <2>1, <2>2, <2>3 DEF FileIInv, NotYetRead, SymbolsComing, SectionsComing, AllRead,
         RolesGood, BlocksHeld, BlamedRight, Emptied
  <1>7. CASE /\ File!Cursor(file, taken + 1) = file.strings
             /\ \A j \in DOMAIN read.relocs : file.relocs[j].reserved = 0
    <2>1. /\ read' = [read EXCEPT !.relocs = [j \in DOMAIN read.relocs |-> RelocRead(file, j)]]
          /\ turn' = "sections" /\ UNCHANGED verdict
      BY <1>7 DEF File!ReadRelocs, RelocRead
    <2>2. read' = Reading(file, TheSymbols(file), TheRelocs(file), NoBytes)
      <3>1. [j \in DOMAIN read.relocs |-> RelocRead(file, j)] = TheRelocs(file)
        BY <1>4 DEF TheRelocs
      <3>2. /\ read = Reading(file, TheSymbols(file), NoneYet(file), NoBytes)
            /\ read' = [read EXCEPT !.relocs = TheRelocs(file)]
        BY <1>2, <1>5, <2>1, <3>1
      <3>3. /\ read'.owned = TRUE /\ read'.target = file.target /\ read'.entry = file.entry
            /\ read'.symbols = TheSymbols(file) /\ read'.relocs = TheRelocs(file) /\ read'.sections = NoBytes
            /\ read' = [owned |-> read'.owned, target |-> read'.target, entry |-> read'.entry,
                        symbols |-> read'.symbols, relocs |-> read'.relocs, sections |-> read'.sections]
        BY <3>2 DEF Reading
      <3>. QED
        BY <3>3, Zenon DEF Reading
    <2>3. blocks' = File!Reachable(read')
      <3>1. /\ read.symbols = TheSymbols(file) /\ read.relocs = NoneYet(file) /\ read.sections = NoBytes
            /\ read'.symbols = TheSymbols(file) /\ read'.relocs = TheRelocs(file) /\ read'.sections = NoBytes
        BY <1>2, <1>5, <2>2 DEF Reading
      <3>2. ASSUME NEW c PROVE c \in File!Reachable(read') <=> c \in File!Reachable(read)
        <4>1. c \in File!Reachable(read) <=> HeldAs(TheSymbols(file), NoneYet(file), NoBytes, c)
          BY <3>1, HeldIs
        <4>2. c \in File!Reachable(read') <=> HeldAs(TheSymbols(file), TheRelocs(file), NoBytes, c)
          BY <3>1, HeldIs
        <4>3. DOMAIN NoneYet(file) = DOMAIN TheRelocs(file)
          BY DEF NoneYet, TheRelocs
        <4>. QED
          BY <4>1, <4>2, <4>3, Zenon DEF HeldAs
      <3>3. File!Reachable(read') = File!Reachable(read)
        BY <3>2
      <3>. QED
        BY <1>1, <1>2, <3>3
    <2>4. Checked(file)
      BY <1>1, <1>2, <1>4, <1>7 DEF Checked
    <2>5. FileKept'
      BY <1>1, <2>1, FileUnchanged
    <2>6. SectionsComing' /\ BlocksHeld'
      BY <1>1, <2>2, <2>3, <2>4 DEF SectionsComing, BlocksHeld
    <2>. QED
      BY <1>1, <2>1, <2>5, <2>6 DEF FileIInv, NotYetRead, SymbolsComing, AllRead, RolesGood, BlamedRight, Emptied
  <1>. QED
    BY <1>6, <1>7

LEMMA FileReadSections == ASSUME FileIInv, File!ReadSections PROVE FileIInv'
  <1>1. turn = "sections" /\ UNCHANGED <<object, file, whole, taken>>
    BY DEF File!ReadSections
  <1>2. /\ object \in Files /\ whole \in BOOLEAN /\ SoundFile(file, object, whole)
        /\ Checked(file) /\ blocks = File!Reachable(read)
        /\ read = Reading(file, TheSymbols(file), TheRelocs(file), NoBytes)
    BY <1>1 DEF FileIInv, FileKept, SectionsComing, BlocksHeld
  <1>3. \A k \in 1 .. 3 : file.table[k].size \in Nat
    BY <1>2, SoundCounts DEF Checked
  <1>. DEFINE full(n) == {k \in 1 .. n - 1 : file.table[k].size > 0}
              texts(n) == [k \in 1 .. 3 |-> IF k \in full(n) THEN SectionRead(file, k) ELSE read.sections[k]]
  <1>4. PICK n \in 1 .. 4 :
           /\ read' = [read EXCEPT !.sections = texts(n)]
           /\ blocks' = blocks \cup {<<"section", k>> : k \in full(n)}
           /\ IF n = 4 THEN turn' = "validate" /\ UNCHANGED verdict ELSE verdict' = "allocation" /\ turn' = "release"
    BY DEF File!ReadSections, File!Reject, File!Sections, SectionRead
  <1>. DEFINE b == texts(n)
  <1>5. read' = Reading(file, TheSymbols(file), TheRelocs(file), b)
    <2>. HIDE DEF b, texts
    <2>1. read' = [read EXCEPT !.sections = b]
      BY <1>4 DEF b
    <2>2. /\ read'.owned = TRUE /\ read'.target = file.target /\ read'.entry = file.entry
          /\ read'.symbols = TheSymbols(file) /\ read'.relocs = TheRelocs(file) /\ read'.sections = b
          /\ read' = [owned |-> read'.owned, target |-> read'.target, entry |-> read'.entry,
                      symbols |-> read'.symbols, relocs |-> read'.relocs, sections |-> read'.sections]
      BY <1>2, <2>1 DEF Reading
    <2>. QED
      BY <2>2, Zenon DEF Reading
  <1>6. \A k \in 1 .. 3 : b[k] = (IF k \in full(n) THEN SectionRead(file, k) ELSE <<>>)
    <2>1. \A k \in 1 .. 3 : read.sections[k] = <<>>
      BY <1>2 DEF Reading, NoBytes
    <2>. QED
      BY <2>1
  <1>7. \A k \in 1 .. 3 : file.table[k].size > 0 <=> SectionRead(file, k) # <<>>
    <2>1. ASSUME NEW k \in 1 .. 3, file.table[k].size > 0 PROVE SectionRead(file, k) # <<>>
      <3>1. 1 \in DOMAIN SectionRead(file, k) /\ DOMAIN <<>> = {}
        BY <1>3, <2>1 DEF SectionRead
      <3>. QED
        BY <3>1
    <2>2. ASSUME NEW k \in 1 .. 3, ~ (file.table[k].size > 0) PROVE SectionRead(file, k) = <<>>
      <3>1. file.table[k].size = 0
        BY <1>3, <2>2
      <3>. QED
        BY <3>1 DEF SectionRead
    <2>. QED
      BY <2>1, <2>2
  <1>. HIDE DEF b, texts
  <1>8. blocks' = File!Reachable(read')
    <2>1. /\ read.symbols = TheSymbols(file) /\ read.relocs = TheRelocs(file) /\ read.sections = NoBytes
          /\ read'.symbols = TheSymbols(file) /\ read'.relocs = TheRelocs(file) /\ read'.sections = b
      BY <1>2, <1>5 DEF Reading
    <2>2. ASSUME NEW c PROVE c \in File!Reachable(read') <=> c \in blocks'
      <3>1. c \in File!Reachable(read) <=> HeldAs(TheSymbols(file), TheRelocs(file), NoBytes, c)
        BY <2>1, HeldIs
      <3>2. c \in File!Reachable(read') <=> HeldAs(TheSymbols(file), TheRelocs(file), b, c)
        BY <2>1, HeldIs
      <3>3. \A k \in 1 .. 3 : NoBytes[k] = <<>>
        BY DEF NoBytes
      <3>4. \A k \in 1 .. 3 : b[k] # <<>> <=> k \in full(n)
        BY <1>6, <1>7
      <3>5. HeldAs(TheSymbols(file), TheRelocs(file), b, c) <=>
              \/ HeldAs(TheSymbols(file), TheRelocs(file), NoBytes, c)
              \/ \E k \in 1 .. 3 : k \in full(n) /\ c = <<"section", k>>
        BY <3>3, <3>4, Zenon DEF HeldAs
      <3>6. \A k : k \in full(n) => k \in 1 .. 3
        OBVIOUS
      <3>7. c \in blocks' <=> c \in File!Reachable(read) \/ \E k \in full(n) : c = <<"section", k>>
        BY <1>2, <1>4
      <3>. HIDE DEF full
      <3>. QED
        BY <3>1, <3>2, <3>5, <3>6, <3>7, Zenon
    <2>3. blocks' = File!Reachable(read')
      BY <2>2
    <2>. QED
      BY <2>3
  <1>9. CASE n = 4
    <2>1. b = TheSections(file)
      <3>1. \A k \in 1 .. 3 : k \in full(n) <=> file.table[k].size > 0
        BY <1>9
      <3>2. b = [k \in 1 .. 3 |-> b[k]]
        BY DEF b, texts
      <3>3. \A k \in 1 .. 3 : b[k] = SectionRead(file, k)
        BY <1>6, <1>7, <3>1
      <3>. QED
        BY <3>2, <3>3 DEF TheSections
    <2>2. turn' = "validate" /\ UNCHANGED verdict
      BY <1>4, <1>9
    <2>3. FileKept'
      BY <1>1, <2>2, FileUnchanged
    <2>4. AllRead' /\ BlocksHeld'
      BY <1>1, <1>2, <1>5, <1>8, <2>1, <2>2 DEF AllRead, BlocksHeld
    <2>. QED
      BY <2>2, <2>3, <2>4 DEF FileIInv, NotYetRead, SymbolsComing, SectionsComing, RolesGood, BlamedRight, Emptied
  <1>10. CASE n # 4
    <2>1. verdict' = "allocation" /\ turn' = "release"
      BY <1>4, <1>10
    <2>2. FileKept'
      BY <1>1, <2>1, FileUnchanged
    <2>. QED
      BY <1>8, <2>1, <2>2 DEF FileIInv, NotYetRead, SymbolsComing, SectionsComing, AllRead, RolesGood, BlocksHeld,
         BlamedRight, Emptied
  <1>. QED
    BY <1>9, <1>10

(* KeptOrRefused of ObjectFile: whatever is written is read back as it     *)
(* was, whatever became of a file it is refused or is the file of the      *)
(* object made of it, and no failing read keeps a block.                   *)
THEOREM FilesKept == File!Spec => []File!KeptOrRefused
  <1>1. File!Init /\ object \in Files => FileIInv
    BY FileStarts
  <1>2. FileIInv /\ [File!Next]_(File!vars) => FileIInv'
    <2>. SUFFICES ASSUME FileIInv, [File!Next]_(File!vars) PROVE FileIInv'
      OBVIOUS
    <2>1. CASE File!Write
      BY <2>1, FileWrite
    <2>2. CASE File!Damage
      BY <2>2, FileDamage
    <2>3. CASE File!ReadTables
      BY <2>3, FileReadTables
    <2>4. CASE File!ReadSymbol
      BY <2>4, FileReadSymbol
    <2>5. CASE File!ReadRelocs
      BY <2>5, FileReadRelocs
    <2>6. CASE File!ReadSections
      BY <2>6, FileReadSections
    <2>7. CASE File!Validate
      BY <2>7, FileValidate
    <2>8. CASE File!Release
      BY <2>8, FileRelease
    <2>9. CASE File!Stopped \/ UNCHANGED File!vars
      BY <2>9, FileStops DEF File!Stopped
    <2>. QED
      BY <2>1, <2>2, <2>3, <2>4, <2>5, <2>6, <2>7, <2>8, <2>9 DEF File!Next
  <1>3. FileIInv => File!KeptOrRefused
    <2>. SUFFICES ASSUME FileIInv PROVE File!KeptOrRefused
      OBVIOUS
    <2>1. ASSUME turn = "read" PROVE File!FileOf(File!AsObject(read)) = file /\ (whole => File!AsObject(read) = object)
      <3>1. /\ Checked(file) /\ read = Reading(file, TheSymbols(file), TheRelocs(file), TheSections(file))
            /\ object \in Files /\ whole \in BOOLEAN /\ SoundFile(file, object, whole)
            /\ \A j \in 1 .. file.symbolCount : File!GoodFields(SymbolRead(file, j))
        BY <2>1 DEF FileIInv, FileKept, AllRead, RolesGood
      <3>2. Loaded(file, read)
        BY <3>1 DEF Loaded, Reading, TheSymbols, TheRelocs, TheSections
      <3>3. CASE whole
        <4>1. file = File!FileOf(object)
          BY <3>1, <3>3 DEF SoundFile
        <4>2. FileFields(file, object)
          BY <3>1, <4>1, FieldsWritten
        <4>3. File!AsObject(read) = object
          BY <3>1, <3>2, <4>2, SameObject
        <4>. QED
          BY <4>1, <4>3
      <3>4. CASE ~ whole
        <4>1. Admitted(file)
          BY <3>1, <3>4 DEF SoundFile, Checked, Admitted
        <4>2. MadeOf(file, File!AsObject(read))
          <5>. DEFINE o == File!AsObject(read)
          <5>1. /\ o.target = file.target /\ o.entry = file.entry
                /\ o.symbols = [j \in 1 .. file.symbolCount |-> Understood(SymbolRead(file, j))]
                /\ o.relocs = [j \in 1 .. file.relocCount |-> RelocRead(file, j)]
                /\ o.sections = [k \in 1 .. 3 |-> SectionRead(file, k)]
            BY <3>2, ObjectRead
          <5>. HIDE DEF o
          <5>2. MadeOf(file, o)
            BY <5>1 DEF MadeOf
          <5>. QED
            BY <5>2 DEF o
        <4>. QED
          BY <3>4, <4>1, <4>2, SameFile
      <3>. QED
        BY <3>1, <3>3, <3>4
    <2>2. /\ whole /\ turn \in {"release", "failed"} => verdict \in {"output", "allocation"}
          /\ turn = "failed" => blocks = {} /\ (verdict = "output" \/ read = File!Unread)
          /\ turn = "read" => blocks = File!Reachable(read)
      BY DEF FileIInv, BlamedRight, Emptied, BlocksHeld
    <2>. QED
      BY <2>1, <2>2 DEF File!KeptOrRefused
  <1>. QED
    BY <1>1, <1>2, <1>3, PTL DEF File!Spec

(* WrittenAndRead of MCObjects, all of it that is not about images: an     *)
(* object file is read back as it was, or refused.                         *)
THEOREM FilesReadBack == File!Spec => [](machine # "image" => WrittenAndRead)
  <1>1. File!KeptOrRefused => (machine # "image" => WrittenAndRead)
    BY DEF WrittenAndRead
  <1>. QED
    BY <1>1, FilesKept, PTL
=============================================================================

---------------------- MODULE PatternMarketplaceProofs ----------------------
(***************************************************************************)
(* The counts and the reach of marketplace listings, proved for any number *)
(* of organizations, listings and reviews.                                 *)
(***************************************************************************)
EXTENDS PatternMarketplace, FiniteSetTheorems, TLAPS

\* What a listing carries is listed, and was not imported.
OriginsListed ==
    \A l \in Listed : LET r == listings[l].of IN r \in Listed /\ listings[r].of = r

\* A listing of its own that costs something is exported by nobody but its owner.
ExportsReleased ==
    \A l \in exports :
      l \in Listed /\ (listings[l].of = l /\ listings[l].price > 0 => l \in released)

\* PaidStaysHome alone is not inductive: an import may be of an import, and what may be
\* exported depends on who took it.
IndInv == MarketTypeOK /\ OriginsListed /\ ExportsReleased /\ MarketplaceAgrees

-----------------------------------------------------------------------------
(* Listings, and what taking one makes of it *)

Taken(x) == [x EXCEPT !.usage = x.usage + 1]

LEMMA TakenTyped ==
    ASSUME NEW x \in Listing
    PROVE  /\ Taken(x) \in Listing /\ Taken(x).usage = x.usage + 1
           /\ Taken(x).owner = x.owner /\ Taken(x).price = x.price /\ Taken(x).of = x.of
BY DEF Taken, Listing

LEMMA ListingsAreListed ==
    ASSUME NEW x \in Listing
    PROVE  x # NotListed /\ x.of \in Listings /\ x.price \in Nat /\ x.usage \in Nat
<1>1. x.of \in Listings /\ x.price \in Nat /\ x.usage \in Nat
    BY PricesAssumption DEF Listing
<1>2. x.of # NotListed.of
    BY <1>1, NoListingAssumption DEF NotListed
<1> QED
    BY <1>1, <1>2

LEMMA ListedTyped ==
    ASSUME MarketTypeOK, NEW l \in Listings
    PROVE  l \in Listed <=> listings[l] \in Listing
BY ListingsAreListed DEF Listed, MarketTypeOK

-----------------------------------------------------------------------------
LEMMA InitInductive == MarketInit => IndInv
<1> SUFFICES ASSUME MarketInit PROVE IndInv
    OBVIOUS
<1>1. Listed = {}
    BY DEF MarketInit, Listed
<1>2. MarketTypeOK
    BY MaxReviewsAssumption DEF MarketInit, MarketTypeOK
<1>3. OriginsListed /\ ExportsReleased
    BY <1>1 DEF OriginsListed, ExportsReleased, MarketInit
<1>4. MarketplaceAgrees
    BY <1>1 DEF MarketplaceAgrees, UsageAgrees, PurchasesAgree, PaidStaysHome, MarketInit
<1> QED
    BY <1>2, <1>3, <1>4 DEF IndInv

\* A new listing, whether it is its own or carries one that was exported.
LEMMA NewListingKeeps ==
    ASSUME IndInv, NEW l \in Listings, NEW o \in Orgs, NEW price \in Prices,
           NEW of \in Listings, NewListing(l, o, price, of),
           \/ of = l
           \/ /\ of \in Listed /\ listings[of].of = of
              /\ listings[of].price > 0 => of \in released,
           UNCHANGED <<reviews, purchases, exports, released>>
    PROVE  IndInv'
<1> DEFINE x == [owner |-> o, price |-> price, of |-> of, usage |-> 0]
<1>1. x \in Listing /\ x.of = of /\ x.usage = 0
    BY DEF Listing
<1>2. l \notin Listed /\ listings' = [listings EXCEPT ![l] = x]
    BY DEF NewListing
<1> HIDE DEF x
<1>3. \A k \in Listings : listings'[k] = IF k = l THEN x ELSE listings[k]
    BY <1>2 DEF IndInv, MarketTypeOK
<1>4. Listed' = Listed \cup {l} /\ \A k \in Listed : listings'[k] = listings[k] /\ k # l
    BY <1>1, <1>2, <1>3, ListingsAreListed DEF Listed
<1>5. \A k \in Listed : listings[k].of \in Listed /\ listings[k].of # l
    BY <1>2 DEF IndInv, OriginsListed
<1>6. MarketTypeOK'
    BY <1>1, <1>2 DEF IndInv, MarketTypeOK
<1>7. OriginsListed'
    BY <1>1, <1>3, <1>4, <1>5 DEF IndInv, OriginsListed
<1>8. \A k \in exports : k \in Listed
    BY DEF IndInv, ExportsReleased
<1>9. ExportsReleased'
    BY <1>4, <1>8 DEF IndInv, ExportsReleased
<1>10. \A q \in Orgs : l \notin purchases[q]
    BY <1>2 DEF IndInv, MarketplaceAgrees, PurchasesAgree
<1>11. UsageAgrees'
    <2>1. {q \in Orgs : l \in purchases[q]} = {}
        BY <1>10
    <2>2. Cardinality({q \in Orgs : l \in purchases[q]}) = 0
        BY <2>1, FS_EmptySet
    <2>3. purchases' = purchases
        OBVIOUS
    <2> QED
        BY <1>1, <1>3, <1>4, <2>2, <2>3 DEF IndInv, MarketplaceAgrees, UsageAgrees
<1>12. PurchasesAgree'
    BY <1>4 DEF IndInv, MarketplaceAgrees, PurchasesAgree
<1>13. PaidStaysHome'
    BY <1>1, <1>3, <1>4, <1>5 DEF IndInv, MarketplaceAgrees, PaidStaysHome
<1> QED
    BY <1>6, <1>7, <1>9, <1>11, <1>12, <1>13 DEF IndInv, MarketplaceAgrees

LEMMA ImportKeeps ==
    ASSUME IndInv, NEW l \in Listings, NEW o \in Orgs, NEW from \in exports,
           Import(l, o, from)
    PROVE  IndInv'
<1> DEFINE of == listings[from].of
<1>1. from \in Listed /\ of \in Listed /\ listings[of].of = of
    BY DEF IndInv, ExportsReleased, OriginsListed
<1>2. of \in Listings
    BY <1>1 DEF Listed
<1>3. listings[of].price > 0 => of \in released
    <2>1. CASE of = from
        BY <1>1, <2>1 DEF IndInv, ExportsReleased
    <2>2. CASE of # from
        BY <1>1, <2>2 DEF IndInv, MarketplaceAgrees, PaidStaysHome
    <2> QED
        BY <2>1, <2>2
<1>4. 0 \in Prices
    BY PricesAssumption
<1>5. NewListing(l, o, 0, of) /\ UNCHANGED <<reviews, purchases, exports, released>>
    BY DEF Import
<1> HIDE DEF of
<1> QED
    BY <1>1, <1>2, <1>3, <1>4, <1>5, NewListingKeeps

LEMMA PurchaseKeeps ==
    ASSUME IndInv, NEW l \in Listings, NEW o \in Orgs, Purchase(l, o)
    PROVE  IndInv'
<1>1. /\ l \in Listed /\ l \notin purchases[o] /\ listings[l].price = 0
      /\ purchases' = [purchases EXCEPT ![o] = purchases[o] \cup {l}]
      /\ listings' = [listings EXCEPT ![l] = Taken(listings[l])]
      /\ UNCHANGED <<reviews, exports, released>>
    BY DEF Purchase, Taken
<1>2. listings[l] \in Listing
    BY <1>1, ListedTyped DEF IndInv
<1>3. /\ listings'[l] = Taken(listings[l]) /\ listings'[l] \in Listing
      /\ \A k \in Listings \ {l} : listings'[k] = listings[k]
      /\ listings' \in [Listings -> Listing \cup {NotListed}]
    BY <1>1, <1>2, TakenTyped DEF IndInv, MarketTypeOK
<1>4. Listed' = Listed
    BY <1>1, <1>2, <1>3, ListingsAreListed DEF Listed
<1>5. \A k \in Listed :
        listings'[k].of = listings[k].of /\ listings'[k].price = listings[k].price
    BY <1>2, <1>3, TakenTyped DEF Listed
<1>6. /\ purchases' \in [Orgs -> SUBSET Listings]
      /\ purchases'[o] = purchases[o] \cup {l}
      /\ \A q \in Orgs \ {o} : purchases'[q] = purchases[q]
    BY <1>1 DEF IndInv, MarketTypeOK
<1>7. MarketTypeOK'
    BY <1>1, <1>3, <1>6 DEF IndInv, MarketTypeOK
<1>8. OriginsListed'
    BY <1>4, <1>5 DEF IndInv, OriginsListed
<1>9. ExportsReleased'
    BY <1>1, <1>4, <1>5 DEF IndInv, ExportsReleased
<1>10. UsageAgrees'
    <2>1. ASSUME NEW k \in Listed, k # l
          PROVE  listings'[k].usage = Cardinality({q \in Orgs : k \in purchases'[q]})
        <3>1. {q \in Orgs : k \in purchases'[q]} = {q \in Orgs : k \in purchases[q]}
            BY <1>6, <2>1
        <3>2. listings'[k] = listings[k]
            BY <1>3, <2>1 DEF Listed
        <3> QED
            BY <3>1, <3>2 DEF IndInv, MarketplaceAgrees, UsageAgrees
    <2>2. listings'[l].usage = Cardinality({q \in Orgs : l \in purchases'[q]})
        <3> DEFINE had == {q \in Orgs : l \in purchases[q]}
        <3>1. {q \in Orgs : l \in purchases'[q]} = had \cup {o} /\ o \notin had
            BY <1>1, <1>6
        <3>2. IsFiniteSet(had)
            BY FiniteAssumption, FS_Subset
        <3>3. listings[l].usage = Cardinality(had)
            BY <1>1 DEF IndInv, MarketplaceAgrees, UsageAgrees
        <3>4. listings'[l].usage = listings[l].usage + 1
            BY <1>2, <1>3, TakenTyped
        <3> HIDE DEF had
        <3>5. Cardinality(had \cup {o}) = Cardinality(had) + 1
            BY <3>1, <3>2, FS_AddElement
        <3> QED
            BY <3>1, <3>3, <3>4, <3>5
    <2> QED
        BY <1>4, <2>1, <2>2 DEF UsageAgrees
<1>11. PurchasesAgree'
    BY <1>1, <1>4, <1>5, <1>6 DEF IndInv, MarketplaceAgrees, PurchasesAgree
<1>12. PaidStaysHome'
    BY <1>1, <1>4, <1>5 DEF IndInv, MarketplaceAgrees, PaidStaysHome, OriginsListed
<1> QED
    BY <1>7, <1>8, <1>9, <1>10, <1>11, <1>12 DEF IndInv, MarketplaceAgrees

LEMMA AddReviewKeeps ==
    ASSUME IndInv, NEW l \in Listings, NEW rating \in Ratings, AddReview(l, rating)
    PROVE  IndInv'
<1>1. /\ rating \in 1 .. 5 /\ reviews[l].number < MaxReviews
      /\ reviews' = [reviews EXCEPT ![l] = [sum |-> reviews[l].sum + rating,
                                            number |-> reviews[l].number + 1]]
      /\ UNCHANGED <<listings, purchases, exports, released>>
    BY DEF AddReview
<1>2. /\ reviews[l].sum \in Nat /\ reviews[l].number \in Nat
      /\ reviews[l].sum \in reviews[l].number .. 5 * reviews[l].number
    BY MaxReviewsAssumption DEF IndInv, MarketTypeOK
<1>3. /\ reviews[l].sum + rating \in Nat /\ reviews[l].number + 1 \in 0 .. MaxReviews
      /\ reviews[l].sum + rating \in reviews[l].number + 1 .. 5 * (reviews[l].number + 1)
    BY <1>1, <1>2, MaxReviewsAssumption
<1>4. MarketTypeOK'
    <2>1. reviews' \in [Listings -> [sum : Nat, number : 0 .. MaxReviews]]
        BY <1>1, <1>3 DEF IndInv, MarketTypeOK
    <2>2. \A k \in Listings : reviews'[k].sum \in reviews'[k].number .. 5 * reviews'[k].number
        BY <1>1, <1>3 DEF IndInv, MarketTypeOK
    <2> QED
        BY <1>1, <2>1, <2>2 DEF IndInv, MarketTypeOK
<1>5. Listed' = Listed
    BY <1>1 DEF Listed
<1>6. OriginsListed' /\ ExportsReleased'
    BY <1>1, <1>5 DEF IndInv, OriginsListed, ExportsReleased
<1>7. MarketplaceAgrees'
    BY <1>1, <1>5 DEF IndInv, MarketplaceAgrees, UsageAgrees, PurchasesAgree, PaidStaysHome
<1> QED
    BY <1>4, <1>6, <1>7 DEF IndInv

LEMMA ExportKeeps ==
    ASSUME IndInv, NEW l \in Listings, NEW o \in Orgs, Export(l, o)
    PROVE  IndInv'
<1>1. /\ l \in Listed /\ (o = listings[l].owner \/ l \in purchases[o])
      /\ exports' = exports \cup {l}
      /\ released' = IF o = listings[l].owner THEN released \cup {l} ELSE released
      /\ UNCHANGED <<listings, reviews, purchases>>
    BY DEF Export, MayExport
<1>2. Listed' = Listed /\ released \subseteq released'
    BY <1>1 DEF Listed
<1>3. MarketTypeOK'
    BY <1>1 DEF IndInv, MarketTypeOK
<1>4. OriginsListed'
    BY <1>1, <1>2 DEF IndInv, OriginsListed
<1>5. ExportsReleased'
    <2>1. listings[l].price > 0 => l \in released'
        BY <1>1 DEF IndInv, MarketplaceAgrees, PurchasesAgree
    <2> QED
        BY <1>1, <1>2, <2>1 DEF IndInv, ExportsReleased
<1>6. MarketplaceAgrees'
    BY <1>1, <1>2 DEF IndInv, MarketplaceAgrees, UsageAgrees, PurchasesAgree, PaidStaysHome
<1> QED
    BY <1>3, <1>4, <1>5, <1>6 DEF IndInv

-----------------------------------------------------------------------------
\* Every operation keeps IndInv.
THEOREM Invariance == MarketSpec => []IndInv
<1>1. ASSUME IndInv, MarketNext PROVE IndInv'
    <2>1. ASSUME NEW l \in Listings, NEW o \in Orgs, NEW price \in Prices,
                 CreateListing(l, o, price)
          PROVE  IndInv'
        <3>1. NewListing(l, o, price, l) /\ UNCHANGED <<reviews, purchases, exports, released>>
            BY <2>1 DEF CreateListing
        <3> QED
            BY <1>1, <3>1, NewListingKeeps
    <2>2. ASSUME NEW l \in Listings, NEW o \in Orgs, Purchase(l, o) PROVE IndInv'
        BY <1>1, <2>2, PurchaseKeeps
    <2>3. ASSUME NEW l \in Listings, NEW rating \in Ratings, AddReview(l, rating) PROVE IndInv'
        BY <1>1, <2>3, AddReviewKeeps
    <2>4. ASSUME NEW l \in Listings, NEW o \in Orgs, Export(l, o) PROVE IndInv'
        BY <1>1, <2>4, ExportKeeps
    <2>5. ASSUME NEW l \in Listings, NEW o \in Orgs, NEW from \in exports, Import(l, o, from)
          PROVE  IndInv'
        BY <1>1, <2>5, ImportKeeps
    <2> QED
        BY <1>1, <2>1, <2>2, <2>3, <2>4, <2>5 DEF MarketNext
<1>2. ASSUME IndInv, UNCHANGED marketVars PROVE IndInv'
    <2> USE DEF marketVars
    <2>1. Listed' = Listed
        BY <1>2 DEF Listed
    <2>2. MarketTypeOK' /\ OriginsListed' /\ ExportsReleased'
        BY <1>2, <2>1 DEF IndInv, MarketTypeOK, OriginsListed, ExportsReleased
    <2>3. MarketplaceAgrees'
        BY <1>2, <2>1 DEF IndInv, MarketplaceAgrees, UsageAgrees, PurchasesAgree, PaidStaysHome
    <2> QED
        BY <2>2, <2>3 DEF IndInv
<1> QED
    BY InitInductive, <1>1, <1>2, PTL DEF MarketSpec

\* The marketplace keeps its type: every rating is the mean of ratings from 1 to 5.
THEOREM TypeCorrect == MarketSpec => []MarketTypeOK
<1>1. IndInv => MarketTypeOK
    BY DEF IndInv
<1> QED
    BY <1>1, Invariance, PTL

\* For any organizations and listings: usage_count is the number of organizations that
\* purchased the listing, only free ones were purchased, and a listing that carries the
\* pattern of another one, which has a price, is there only if that one's owner exported it.
THEOREM ListingsAgree == MarketSpec => []MarketplaceAgrees
<1>1. IndInv => MarketplaceAgrees
    BY DEF IndInv
<1> QED
    BY <1>1, Invariance, PTL
=============================================================================

------------------------- MODULE PatternMarketplace -------------------------
(***************************************************************************)
(* CLEPatternMarketplace: organizations list patterns, take, review,       *)
(* export and import them.  usage_count and rating are kept in the listing *)
(* beside the purchases and the reviews they are computed from.            *)
(***************************************************************************)
EXTENDS Integers, FiniteSets

CONSTANTS
    Orgs,
    Listings,       \* the listing ids; each is drawn once
    NoListing,
    Prices,
    Ratings,        \* the ratings somebody may try to give
    MaxReviews      \* bound on the reviews of a listing

ASSUME NoListingAssumption  == NoListing \notin Listings
ASSUME FiniteAssumption     == IsFiniteSet(Orgs)
ASSUME PricesAssumption     == Prices \subseteq Nat /\ 0 \in Prices /\ Ratings \subseteq Int
ASSUME MaxReviewsAssumption == MaxReviews \in Nat

VARIABLES
    listings,       \* _listings
    reviews,        \* _reviews, as the sum and the number of the ratings
    purchases,      \* _purchases: the listings each organization has
    exports,        \* the listings there is export data of, which anybody may pass on
    released        \* history: the listings their owner exported

marketVars == <<listings, reviews, purchases, exports, released>>

\* "of": the listing whose pattern this one carries, itself unless it was imported.
Listing == [owner : Orgs, price : Prices, of : Listings, usage : Nat]

NotListed == [of |-> NoListing]

Listed == {l \in Listings : listings[l] # NotListed}

\* The rating of a listing is the mean of its reviews: 0 without any, else 1 to 5.
MarketTypeOK ==
    /\ listings \in [Listings -> Listing \cup {NotListed}]
    /\ reviews \in [Listings -> [sum : Nat, number : 0 .. MaxReviews]]
    /\ \A l \in Listings : reviews[l].sum \in reviews[l].number .. 5 * reviews[l].number
    /\ purchases \in [Orgs -> SUBSET Listings]
    /\ exports \subseteq Listings
    /\ released \subseteq exports

MarketInit ==
    /\ listings = [l \in Listings |-> NotListed]
    /\ reviews = [l \in Listings |-> [sum |-> 0, number |-> 0]]
    /\ purchases = [o \in Orgs |-> {}]
    /\ exports = {}
    /\ released = {}

-----------------------------------------------------------------------------
\* create_listing
NewListing(l, o, price, of) ==
    /\ l \notin Listed
    /\ listings' = [listings EXCEPT ![l] =
         [owner |-> o, price |-> price, of |-> of, usage |-> 0]]

CreateListing(l, o, price) ==
    /\ NewListing(l, o, price, l)
    /\ UNCHANGED <<reviews, purchases, exports, released>>

\* purchase_listing: "already_owned" and "payment_required" change nothing.  The owner
\* may purchase too.
Purchase(l, o) ==
    /\ l \in Listed /\ l \notin purchases[o] /\ listings[l].price = 0
    /\ purchases' = [purchases EXCEPT ![o] = @ \cup {l}]
    /\ listings' = [listings EXCEPT ![l].usage = @ + 1]
    /\ UNCHANGED <<reviews, exports, released>>

\* add_review: anyone may, as often as they like, and the mean is taken again.
AddReview(l, rating) ==
    /\ l \in Listed /\ rating \in 1 .. 5
    /\ reviews[l].number < MaxReviews
    /\ reviews' = [reviews EXCEPT ![l] = [sum |-> reviews[l].sum + rating,
                                          number |-> reviews[l].number + 1]]
    /\ UNCHANGED <<listings, purchases, exports, released>>

\* Mutant of MayExport: being listed is enough.
MayExportListed(l, o) == l \in Listed

MayExport(l, o) == l \in Listed /\ (o = listings[l].owner \/ l \in purchases[o])

\* export_pattern
Export(l, o) ==
    /\ MayExport(l, o)
    /\ exports' = exports \cup {l}
    /\ released' = IF o = listings[l].owner THEN released \cup {l} ELSE released
    /\ UNCHANGED <<listings, reviews, purchases>>

\* import_pattern: a listing of the importer's own, free since the data names no price.
Import(l, o, from) ==
    /\ from \in exports
    /\ NewListing(l, o, 0, listings[from].of)
    /\ UNCHANGED <<reviews, purchases, exports, released>>

MarketNext ==
    \E l \in Listings, o \in Orgs :
      \/ \E price \in Prices : CreateListing(l, o, price)
      \/ Purchase(l, o)
      \/ \E rating \in Ratings : AddReview(l, rating)
      \/ Export(l, o)
      \/ \E from \in exports : Import(l, o, from)

MarketSpec == MarketInit /\ [][MarketNext]_marketVars

-----------------------------------------------------------------------------
(* Properties *)

\* usage_count is the number of organizations that purchased the listing; an import of its
\* export is not counted.
UsageAgrees ==
    \A l \in Listed : listings[l].usage = Cardinality({o \in Orgs : l \in purchases[o]})

\* Only what is listed and free was purchased: purchase_listing turns everybody away from
\* a listing with a price, since there is no way to pay.
PurchasesAgree ==
    \A o \in Orgs : \A l \in purchases[o] : l \in Listed /\ listings[l].price = 0

\* The pattern of a listing with a price reaches another listing only if the owner
\* exported it, however often it is passed on, imported, taken and exported again.  Once
\* the owner has, anybody may import it for nothing.
PaidStaysHome ==
    \A l \in Listed :
      LET r == listings[l].of IN r # l /\ listings[r].price > 0 => r \in released

\* The counts of listings agree with the purchases, and what has a price was neither
\* purchased nor passed on but by its owner, through any chain of purchases, exports and
\* imports.
MarketplaceAgrees == UsageAgrees /\ PurchasesAgree /\ PaidStaysHome
=============================================================================

------------------------------ MODULE Listings ------------------------------
(***************************************************************************)
(* A seller's listings: publishing, editing and withdrawing them from      *)
(* requests that overlap, the shape each category prescribes, and where a  *)
(* buyer meets them - the feed, the detail page, the bookmarks, the        *)
(* checkout.                                                               *)
(*                                                                         *)
(* Code: ListingsService, BookmarksService and the gate of                 *)
(* OrdersService.createForBuyer.                                           *)
(***************************************************************************)
EXTENDS SellerAccount

CONSTANTS
    ListingIds,
    Drafts,     \* the dtos of create: a value for every field
    Edits       \* the dtos of update: values for some fields

\* The fields that are validated: the price against the cap (priceCents is given
\* as "low" or "high"), portionsLeft, expiresAt, the dish type, and what is
\* declared of allergens.
Fields == {"price", "portions", "expiresAt", "dishType", "allergens", "otherAllergens"}

\* declaresNoAllergens comes with a dto and is not stored.
ASSUME ListingsAssumption ==
    /\ \A d \in Drafts : DOMAIN d = Fields \cup {"declaresNone"}
    /\ \A e \in Edits : "declaresNone" \in DOMAIN e /\ DOMAIN e \subseteq Fields \cup {"declaresNone"}

VARIABLES
    listing,  \* Listing: row is "none", "live" or "deleted"
    bookmarks \* the listings one buyer has bookmarked

listings == <<listing, bookmarks>>
NoListing == [row |-> "none", available |-> FALSE, category |-> "none", shape |-> Null]

ListingsInit ==
    /\ listing = [l \in ListingIds |-> NoListing]
    /\ bookmarks = {}

-----------------------------------------------------------------------------
(* Validation *)

\* DISH_TYPES_BY_CATEGORY.
Dishes == {"ENTREE", "PLAT", "DESSERT", "BOISSON"}
DishTypes(category) ==
    CASE category = "FAIT_MAISON" -> {}
      [] category = "RESTAURANT" -> Dishes
      [] category = "TRAITEUR" -> Dishes \cup {"COCKTAIL_DINATOIRE"}

\* validateCategoryShape.
CategoryShape(s, category) ==
    /\ category = "FAIT_MAISON" =>
         s["price"] = "low" /\ s["portions"] # Null /\ s["expiresAt"] # Null
    /\ s["dishType"] # Null => s["dishType"] \in DishTypes(category)

\* validateAllergens: a declaration of some kind, and "none" only alone.
AllergensDeclared(allergens, other, none) ==
    LET some == allergens = "some" \/ other = "text" IN none # some

\* parseFutureDate.
InFuture(dto) ==
    "expiresAt" \in DOMAIN dto /\ dto["expiresAt"] # Null => dto["expiresAt"] > now

\* mergeForValidation: a field the dto does not mention keeps its value; so does
\* one of the allergen fields that the dto sets to null.
Merged(shape, dto) == [f \in Fields |-> IF f \in DOMAIN dto THEN dto[f] ELSE shape[f]]
DeclaredBy(shape, dto, f) ==
    IF f \in DOMAIN dto /\ dto[f] # Null THEN dto[f] ELSE shape[f]

-----------------------------------------------------------------------------
(* ListingsService *)

\* assertSeller's gates.
KycApproved == profile.kyc = "APPROVED"

\* create: every gate and validation, in one read.
Create(t, draft) ==
    /\ At(t, "idle")
    /\ KycApproved /\ Active /\ ~suspended
    /\ profile.category # "none"
    /\ CategoryShape(draft, profile.category)
    /\ AllergensDeclared(draft["allergens"], draft["otherAllergens"], draft["declaresNone"])
    /\ InFuture(draft)
    /\ Goto(t, "insertListing", [category |-> profile.category, draft |-> draft])
    /\ UNCHANGED <<account, listings>>

InsertListing(t) ==
    /\ At(t, "insertListing")
    /\ \E l \in ListingIds, available \in BOOLEAN :
         /\ listing[l].row = "none"
         /\ listing' = [listing EXCEPT ![l] =
              [row |-> "live", available |-> available, category |-> task[t].arg.category,
               shape |-> [f \in Fields |-> task[t].arg.draft[f]]]]
    /\ Done(t)
    /\ UNCHANGED <<account, bookmarks>>

\* The gates of update (not the suspension), setAvailability and softDelete.
Update(t, l, dto) ==
    /\ At(t, "idle")
    /\ KycApproved /\ Active
    /\ Goto(t, "readListing", [listing |-> l, dto |-> dto])
    /\ UNCHANGED <<account, listings>>
SetAvailability(t, l, available) ==
    /\ At(t, "idle")
    /\ Active
    /\ listing[l].row = "live"
    /\ Goto(t, "setAvailable", [listing |-> l, available |-> available])
    /\ UNCHANGED <<account, listings>>
SoftDelete(t, l) ==
    /\ At(t, "idle")
    /\ listing[l].row = "live"
    /\ Goto(t, "delete", l)
    /\ UNCHANGED <<account, listings>>

\* Mutant: an edit is validated for the seller's category of today.
ValidateUpdateForSeller(t) ==
    /\ At(t, "readListing")
    /\ LET l == task[t].arg.listing
           dto == task[t].arg.dto IN
       IF /\ listing[l].row = "live"
          /\ profile.category # "none"
          /\ CategoryShape(Merged(listing[l].shape, dto), profile.category)
       THEN Goto(t, "writeUpdate", task[t].arg)
       ELSE Done(t)
    /\ UNCHANGED <<account, listings>>

\* update: the listing is read, and the shape it would have is validated for
\* the category it was published under.
ValidateUpdate(t) ==
    /\ At(t, "readListing")
    /\ LET l == task[t].arg.listing
           dto == task[t].arg.dto
           shape == listing[l].shape IN
       IF /\ listing[l].row = "live"
          /\ CategoryShape(Merged(shape, dto), listing[l].category)
          /\ AllergensDeclared(DeclaredBy(shape, dto, "allergens"),
                               DeclaredBy(shape, dto, "otherAllergens"), dto["declaresNone"])
          /\ InFuture(dto)
       THEN Goto(t, "writeUpdate", task[t].arg)
       ELSE Done(t)
    /\ UNCHANGED <<account, listings>>

\* Only the fields of the dto are written, whatever the others are by now; it may
\* set isAvailable too.
WriteUpdate(t) ==
    /\ At(t, "writeUpdate")
    /\ LET l == task[t].arg.listing IN
       \E available \in BOOLEAN :
         listing' = [listing EXCEPT ![l].shape = Merged(@, task[t].arg.dto),
                                    ![l].available = available]
    /\ Done(t)
    /\ UNCHANGED <<account, bookmarks>>

\* By id: also for a listing deleted meanwhile.
WriteAvailability(t) ==
    /\ At(t, "setAvailable")
    /\ listing' = [listing EXCEPT ![task[t].arg.listing].available = task[t].arg.available]
    /\ Done(t)
    /\ UNCHANGED <<account, bookmarks>>

WriteDelete(t) ==
    /\ At(t, "delete")
    /\ listing' = [listing EXCEPT ![task[t].arg].row = "deleted", ![task[t].arg].available = FALSE]
    /\ Done(t)
    /\ UNCHANGED <<account, bookmarks>>

-----------------------------------------------------------------------------
(* BookmarksService *)

AddBookmark(l) ==
    /\ listing[l].row # "none"
    /\ bookmarks' = bookmarks \cup {l}
    /\ UNCHANGED <<account, listing, task>>
RemoveBookmark(l) ==
    /\ bookmarks' = bookmarks \ {l}
    /\ UNCHANGED <<account, listing, task>>

-----------------------------------------------------------------------------
(* Where buyers meet a listing *)

NotExpired(l) ==
    listing[l].shape["expiresAt"] # Null => listing[l].shape["expiresAt"] > now

\* Mutant: a listing whose date has passed stays in the feed.
FeedWithExpired(inStockOnly) ==
    {l \in ListingIds :
       /\ listing[l].row = "live" /\ listing[l].available
       /\ KycApproved /\ Active /\ ~suspended
       /\ inStockOnly => listing[l].shape["portions"] # 0}

\* feed: the visibility conditions of its query, and one of its filters.
Feed(inStockOnly) ==
    {l \in ListingIds :
       /\ listing[l].row = "live"
       /\ listing[l].available
       /\ NotExpired(l)
       /\ KycApproved
       /\ profile.status \in {"ACTIVE", "TRIALING"}
       /\ profile.end # NoEnd => profile.end > now
       /\ ~suspended
       /\ inStockOnly => listing[l].shape["portions"] # 0}

\* findById shows a listing of an unsuspended seller, BookmarksService lists
\* those of an approved one.
Detail == {l \in ListingIds : listing[l].row = "live" /\ ~suspended}
BookmarkList == {l \in bookmarks : listing[l].row = "live" /\ KycApproved}

\* createForBuyer: the seller may sell, and the listing is live.
Accepts(l) ==
    /\ KycApproved
    /\ ~suspended
    /\ Active
    /\ profile.hasFee
    /\ listing[l].row = "live"
    /\ listing[l].available
    /\ NotExpired(l)

-----------------------------------------------------------------------------
ListingsStep(t) ==
    \/ InsertListing(t) \/ ValidateUpdate(t) \/ WriteUpdate(t)
    \/ WriteAvailability(t) \/ WriteDelete(t)

ListingsNext ==
    \/ \E t \in Tasks :
         \/ \E draft \in Drafts : Create(t, draft)
         \/ \E l \in ListingIds :
              \/ \E dto \in Edits : Update(t, l, dto)
              \/ \E available \in BOOLEAN : SetAvailability(t, l, available)
              \/ SoftDelete(t, l)
         \/ ListingsStep(t)
    \/ \E l \in ListingIds : AddBookmark(l) \/ RemoveBookmark(l)

-----------------------------------------------------------------------------
(* Properties *)

\* validateCategoryShape, for every listing and not only for the request that
\* was validated: edits that overlap each other, and changes of the seller's
\* category between publication and edit, never leave a listing in a shape its
\* own category forbids (the 4.50 euro cap, portions, a date, the dish types).
CategoryShapeKept ==
    \A l \in ListingIds :
      listing[l].row # "none" => CategoryShape(listing[l].shape, listing[l].category)

\* The conditions of the feed's query and the checks of the checkout are written
\* twice: what the feed shows can be ordered, and every page that shows a listing
\* the checkout accepts agrees with the feed.
ShownIsOrderable ==
    /\ \A inStockOnly \in BOOLEAN : \A l \in Feed(inStockOnly) : Accepts(l)
    /\ \A l \in Detail \cup BookmarkList : Accepts(l) => l \in Feed(FALSE)
=============================================================================

------------------------------ MODULE Branding ------------------------------
(***************************************************************************)
(* The look of one partner's screens (lib/branding.js) and the pictures it *)
(* uploads for them (lib/brand-media.js, lib/storage.js): the layers of    *)
(* one outlet, which a merchant runs, at one property.                     *)
(*                                                                         *)
(* A field is a text (the logo's words, the colours, the titles) or one of *)
(* two pictures. Inherit is the NULL of it.                                 *)
(***************************************************************************)
EXTENDS Naturals, Sequences, FiniteSetsExt

CONSTANTS
  Inherit,    \* a field's NULL: it comes from the layer below
  Worded,     \* the scopes that administrators set a text for
  Pictured,   \* the scopes that they upload pictures for
  MaxUploads  \* bound on the pictures uploaded

\* The layers above partner_branding, from the weakest to the strongest.
Layers == <<"partner", "property", "merchant", "outlet">>
Scopes == {Layers[i] : i \in DOMAIN Layers}

Pictures == {"logo", "banner"}
Fields == Pictures \cup {"text"}

ASSUME BrandingAssumption ==
  Worded \subseteq Scopes /\ Pictured \subseteq Scopes /\ MaxUploads \in Nat

VARIABLES
  entitled,  \* the partner's active plan has whiteLabel
  mode,      \* partner_branding.mode
  table,     \* partner_branding.logo_text and the other words
  override,  \* branding_overrides, a record of the fields for each scope
  assets,    \* the pictures ever stored: of which scope and type, and whether
             \* the row in brand_assets and the file are still there
  sending    \* the upload that is authorised while its body arrives, or none

brandingVars == <<entitled, mode, table, override, assets, sending>>

Inherits == [f \in Fields |-> Inherit]

BrandingInit ==
  /\ entitled \in BOOLEAN
  /\ mode = "alnadl"
  /\ table = Inherit
  /\ override = [s \in Scopes |-> Inherits]
  /\ assets = <<>>
  /\ sending = {}

\* The partner's subscription or its plan changes.
ChangeEntitlement ==
  /\ entitled' = ~entitled
  /\ UNCHANGED <<mode, table, override, assets, sending>>

\* POST /api/admin/branding, which writes every column of partner_branding.
SetPartnerBranding(newMode, text) ==
  /\ entitled
  /\ mode' = newMode /\ table' = text
  /\ UNCHANGED <<entitled, override, assets, sending>>

\* PUT /api/admin/branding/:scopeType/:scopeId: the pictures stay as they are.
SetText(s, text) ==
  /\ entitled
  /\ override' = [override EXCEPT ![s].text = text]
  /\ UNCHANGED <<entitled, mode, table, assets, sending>>

\* DELETE of the same: the row goes, its pictures stay stored.
ClearOverride(s) ==
  /\ override' = [override EXCEPT ![s] = Inherits]
  /\ UNCHANGED <<entitled, mode, table, assets, sending>>

-----------------------------------------------------------------------------

\* The last statements of deleteAsset, for every scope that names the picture.
Unnamed(overrides, id) ==
  [s \in Scopes |-> [f \in Fields |-> IF f \in Pictures /\ overrides[s][f] = id
                                      THEN Inherit ELSE overrides[s][f]]]

\* deleteAsset: the file, then the row.
Without(stored, id) == [stored EXCEPT ![id].row = FALSE, ![id].file = FALSE]

\* POST /api/admin/brand-assets/:scopeType/:scopeId up to its await of the body.
BeginUpload(s, type) ==
  /\ entitled /\ sending = {}
  /\ sending' = {[scope |-> s, type |-> type]}
  /\ UNCHANGED <<entitled, mode, table, override, assets>>

\* validate refuses the file, or it never arrives.
RefuseUpload ==
  /\ sending # {}
  /\ sending' = {}
  /\ UNCHANGED <<entitled, mode, table, override, assets>>

\* storeAsset, and the rest of the handler: the field names the new picture, and
\* the one it named before is deleted.
FinishUpload(s, type) ==
  /\ [scope |-> s, type |-> type] \in sending /\ Len(assets) < MaxUploads
  /\ LET new == Len(assets) + 1
         old == override[s][type]
         stored == Append(assets, [scope |-> s, type |-> type, row |-> TRUE, file |-> TRUE])
         named == [override EXCEPT ![s][type] = new]
     IN /\ assets' = IF old = Inherit THEN stored ELSE Without(stored, old)
        /\ override' = IF old = Inherit THEN named ELSE Unnamed(named, old)
  /\ sending' = {}
  /\ UNCHANGED <<entitled, mode, table>>

\* DELETE /api/admin/brand-assets/:assetId.
DeletePicture(id) ==
  /\ assets[id].row
  /\ assets' = Without(assets, id)
  /\ override' = Unnamed(override, id)
  /\ UNCHANGED <<entitled, mode, table, sending>>

BrandingNext ==
  \/ ChangeEntitlement
  \/ \E m \in {"alnadl", "partner"}, t \in {Inherit, "words"} : SetPartnerBranding(m, t)
  \/ \E s \in Worded, t \in {Inherit, "words"} : SetText(s, t)
  \/ \E s \in Scopes : ClearOverride(s)
  \/ \E s \in Pictured, type \in Pictures : BeginUpload(s, type) \/ FinishUpload(s, type)
  \/ RefuseUpload
  \/ \E id \in DOMAIN assets : DeletePicture(id)

BrandingSpec == BrandingInit /\ [][BrandingNext]_brandingVars

-----------------------------------------------------------------------------
(* resolveBranding, for a guest who has chosen the outlet (the first four    *)
(* layers) or not yet (the first two).                                       *)

Active == entitled /\ mode # "alnadl"

Strongest(f, layers) ==
  LET set == {i \in 1..layers : override[Layers[i]][f] # Inherit}
  IN IF set # {} THEN Layers[Max(set)]
     ELSE IF f = "text" /\ table # Inherit THEN "table" ELSE "default"

\* The banner as any other field.
SourceOfEach(f, layers) == Strongest(f, layers)

\* A banner is not inherited across the border of a merchant's brand.
Source(f, layers) ==
  IF /\ f = "banner"
     /\ \E g \in Fields : Strongest(g, layers) = "merchant"
     /\ Strongest(f, layers) \notin {"merchant", "outlet"}
  THEN "none" ELSE Strongest(f, layers)

-----------------------------------------------------------------------------

\* Every picture a guest is shown is stored, whatever was replaced, deleted and
\* cleared meanwhile, also while other uploads were arriving; and beside anything
\* of the merchant's brand stands no banner of the property's or the partner's.
ShowsOnlyItsPictures ==
  LET source == [f \in Fields |-> Source(f, Len(Layers))]
      shown(f) == assets[override[source[f]][f]]
  IN  Active => \A f \in Pictures : source[f] \in Scopes =>
        /\ shown(f).row /\ shown(f).file
        /\ f = "banner" /\ (\E g \in Fields : source[g] = "merchant")
             => shown(f).scope \in {"merchant", "outlet"}
=============================================================================

------------------------------ MODULE BackOffice ------------------------------
(***************************************************************************)
(* What the owner and the staff of a store keep up: its subscription and   *)
(* the owner's other stores, accounts and registers, the catalogue and its *)
(* names, promotions, programs and permissions, and reviewed packs.        *)
(* These components share no rows in what they are modelled with, so that  *)
(* all that their interleavings could show is shown by each at a desk of   *)
(* its own: a behaviour stays at the desk it begins at.                    *)
(***************************************************************************)
EXTENDS Billing, Stores, Accounts, Registers, Catalogue, SetupNames, Replacement, MultiPack

CONSTANT Desks  \* the components that may act: a subset of AllDesks

AllDesks ==
  {"billing", "stores", "accounts", "registers", "catalogue", "names", "records", "packs"}

ASSUME DeskAssumption == Desks \subseteq AllDesks

VARIABLE desk   \* the component that acts

-----------------------------------------------------------------------------
OfficeInit ==
  /\ desk \in Desks
  /\ BillingInit /\ (desk # "billing" => sessions = <<>>)
  /\ ShopInit /\ AccountInit /\ RegisterInit /\ CatalogueInit
  /\ PackInit
  /\ NamesInit /\ (desk # "names" => table = "plain")
  /\ ReplacementInit /\ (desk # "records" => kind = "permissions")

\* Every component but the one at the desk rests.
Rest(d) ==
  /\ d # "billing" => UNCHANGED billingVars
  /\ d # "stores" => UNCHANGED shopVars
  /\ d # "accounts" => UNCHANGED accountVars
  /\ d # "registers" => UNCHANGED registerVars
  /\ d # "catalogue" => UNCHANGED catalogueVars
  /\ d # "names" => UNCHANGED namesVars
  /\ d # "records" => UNCHANGED replacementVars
  /\ d # "packs" => UNCHANGED packVars

AtDesk(d) == desk = d /\ Rest(d) /\ UNCHANGED desk

OfficeNext ==
  \/ AtDesk("billing") /\ BillingNext
  \/ AtDesk("stores") /\ ShopNext
  \/ AtDesk("accounts") /\ AccountNext
  \/ AtDesk("registers") /\ RegisterNext
  \/ AtDesk("catalogue") /\ CatalogueNext
  \/ AtDesk("names") /\ NamesNext
  \/ AtDesk("records") /\ ReplacementNext
  \/ AtDesk("packs") /\ PackNext

officeVars ==
  <<desk, billingVars, shopVars, accountVars, registerVars, catalogueVars, namesVars,
    replacementVars, packVars>>

OfficeSpec == OfficeInit /\ [][OfficeNext]_officeVars
=============================================================================

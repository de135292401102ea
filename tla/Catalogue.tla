----------------------------- MODULE Catalogue -----------------------------
(***************************************************************************)
(* The catalogue and what refers to it: ProductsService,                   *)
(* ProductVariantsService, AttributesService, AttributeValuesService and   *)
(* InventoryService.initialize().                                          *)
(*                                                                         *)
(* Rows are deleted softly, so no foreign key protects what refers to      *)
(* them.  A call reads what it relies on and then writes by id, without a  *)
(* condition; only unique keys and row locks are left to the database.  A  *)
(* write is a step when its transaction commits, at READ COMMITTED: what a *)
(* first statement of it has found is a step of its own.                   *)
(*                                                                         *)
(* Simplifications: a variant has one attribute value, and its             *)
(* combinationKey names it; an attribute is deleted as its values are,     *)
(* when no variant uses it; an inactive attribute or value, a slug, SKU or *)
(* barcode in use refuse a call, as Refuse does; names, prices, the status *)
(* of a variant and the links of a product to brand, categories, tags and  *)
(* attributes are left out.                                                *)
(***************************************************************************)
EXTENDS FiniteSets

CONSTANTS
    Products, Variants, Values,
    Clerks,                          \* calls of the admin routes in flight
    Statuses,                        \* those an admin asks for
    NoProduct, NoVariant, NoValue

ASSUME CatalogueAssumption ==
    /\ NoProduct \notin Products /\ NoVariant \notin Variants /\ NoValue \notin Values
    /\ Statuses \subseteq {"DRAFT", "ACTIVE", "INACTIVE", "ARCHIVED", "OUT_OF_STOCK"}

VARIABLES
    product, variant,    \* the Product and ProductVariant rows
    attrValue,           \* the AttributeValue rows, each with its Attribute
    stocked,             \* the InventoryItem rows, by product and variant
    clerk,               \* the calls in flight
    archived,            \* history: the products that have been ARCHIVED
    late                 \* history: a call committed when its reasons were gone

catalogueVars == <<product, variant, attrValue, stocked, clerk, archived, late>>

Life == {"none", "live", "deleted"}

ProductRow == [life   : Life,
               type   : {"SIMPLE", "VARIABLE"},
               status : {"DRAFT", "ACTIVE", "INACTIVE", "ARCHIVED", "OUT_OF_STOCK"},
               sku    : BOOLEAN]       \* it has one

VariantRow == [life    : Life,
               product : Products \cup {NoProduct},
               key     : Values \cup {NoValue},    \* combinationKey
               value   : Values \cup {NoValue}]    \* of an attribute

Clerk == [op      : {"idle", "update", "status", "remove", "delete", "addVariant",
                     "editVariant", "changeVariant", "removeVariant", "generate", "removeValue",
                     "initialize"},
          product : Products \cup {NoProduct},
          variant : Variants \cup {NoVariant},
          values  : SUBSET Values,
          row     : ProductRow,        \* its sku or status is to be written
          locked  : SUBSET Variants]   \* rows its transaction has updated so far

CatalogueTypeOK ==
    /\ product \in [Products -> ProductRow]
    /\ variant \in [Variants -> VariantRow]
    /\ attrValue \in [Values -> Life]
    /\ stocked \subseteq Products \X (Variants \cup {NoVariant})
    /\ clerk \in [Clerks -> Clerk]
    /\ archived \subseteq Products /\ late \in BOOLEAN

------------------------------------------------------------------------------
NewRow == [life |-> "none", type |-> "SIMPLE", status |-> "DRAFT", sku |-> FALSE]
On(op, p, v, xs, row) ==
    [op |-> op, product |-> p, variant |-> v, values |-> xs, row |-> row, locked |-> {}]
NoClerk == On("idle", NoProduct, NoVariant, {}, NewRow)

CatalogueInit ==
    /\ product = [p \in Products |-> NewRow]
    /\ variant = [v \in Variants |-> [life |-> "none", product |-> NoProduct, key |-> NoValue,
                                   value |-> NoValue]]
    /\ attrValue = [x \in Values |-> "live"]
    /\ stocked = {}
    /\ clerk = [m \in Clerks |-> NoClerk]
    /\ archived = {} /\ late = FALSE

------------------------------------------------------------------------------
(* What a call relies on, as it reads it.                                  *)

LiveProduct(p) == p \in Products /\ product[p].life = "live"
LiveVariant(p, v) == v \in Variants /\ variant[v].life = "live" /\ variant[v].product = p
LiveVariants(p) == {v \in Variants : LiveVariant(p, v)}

(* The variants of a product, the deleted ones too, by their combinationKey. *)
With(p, x) == {v \in Variants : variant[v].life # "none" /\ variant[v].product = p
                                /\ variant[v].key = x}
UsersOf(x) == {v \in Variants : variant[v].life # "none" /\ variant[v].value = x}

(* validateAttributeValueIds(). *)
ValidValue(x) == attrValue[x] = "live"

(* resolveSkuForUpdate(): the SKU given, for a simple product only, or the *)
(* one the row had.                                                        *)
CanUpdate(q) ==
    /\ LiveProduct(q.product)
    /\ \/ q.row.sku = product[q.product].sku
       \/ q.row.sku /\ product[q.product].type = "SIMPLE"

Allowed == {<<"DRAFT", "ACTIVE">>, <<"DRAFT", "ARCHIVED">>, <<"ACTIVE", "INACTIVE">>,
            <<"ACTIVE", "ARCHIVED">>, <<"INACTIVE", "ACTIVE">>, <<"INACTIVE", "ARCHIVED">>,
            <<"OUT_OF_STOCK", "ACTIVE">>, <<"OUT_OF_STOCK", "INACTIVE">>,
            <<"OUT_OF_STOCK", "ARCHIVED">>}

(* assertCanActivate(). *)
CanActivate(p) ==
    IF product[p].type = "SIMPLE" THEN product[p].sku ELSE \E v \in Variants : LiveVariant(p, v)

CanSetStatus(q) ==
    LET from == product[q.product].status
    IN  /\ LiveProduct(q.product)
        /\ from = q.row.status \/ <<from, q.row.status>> \in Allowed
        /\ q.row.status = "ACTIVE" => CanActivate(q.product)

(* Fault: the inventory of the product is not counted. *)
CanRemoveUncounted(q) == LiveProduct(q.product)

CanRemove(q) == LiveProduct(q.product) /\ \A i \in stocked : i[1] # q.product

(* At its commit a removal relies on the variants found by its first       *)
(* statement too: no other has come to the product since.                  *)
CanDelete(q) == CanRemove(q) /\ q.locked = LiveVariants(q.product)

CanAddVariant(q) ==
    /\ LiveProduct(q.product)
    /\ \A x \in q.values : ValidValue(x) /\ With(q.product, x) = {}

CanChangeVariant(q) ==
    /\ LiveProduct(q.product) /\ LiveVariant(q.product, q.variant)
    /\ \A x \in q.values : ValidValue(x) /\ With(q.product, x) \subseteq {q.variant}

CanEditVariant(q) ==
    /\ LiveProduct(q.product) /\ LiveVariant(q.product, q.variant)
    /\ q.values = {variant[q.variant].key}

CanRemoveVariant(q) ==
    /\ LiveProduct(q.product) /\ LiveVariant(q.product, q.variant)
    /\ \A i \in stocked : i[2] # q.variant

CanGenerate(q) ==
    /\ LiveProduct(q.product) /\ product[q.product].type = "VARIABLE"
    /\ \A x \in q.values : ValidValue(x)

CanRemoveValue(q) ==
    \A x \in q.values : attrValue[x] = "live" /\ UsersOf(x) = {}

CanInitialize(q) ==
    /\ LiveProduct(q.product)
    /\ q.variant # NoVariant => LiveVariant(q.product, q.variant)

Reasons(q) ==
    \/ q.op = "update" /\ CanUpdate(q)
    \/ q.op = "status" /\ CanSetStatus(q)
    \/ q.op = "remove" /\ CanRemove(q)
    \/ q.op = "delete" /\ CanDelete(q)
    \/ q.op = "addVariant" /\ CanAddVariant(q)
    \/ q.op = "editVariant" /\ CanEditVariant(q)
    \/ q.op = "changeVariant" /\ CanChangeVariant(q)
    \/ q.op = "removeVariant" /\ CanRemoveVariant(q)
    \/ q.op = "generate" /\ CanGenerate(q)
    \/ q.op = "removeValue" /\ CanRemoveValue(q)
    \/ q.op = "initialize" /\ CanInitialize(q)

------------------------------------------------------------------------------
(* The calls read ...                                                      *)

Ask(m, q) ==
    /\ clerk[m].op = "idle" /\ Reasons(q)
    /\ clerk' = [clerk EXCEPT ![m] = q]
    /\ UNCHANGED <<product, variant, attrValue, stocked, archived, late>>

(* The SKU is given, or written back as it was read. *)
BeginUpdateProduct(m, p) ==
    \E sku \in {TRUE, product[p].sku} :
        Ask(m, On("update", p, NoVariant, {}, [NewRow EXCEPT !.sku = sku]))

BeginStatus(m, p) ==
    \E status \in Statuses :
        Ask(m, On("status", p, NoVariant, {}, [NewRow EXCEPT !.status = status]))

BeginRemoveProduct(m, p) == Ask(m, On("remove", p, NoVariant, {}, NewRow))

BeginAddVariant(m, p, x) == Ask(m, On("addVariant", p, NoVariant, {x}, NewRow))

(* update(): of another combination, or of other fields, when the key is   *)
(* written back as it was read.                                            *)
BeginChangeVariant(m, p, v, x) ==
    Ask(m, On(IF x = variant[v].key THEN "editVariant" ELSE "changeVariant", p, v, {x}, NewRow))

BeginRemoveVariant(m, p, v) == Ask(m, On("removeVariant", p, v, {}, NewRow))

(* generate() keeps the live variants it finds and is to make the others.  *)
BeginGenerate(m, p, axis) ==
    LET missing == {x \in axis : \A v \in With(p, x) : variant[v].life = "deleted"}
    IN  /\ \A x \in axis : ValidValue(x)
        /\ Ask(m, On("generate", p, NoVariant, missing, NewRow))

BeginRemoveValue(m, x) == Ask(m, On("removeValue", NoProduct, NoVariant, {x}, NewRow))

BeginInitialize(m, p, v) == Ask(m, On("initialize", p, v, {}, NewRow))

------------------------------------------------------------------------------
(* ... and write, whatever has become of what they read.                   *)

Finish(m, ops) ==
    /\ clerk[m].op \in ops
    /\ clerk' = [clerk EXCEPT ![m] = NoClerk]
    /\ late' = (late \/ ~ Reasons(clerk[m]))

(* A product gets a row, or its row some other fields. *)
WriteProduct(p, row) ==
    /\ product' = [product EXCEPT ![p] = row]
    /\ archived' = IF row.status = "ARCHIVED" THEN archived \cup {p} ELSE archived

(* create() reads nothing that another call here can change, nor does      *)
(* duplicate(), whose source is any live product, followed here or not.    *)
CreateProduct(p, row) ==
    /\ product[p].life = "none" /\ WriteProduct(p, row)
    /\ UNCHANGED <<variant, attrValue, stocked, clerk, late>>

Create(p) ==
    \E type \in {"SIMPLE", "VARIABLE"}, status \in Statuses :
        CreateProduct(p, [life |-> "live", type |-> type, status |-> status,
                          sku |-> type = "SIMPLE"])

Duplicate(p) ==
    \E type \in {"SIMPLE", "VARIABLE"} :
        CreateProduct(p, [life |-> "live", type |-> type, status |-> "DRAFT", sku |-> FALSE])

UpdateProduct(m) ==
    LET q == clerk[m] IN
    /\ Finish(m, {"update"})
    /\ WriteProduct(q.product, [product[q.product] EXCEPT !.sku = q.row.sku])
    /\ UNCHANGED <<variant, attrValue, stocked>>

UpdateStatus(m) ==
    LET q == clerk[m] IN
    /\ Finish(m, {"status"})
    /\ WriteProduct(q.product, [product[q.product] EXCEPT !.status = q.row.status])
    /\ UNCHANGED <<variant, attrValue, stocked>>

(* No transaction in flight has updated the row: another writer would wait. *)
Unlocked(v) == \A m \in Clerks : v \notin clerk[m].locked

(* remove(), the first statement of its transaction: the variants there    *)
(* are now are marked as deleted, unseen by others until the commit.       *)
RemoveVariants(m) ==
    LET found == LiveVariants(clerk[m].product) IN
    /\ clerk[m].op = "remove"
    /\ \A v \in found : Unlocked(v)
    /\ clerk' = [clerk EXCEPT ![m].op = "delete", ![m].locked = found]
    /\ UNCHANGED <<product, variant, attrValue, stocked, archived, late>>

(* Its second, and the commit. *)
RemoveProduct(m) ==
    LET p == clerk[m].product IN
    /\ Finish(m, {"delete"})
    /\ WriteProduct(p, [product[p] EXCEPT !.life = "deleted", !.status = "ARCHIVED"])
    /\ variant' = [v \in Variants |->
                      IF v \in clerk[m].locked THEN [variant[v] EXCEPT !.life = "deleted"]
                      ELSE variant[v]]
    /\ UNCHANGED <<attrValue, stocked>>

(* create() and generate(): all rows or none, as the unique key of product *)
(* and combination allows, which the deleted variants still occupy.        *)
InsertVariants(m) ==
    LET q == clerk[m] IN
    /\ Finish(m, {"addVariant", "generate"})
    /\ \A x \in q.values : With(q.product, x) = {}
    /\ \E V \in SUBSET {v \in Variants : variant[v].life = "none"} :
          \E x \in [V -> q.values] :
             /\ \A v, w \in V : x[v] = x[w] => v = w
             /\ {x[v] : v \in V} = q.values
             /\ variant' = [v \in Variants |->
                               IF v \in V
                               THEN [life |-> "live", product |-> q.product,
                                     key |-> x[v], value |-> x[v]]
                               ELSE variant[v]]
    /\ UNCHANGED <<product, attrValue, stocked, archived>>

ChangeVariant(m) ==
    LET q == clerk[m] IN
    /\ Finish(m, {"editVariant", "changeVariant"}) /\ Unlocked(q.variant)
    /\ \E x \in q.values :
          /\ With(q.product, x) \subseteq {q.variant}
          /\ variant' = [variant EXCEPT ![q.variant].key = x,
                                       ![q.variant].value = IF q.op = "changeVariant" THEN x ELSE @]
    /\ UNCHANGED <<product, attrValue, stocked, archived>>

RemoveVariant(m) ==
    /\ Finish(m, {"removeVariant"}) /\ Unlocked(clerk[m].variant)
    /\ variant' = [variant EXCEPT ![clerk[m].variant].life = "deleted"]
    /\ UNCHANGED <<product, attrValue, stocked, archived>>

RemoveValue(m) ==
    /\ Finish(m, {"removeValue"})
    /\ attrValue' = [x \in Values |-> IF x \in clerk[m].values THEN "deleted" ELSE attrValue[x]]
    /\ UNCHANGED <<product, variant, stocked, archived>>

(* One item per product and variant, by the advisory lock of initialize(). *)
InitializeItem(m) ==
    LET i == <<clerk[m].product, clerk[m].variant>> IN
    /\ Finish(m, {"initialize"})
    /\ i \notin stocked /\ stocked' = stocked \cup {i}
    /\ UNCHANGED <<product, variant, attrValue, archived>>

(* A call is refused or cut off before its commit, if any. *)
Refuse(m) ==
    /\ clerk[m].op # "idle"
    /\ clerk' = [clerk EXCEPT ![m] = NoClerk]
    /\ UNCHANGED <<product, variant, attrValue, stocked, archived, late>>

(* Bound: nothing is followed up after a late call. *)
CatalogueNext ==
    /\ ~ late
    /\ \/ \E p \in Products : Create(p) \/ Duplicate(p)
       \/ \E m \in Clerks :
             \/ \E p \in Products :
                   \/ BeginUpdateProduct(m, p) \/ BeginStatus(m, p) \/ BeginRemoveProduct(m, p)
                   \/ \E x \in Values : BeginAddVariant(m, p, x)
                   \/ \E v \in Variants : BeginRemoveVariant(m, p, v)
                   \/ \E v \in Variants, x \in Values : BeginChangeVariant(m, p, v, x)
                   \/ \E axis \in SUBSET Values : BeginGenerate(m, p, axis)
                   \/ \E v \in Variants \cup {NoVariant} : BeginInitialize(m, p, v)
             \/ \E x \in Values : BeginRemoveValue(m, x)
             \/ UpdateProduct(m) \/ UpdateStatus(m)
             \/ RemoveVariants(m) \/ RemoveProduct(m)
             \/ InsertVariants(m) \/ ChangeVariant(m) \/ RemoveVariant(m)
             \/ RemoveValue(m) \/ InitializeItem(m)
             \/ Refuse(m)

CatalogueSpec == CatalogueInit /\ [][CatalogueNext]_catalogueVars

------------------------------------------------------------------------------
(* The catalogue stays whole through any sequence of calls, as long as none*)
(* commits after its reasons are gone, as a removal does that has missed a *)
(* variant: what is on stock and what a variant is made of was not deleted *)
(* under it, and its combinationKey names its value; a simple product on   *)
(* sale has the SKU orders name it by, a copy too; and what was archived   *)
(* stays so, "not silently resurrected" (products.service.ts).             *)
CatalogueIsWhole == ~ late =>
    /\ \A i \in stocked : LiveProduct(i[1]) /\ (i[2] # NoVariant => LiveVariant(i[1], i[2]))
    /\ \A v \in Variants : variant[v].life = "live" =>
          /\ LiveProduct(variant[v].product) /\ ValidValue(variant[v].value)
          /\ variant[v].key = variant[v].value
    /\ \A p \in Products :
          product[p].type = "SIMPLE" /\ product[p].status = "ACTIVE" => product[p].sku
    /\ \A p \in archived : product[p].status = "ARCHIVED"
==============================================================================

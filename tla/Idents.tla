------------------------------- MODULE Idents -------------------------------
(***************************************************************************)
(* Equipment idents (src/src/common.rs): four fields packed into one i32,  *)
(* by which items are compared, stored in the database and indexed.  The   *)
(* code's bit operations work on disjoint fields, so | is + and >> and &   *)
(* are \div and %.                                                         *)
(***************************************************************************)
EXTENDS Integers, TLAPS

Classes == {"none", "warrior", "mage", "scout"}

(* Option<Class> as 0, or the class plus 1. *)
ClassCode(c) == CASE c = "none" -> 0 [] c = "warrior" -> 1 [] c = "mage" -> 2
                  [] c = "scout" -> 3
ClassOf(n) == CASE n = 0 -> "none" [] n = 1 -> "warrior" [] n = 2 -> "mage"
                [] n = 3 -> "scout"

(* The units of the fields: bits 16, 24 and 28. *)
ColorUnit == 65536
TypUnit == 256 * ColorUnit
ClassUnit == 16 * TypUnit

(* EquipmentIdent: model_id is a u16, color a u8, typ one of ten slots. *)
Equipment == [model : 0..(ColorUnit - 1), color : 0..255, typ : 1..10, class : Classes]

compress_ident(e) ==
  e.model + e.color * ColorUnit + e.typ * TypUnit + ClassCode(e.class) * ClassUnit

(* It reads 8 of the 16 bits of the model and 4 of the 8 of the color. *)
decompress_ident(i) ==
  [model |-> i % 256, color |-> (i \div ColorUnit) % 16, typ |-> (i \div TypUnit) % 16,
   class |-> ClassOf((i \div ClassUnit) % 16)]

(* What insert_player keeps: models below 100; the game has few colors. *)
Crawled == {e \in Equipment : e.model < 100 /\ e.color < 16}

-----------------------------------------------------------------------------
(* Of a number made of a lower part below the unit and a multiple of the   *)
(* unit, division gives the multiple.                                      *)
LEMMA Upper ==
  ASSUME NEW m \in Nat, NEW r \in Nat, NEW U \in Nat, m < U
  PROVE  (m + U * r) \div U = r
OBVIOUS

(* And the remainder gives the lower part, for the fields of four bits.    *)
LEMMA Lower16 ==
  ASSUME NEW m \in Nat, NEW r \in Nat, m < 16
  PROVE  (m + 16 * r) % 16 = m
OBVIOUS

(* The fields of an item as numbers within their bounds. *)
LEMMA Fields ==
  ASSUME NEW e \in Equipment
  PROVE  /\ e.model \in Nat /\ e.model < ColorUnit /\ e.color \in Nat /\ e.color < 256
         /\ e.typ \in Nat /\ e.typ < 16 /\ ClassCode(e.class) \in 0..3
         /\ ClassOf(ClassCode(e.class)) = e.class
         /\ e = [model |-> e.model, color |-> e.color, typ |-> e.typ, class |-> e.class]
<1>1. /\ e.model \in 0..(ColorUnit - 1) /\ e.color \in 0..255 /\ e.typ \in 1..10
      /\ e.class \in Classes
      /\ e = [model |-> e.model, color |-> e.color, typ |-> e.typ, class |-> e.class]
  BY DEF Equipment
<1>2. ClassCode(e.class) \in 0..3 /\ ClassOf(ClassCode(e.class)) = e.class
  BY <1>1 DEF Classes, ClassCode, ClassOf
<1>3. \A m \in 0..(ColorUnit - 1) : m \in Nat /\ m < ColorUnit
  BY DEF ColorUnit
<1>4. e.model \in Nat /\ e.model < ColorUnit
  BY <1>1, <1>3
<1>5. e.color \in Nat /\ e.color < 256 /\ e.typ \in Nat /\ e.typ < 16
  BY <1>1
<1> QED BY <1>1, <1>2, <1>4, <1>5

(* Packed, the fields stay below the sign bit of an i32.                   *)
LEMMA Bounded ==
  ASSUME NEW m \in Nat, NEW c \in Nat, NEW t \in Nat, NEW k \in Nat,
         m < ColorUnit, c < 256, t < 16, k < 4
  PROVE  m + c * ColorUnit + t * TypUnit + k * ClassUnit < 8 * ClassUnit
BY DEF ColorUnit, TypUnit, ClassUnit

(* Two items never share an ident, so a scrapbook and the index of the     *)
(* caches agree about every item, and every ident fits into the positive   *)
(* half of an i32.                                                         *)
THEOREM IdentsAreDistinct ==
  \A e, f \in Equipment : /\ compress_ident(e) < 8 * ClassUnit
                          /\ compress_ident(e) = compress_ident(f) => e = f
<1> SUFFICES ASSUME NEW e \in Equipment, NEW f \in Equipment
             PROVE  /\ compress_ident(e) < 8 * ClassUnit
                    /\ compress_ident(e) = compress_ident(f) => e = f
    OBVIOUS
<1>1. compress_ident(e) < 8 * ClassUnit
  <2>1. PICK m \in Nat, c \in Nat, t \in Nat, k \in Nat :
          /\ m = e.model /\ c = e.color /\ t = e.typ /\ k = ClassCode(e.class)
          /\ m < ColorUnit /\ c < 256 /\ t < 16 /\ k < 4
    BY Fields
  <2> QED BY <2>1, Bounded DEF compress_ident
<1>2. ASSUME compress_ident(e) = compress_ident(f) PROVE e = f
  <2>1. PICK m \in Nat, c \in Nat, t \in Nat, k \in Nat :
          /\ m = e.model /\ c = e.color /\ t = e.typ /\ k = ClassCode(e.class)
          /\ m < ColorUnit /\ c < 256 /\ t < 16
    BY Fields
  <2>2. PICK n \in Nat, d \in Nat, v \in Nat, l \in Nat :
          /\ n = f.model /\ d = f.color /\ v = f.typ /\ l = ClassCode(f.class)
          /\ n < ColorUnit /\ d < 256 /\ v < 16
    BY Fields
  <2>3. /\ m < ColorUnit /\ c < 256 /\ t < 16 /\ n < ColorUnit /\ d < 256 /\ v < 16
        /\ m + c * ColorUnit + t * TypUnit + k * ClassUnit
             = n + d * ColorUnit + v * TypUnit + l * ClassUnit
    BY <1>2, <2>1, <2>2 DEF compress_ident
  <2>4. m = n
    BY <2>3 DEF ColorUnit, TypUnit, ClassUnit
  <2>5. c = d
    BY <2>3, <2>4 DEF ColorUnit, TypUnit, ClassUnit
  <2>6. t = v /\ k = l
    BY <2>3, <2>4, <2>5 DEF ColorUnit, TypUnit, ClassUnit
  <2>7. e.class = f.class
    BY <2>1, <2>2, <2>6, Fields
  <2> QED BY <2>1, <2>2, <2>4, <2>5, <2>6, <2>7, Fields
<1> QED BY <1>1, <1>2

(* What is read back from the database is the item that was stored, for    *)
(* the items insert_player stores.                                         *)
THEOREM IdentsAreReadBack ==
  \A e \in Crawled : decompress_ident(compress_ident(e)) = e
<1> SUFFICES ASSUME NEW e \in Crawled
             PROVE  decompress_ident(compress_ident(e)) = e
    OBVIOUS
<1>1. e \in Equipment /\ e.model < 100 /\ e.color < 16
  BY DEF Crawled
<1>2. PICK k \in 0..3 : k = ClassCode(e.class)
  BY <1>1, Fields
<1>3. PICK m \in Nat, c \in Nat, t \in Nat :
        m = e.model /\ c = e.color /\ t = e.typ /\ m < 100 /\ c < 16 /\ t < 16
  BY <1>1, Fields
<1>4. PICK i \in Nat : /\ i = compress_ident(e)
                       /\ i = m + c * ColorUnit + t * TypUnit + k * ClassUnit
  BY <1>2, <1>3 DEF compress_ident, ColorUnit, TypUnit, ClassUnit
<1>5. i % 256 = m
  BY <1>3, <1>4 DEF ColorUnit, TypUnit, ClassUnit
<1>6. (i \div ColorUnit) % 16 = c
  <2>1. PICK r \in Nat : r = 16 * (t + 16 * k)
    OBVIOUS
  <2>2. PICK q \in Nat : q = c + 16 * r
    OBVIOUS
  <2>3. i = m + ColorUnit * q
    BY <1>4, <2>1, <2>2 DEF ColorUnit, TypUnit, ClassUnit
  <2>4. i \div ColorUnit = q
    BY <1>3, <2>3, Upper DEF ColorUnit
  <2> QED BY <2>2, <2>4, <1>3, Lower16
<1>7. (i \div TypUnit) % 16 = t
  <2>1. PICK l \in Nat : l = m + c * ColorUnit /\ l < TypUnit
    BY <1>3 DEF ColorUnit, TypUnit
  <2>2. i = l + TypUnit * (t + 16 * k)
    BY <1>4, <2>1 DEF ColorUnit, TypUnit, ClassUnit
  <2>3. i \div TypUnit = t + 16 * k
    BY <2>1, <2>2, Upper DEF ColorUnit, TypUnit
  <2> QED BY <2>3, <1>3, Lower16
<1>8. (i \div ClassUnit) % 16 = k
  <2>1. PICK l \in Nat : l = m + c * ColorUnit + t * TypUnit /\ l < ClassUnit
    BY <1>3 DEF ColorUnit, TypUnit, ClassUnit
  <2>2. i = l + ClassUnit * k
    BY <1>4, <2>1 DEF ColorUnit, TypUnit, ClassUnit
  <2>3. i \div ClassUnit = k
    BY <2>1, <2>2, Upper DEF ColorUnit, TypUnit, ClassUnit
  <2> QED BY <2>3
<1> QED BY <1>1, <1>2, <1>3, <1>4, <1>5, <1>6, <1>7, <1>8, Fields DEF decompress_ident
=============================================================================

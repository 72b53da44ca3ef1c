-------------------------- MODULE Variables_proofs --------------------------
(***************************************************************************)
(* A memory write changes the bytes it has come to and no others, for      *)
(* every size of byte, word and mapping, and the list of locals is what    *)
(* the lookup of a name finds, for all debugging information: proofs about *)
(* Variables.                                                              *)
(***************************************************************************)
EXTENDS Variables, SequenceTheorems, WellFoundedInduction, TLAPS

-----------------------------------------------------------------------------
(* Copying bits                                                            *)

(* Bits of whole bytes.                                                    *)
LEMMA Scaled ==
  /\ \A x \in Int : x * ByteBits \in Int
  /\ \A x \in Nat : x * ByteBits \in Nat
  /\ \A x, y \in Int : (x + y) * ByteBits = x * ByteBits + y * ByteBits
  /\ \A x, y \in Int : x <= y => x * ByteBits <= y * ByteBits
  /\ 0 * ByteBits = 0
<1>1. ByteBits \in Nat /\ ByteBits > 0
  BY ExprAssumption
<1>2. \A x \in Int : x * ByteBits \in Int
  BY <1>1
<1>3. \A x \in Nat : x * ByteBits \in Nat
  BY <1>1
<1>4. \A x, y \in Int : (x + y) * ByteBits = x * ByteBits + y * ByteBits
  BY <1>1
<1>5. \A x, y \in Int : x <= y => x * ByteBits <= y * ByteBits
  BY <1>1
<1>6. 0 * ByteBits = 0
  BY <1>1
<1> QED BY <1>2, <1>3, <1>4, <1>5, <1>6

(* Two copies in a row are one of both lengths.                            *)
LEMMA CopyOn ==
  ASSUME NEW bits, Len(bits) \in Nat, NEW data, NEW d \in Int, NEW m \in Nat, NEW n \in Nat
  PROVE  MemcpyBits(MemcpyBits(bits, d, data, 0, m), d + m, data, m, n) = MemcpyBits(bits, d, data, 0, m + n)
<1> DEFINE first == MemcpyBits(bits, d, data, 0, m)
<1>1. Len(first) = Len(bits)
  BY DEF MemcpyBits
<1>2. \A k \in 1 .. Len(bits) :
        first[k] = IF k \notin d + 1 .. d + m THEN bits[k]
                   ELSE IF k - d + 0 \in DOMAIN data THEN data[k - d + 0] ELSE 0
  BY DEF MemcpyBits
<1> HIDE DEF first
<1>3. MemcpyBits(first, d + m, data, m, n) =
        [k \in 1 .. Len(bits) |->
           IF k \notin d + m + 1 .. d + m + n THEN first[k]
           ELSE IF k - (d + m) + m \in DOMAIN data THEN data[k - (d + m) + m] ELSE 0]
  BY <1>1 DEF MemcpyBits
<1>4. MemcpyBits(bits, d, data, 0, m + n) =
        [k \in 1 .. Len(bits) |->
           IF k \notin d + 1 .. d + (m + n) THEN bits[k]
           ELSE IF k - d + 0 \in DOMAIN data THEN data[k - d + 0] ELSE 0]
  BY DEF MemcpyBits
<1>5. ASSUME NEW k \in 1 .. Len(bits)
      PROVE  (IF k \notin d + m + 1 .. d + m + n THEN first[k]
              ELSE IF k - (d + m) + m \in DOMAIN data THEN data[k - (d + m) + m] ELSE 0)
             = (IF k \notin d + 1 .. d + (m + n) THEN bits[k]
                ELSE IF k - d + 0 \in DOMAIN data THEN data[k - d + 0] ELSE 0)
  <2>1. k - (d + m) + m = k - d + 0
    OBVIOUS
  <2>2. CASE k \in d + m + 1 .. d + m + n
    <3>1. k \in d + 1 .. d + (m + n)
      BY <2>2
    <3> QED BY <2>1, <2>2, <3>1
  <2>3. CASE k \in d + 1 .. d + m
    <3>1. k \in d + 1 .. d + (m + n) /\ k \notin d + m + 1 .. d + m + n
      BY <2>3
    <3> QED BY <1>2, <2>3, <3>1
  <2>4. CASE k \notin d + 1 .. d + (m + n)
    <3>1. k \notin d + 1 .. d + m /\ k \notin d + m + 1 .. d + m + n
      BY <2>4
    <3> QED BY <1>2, <2>4, <3>1
  <2> QED BY <2>2, <2>3, <2>4
<1> QED BY <1>3, <1>4, <1>5 DEF first

(* Reading a word, changing some bytes and writing it back changes these.  *)
LEMMA PokeCopies ==
  ASSUME NEW bits, Len(bits) \in Nat, NEW a \in Nat, NEW data, NEW off \in Nat,
         NEW n \in Nat, n <= WordBytes - (a % WordBytes)
  PROVE  Poke(bits, a, data, off, n) = MemcpyBits(bits, a * ByteBits, data, off * ByteBits, n * ByteBits)
<1> DEFINE r    == a % WordBytes
           word == a - r
           w    == word * ByteBits
           now  == SubSeq(bits, w + 1, w + WordBits)
           at   == (a - word) * ByteBits
           o    == off * ByteBits
           len  == n * ByteBits
           new  == MemcpyBits(now, at, data, o, len)
<1>1. r \in Nat /\ word \in Nat /\ word + r = a /\ a - word = r /\ r + n <= WordBytes /\ WordBytes \in Nat
  BY ExprAssumption
<1>2. /\ w \in Nat /\ at \in Nat /\ o \in Nat /\ len \in Nat /\ WordBits \in Nat
      /\ a * ByteBits = w + at /\ at + len <= WordBits
  <2>1. w \in Nat /\ at \in Nat /\ o \in Nat /\ len \in Nat
    BY <1>1, Scaled
  <2>2. WordBits = WordBytes * ByteBits /\ WordBits \in Nat
    BY ExprAssumption, <1>1, Scaled DEF WordBits
  <2>3. a * ByteBits = w + at
    <3> HIDE DEF r, word
    <3>1. (word + r) * ByteBits = word * ByteBits + r * ByteBits
      BY <1>1, Scaled
    <3>2. a * ByteBits = word * ByteBits + r * ByteBits
      BY <1>1, <3>1
    <3>3. at = r * ByteBits
      BY <1>1
    <3> QED BY <3>2, <3>3
  <2>4. at + len = (r + n) * ByteBits /\ (r + n) * ByteBits <= WordBytes * ByteBits
    <3> HIDE DEF r, word
    <3>1. (r + n) * ByteBits = r * ByteBits + n * ByteBits
      BY <1>1, Scaled
    <3>2. at = r * ByteBits
      BY <1>1
    <3>3. r + n \in Int /\ WordBytes \in Int /\ r + n <= WordBytes
      BY <1>1
    <3>4. (r + n) * ByteBits <= WordBytes * ByteBits
      BY <3>3, Scaled
    <3> QED BY <3>1, <3>2, <3>4
  <2> QED BY <2>1, <2>2, <2>3, <2>4
<1>3. Poke(bits, a, data, off, n) = MemcpyBits(bits, w, new, 0, WordBits)
  BY DEF Poke
<1> HIDE DEF r, word, w, at, o, len
<1>4. Len(now) = WordBits /\ \A k \in 1 .. WordBits : now[k] = bits[w + k]
  <2> DEFINE T == {bits[i] : i \in w + 1 .. w + WordBits}
  <2>1. \A i \in w + 1 .. w + WordBits : bits[i] \in T
    OBVIOUS
  <2>2. w + 1 \in Int /\ w + WordBits \in Int
    BY <1>2
  <2> HIDE DEF T
  <2>3. /\ Len(now) = IF w + 1 <= w + WordBits THEN (w + WordBits) - (w + 1) + 1 ELSE 0
        /\ \A i \in 1 .. (w + WordBits) - (w + 1) + 1 : now[i] = bits[w + 1 + i - 1]
    BY <2>1, <2>2, SubSeqProperties
  <2> HIDE DEF now
  <2> QED BY <1>2, <2>3
<1> HIDE DEF now
<1>5. DOMAIN new = 1 .. WordBits
      /\ \A k \in 1 .. WordBits :
           new[k] = IF k \notin at + 1 .. at + len THEN now[k]
                    ELSE IF k - at + o \in DOMAIN data THEN data[k - at + o] ELSE 0
  BY <1>4 DEF MemcpyBits
<1> HIDE DEF new
<1>6. MemcpyBits(bits, w, new, 0, WordBits) =
        [k \in 1 .. Len(bits) |->
           IF k \notin w + 1 .. w + WordBits THEN bits[k]
           ELSE IF k - w + 0 \in DOMAIN new THEN new[k - w + 0] ELSE 0]
  BY DEF MemcpyBits
<1>7. MemcpyBits(bits, w + at, data, o, len) =
        [k \in 1 .. Len(bits) |->
           IF k \notin w + at + 1 .. w + at + len THEN bits[k]
           ELSE IF k - (w + at) + o \in DOMAIN data THEN data[k - (w + at) + o] ELSE 0]
  BY DEF MemcpyBits
<1>8. ASSUME NEW k \in 1 .. Len(bits)
      PROVE  (IF k \notin w + 1 .. w + WordBits THEN bits[k]
              ELSE IF k - w + 0 \in DOMAIN new THEN new[k - w + 0] ELSE 0)
             = (IF k \notin w + at + 1 .. w + at + len THEN bits[k]
                ELSE IF k - (w + at) + o \in DOMAIN data THEN data[k - (w + at) + o] ELSE 0)
  <2> DEFINE j == k - w + 0
  <2>1. k \in Int /\ j \in Int /\ j = k - w /\ w + j = k /\ j - at + o = k - (w + at) + o
    BY <1>2
  <2>2. k \in w + 1 .. w + WordBits <=> j \in 1 .. WordBits
    BY <1>2, <2>1
  <2>3. k \in w + at + 1 .. w + at + len <=> j \in at + 1 .. at + len
    BY <1>2, <2>1
  <2>4. j \in at + 1 .. at + len => j \in 1 .. WordBits
    BY <1>2, <2>1
  <2> HIDE DEF j
  <2>5. j \in 1 .. WordBits =>
          new[j] = IF j \notin at + 1 .. at + len THEN bits[k]
                   ELSE IF k - (w + at) + o \in DOMAIN data THEN data[k - (w + at) + o] ELSE 0
    BY <1>4, <1>5, <2>1
  <2>6. (IF k \notin w + 1 .. w + WordBits THEN bits[k] ELSE IF j \in DOMAIN new THEN new[j] ELSE 0)
        = (IF k \notin w + at + 1 .. w + at + len THEN bits[k]
           ELSE IF k - (w + at) + o \in DOMAIN data THEN data[k - (w + at) + o] ELSE 0)
    BY <1>5, <2>2, <2>3, <2>4, <2>5
  <2> QED BY <2>6 DEF j
<1>9. MemcpyBits(bits, w, new, 0, WordBits) = MemcpyBits(bits, w + at, data, o, len)
  BY <1>6, <1>7, <1>8
<1>10. Poke(bits, a, data, off, n) = MemcpyBits(bits, w + at, data, o, len)
  BY <1>3, <1>9
<1> QED BY <1>2, <1>10 DEF o, len

-----------------------------------------------------------------------------
(* Writing memory                                                          *)

WriteInv ==
  /\ Len(old) \in Nat /\ Len(wr.data) \in Nat
  /\ wr = [addr |-> wr.addr, data |-> wr.data, off |-> wr.off]
  /\ wr.addr \in Nat /\ wr.off \in Nat
  /\ WritesPrefix

LEMMA WriteInit == Init => WriteInv
<1> SUFFICES ASSUME Init PROVE WriteInv
  OBVIOUS
<1>1. PICK c \in Contexts : wr = c.wr /\ old = c.mem /\ mem = c.mem
  BY DEF Init
<1>2. /\ mem \in Seq({0, 1}) /\ old = mem
      /\ wr \in [addr : Nat, data : Seq({0, 1}), off : {0}]
  BY <1>1, ContextsAssumption
<1>3. wr.off * ByteBits = 0 /\ wr.addr * ByteBits \in Int
  BY <1>2, Scaled
<1>4. MemcpyBits(old, wr.addr * ByteBits, wr.data, 0, 0) = old
  <2>1. old = [k \in 1 .. Len(old) |-> old[k]]
    BY <1>2
  <2>2. \A k \in 1 .. Len(old) : k \notin wr.addr * ByteBits + 1 .. wr.addr * ByteBits + 0
    BY <1>3
  <2> QED BY <2>1, <2>2 DEF MemcpyBits
<1> QED BY <1>2, <1>3, <1>4 DEF WriteInv, WritesPrefix

LEMMA WriteStep ==
  ASSUME WriteInv, [Next]_vars
  PROVE  WriteInv'
<1>1. CASE WriteWord
  <2> DEFINE a == wr.addr + wr.off
             n == Smaller(WordBytes - (a % WordBytes), Remaining)
             d == wr.addr * ByteBits
             m == wr.off * ByteBits
  <2>1. /\ Remaining > 0 /\ mem' = Poke(mem, a, wr.data, wr.off, n)
        /\ wr' = [wr EXCEPT !.off = @ + n] /\ old' = old
    BY <1>1 DEF WriteWord, given
  <2>2. a \in Nat /\ a % WordBytes \in Nat /\ a % WordBytes < WordBytes /\ WordBytes \in Nat
    BY ExprAssumption DEF WriteInv
  <2>3. Remaining \in Int
    BY ExprAssumption DEF WriteInv, Remaining
  <2>4. n \in Nat /\ n <= WordBytes - (a % WordBytes)
    BY <2>1, <2>2, <2>3 DEF Smaller
  <2> HIDE DEF n
  <2>5. Len(mem) \in Nat /\ Len(old) \in Nat
    BY DEF WriteInv, WritesPrefix, MemcpyBits
  <2>6. wr.off \in Nat /\ wr.addr \in Nat
    BY DEF WriteInv
  <2>7. Poke(mem, a, wr.data, wr.off, n) = MemcpyBits(mem, a * ByteBits, wr.data, m, n * ByteBits)
    <3> HIDE DEF a
    <3> QED BY <2>2, <2>4, <2>5, <2>6, PokeCopies
  <2>8. d \in Int /\ m \in Nat /\ n * ByteBits \in Nat /\ a * ByteBits = d + m
        /\ (wr.off + n) * ByteBits = m + n * ByteBits
    <3> DEFINE x == wr.addr
               y == wr.off
    <3>1. x \in Int /\ y \in Int /\ n \in Int /\ n \in Nat /\ x \in Nat /\ y \in Nat
      BY <2>4, <2>6
    <3> HIDE DEF x, y
    <3>2. (x + y) * ByteBits = x * ByteBits + y * ByteBits
      BY <3>1, Scaled
    <3>3. (y + n) * ByteBits = y * ByteBits + n * ByteBits
      BY <3>1, Scaled
    <3>4. n * ByteBits \in Nat /\ x * ByteBits \in Nat /\ y * ByteBits \in Nat
      BY <3>1, Scaled
    <3> QED BY <3>2, <3>3, <3>4 DEF x, y
  <2> HIDE DEF a, d, m
  <2>9. mem' = MemcpyBits(old, d, wr.data, 0, m + n * ByteBits)
    <3> DEFINE len == n * ByteBits
    <3>1. mem' = MemcpyBits(MemcpyBits(old, d, wr.data, 0, m), d + m, wr.data, m, len)
      BY <2>1, <2>7, <2>8 DEF WriteInv, WritesPrefix, d, m
    <3>2. len \in Nat /\ d \in Int /\ m \in Nat
      BY <2>8
    <3> HIDE DEF len
    <3>3. MemcpyBits(MemcpyBits(old, d, wr.data, 0, m), d + m, wr.data, m, len) = MemcpyBits(old, d, wr.data, 0, m + len)
      BY <2>5, <3>2, CopyOn
    <3> QED BY <3>1, <3>3 DEF len
  <2>10. wr' = [addr |-> wr.addr, data |-> wr.data, off |-> wr.off + n]
    BY <2>1 DEF WriteInv
  <2>11. wr'.addr = wr.addr /\ wr'.data = wr.data /\ wr'.off = wr.off + n
    BY <2>10
  <2>12. WritesPrefix'
    BY <2>1, <2>8, <2>9, <2>11 DEF WritesPrefix, d
  <2>13. wr.off + n \in Nat
    BY <2>4, <2>6
  <2> QED BY <2>1, <2>6, <2>10, <2>11, <2>12, <2>13 DEF WriteInv
<1>2. ASSUME UNCHANGED <<mem, old, wr>> PROVE WriteInv'
  BY <1>2 DEF WriteInv, WritesPrefix
<1>3. CASE EvalStep /\ UNCHANGED query
  <2>1. UNCHANGED mem
    BY <1>3 DEF EvalStep, EvalError, DerefPanic, GiveUp, Proceed, PushConst, PushRegister, NameRegister, Shuffle,
                Deref, Arithmetic, UnaryOp, Jump, ImplicitValue, StackValue, AddPiece, machine
  <2> QED BY <1>2, <1>3, <2>1 DEF query, given
<1>4. CASE WriteEnds \/ FindVariable \/ CallFrameBase \/ FrameBaseReturns \/ EvalReturns \/ ReadVariable
  BY <1>2, <1>4 DEF WriteEnds, FindVariable, CallFrameBase, FrameBaseReturns, EvalReturns, ReadVariable,
                    machine, query, given
<1>5. CASE ReadMember \/ DerefPointer \/ IndexPointer \/ IndexArray \/ WalkError \/ WalkPanic \/ Show
  BY <1>2, <1>5 DEF ReadMember, DerefPointer, IndexPointer, IndexArray, WalkTo, WalkError, WalkPanic, Show,
                    machine, query, given
<1>6. CASE UNCHANGED vars
  BY <1>2, <1>6 DEF vars, machine, query, given
<1> QED BY <1>1, <1>3, <1>4, <1>5, <1>6 DEF Next, Debugger

(* WriteMemory, word by word with its partial words, changes the bytes it  *)
(* has come to and no others, whatever the sizes of words and mapping.     *)
THEOREM WritesAPrefix == Spec => []WritesPrefix
<1>1. WriteInv => WritesPrefix
  BY DEF WriteInv
<1>2. WriteInv /\ [Next]_vars => WriteInv'
  BY WriteStep
<1> QED BY <1>1, <1>2, WriteInit, PTL DEF Spec


-----------------------------------------------------------------------------
(* Names                                                                   *)

(* A set of numbers has a least one, and a set of numbers up to n has a    *)
(* greatest one.                                                           *)
LEMMA MinIsLeast ==
  ASSUME NEW S, S \subseteq Nat, S # {}
  PROVE  Min(S) \in S /\ \A y \in S : Min(S) <= y
<1> DEFINE R == OpToRel(<, Nat)
<1>1. IsWellFoundedOn(R, Nat)
  BY NatLessThanWellFounded
<1>2. \A x, y \in Nat : y < x => <<y, x>> \in R
  BY DEF OpToRel
<1> HIDE DEF R
<1>3. PICK x \in S : \A y \in S : ~(<<y, x>> \in R)
  BY <1>1, WFMin
<1>4. \A y \in S : x <= y
  <2> TAKE y \in S
  <2>1. x \in Nat /\ y \in Nat
    OBVIOUS
  <2>2. ~(y < x)
    BY <1>2, <1>3, <2>1, Zenon
  <2> QED BY <2>1, <2>2
<1> QED BY <1>3, <1>4, Zenon DEF Min

LEMMA MaxIsGreatest ==
  ASSUME NEW n \in Nat, NEW S, S \subseteq 1 .. n, S # {}
  PROVE  Max(S) \in S /\ \A y \in S : y <= Max(S)
<1> DEFINE T == {n - x : x \in S}
<1>1. T \subseteq Nat /\ T # {}
  OBVIOUS
<1>2. \A x \in S : n - x \in T
  OBVIOUS
<1>3. \A t \in T : \E x \in S : t = n - x
  OBVIOUS
<1> HIDE DEF T
<1>4. Min(T) \in T /\ \A y \in T : Min(T) <= y
  BY <1>1, MinIsLeast
<1>5. PICK x \in S : Min(T) = n - x
  BY <1>3, <1>4
<1>6. \A y \in S : x >= y
  <2> TAKE y \in S
  <2>1. n - x <= n - y
    BY <1>2, <1>4, <1>5
  <2>2. x \in Int /\ y \in Int
    OBVIOUS
  <2> QED BY <2>1, <2>2
<1>7. Max(S) \in S /\ \A y \in S : Max(S) >= y
  BY <1>5, <1>6, Zenon DEF Max
<1>8. \A y \in S : y \in Int
  OBVIOUS
<1> QED BY <1>7, <1>8

(* The list of locals is what the lookup finds for any name.               *)
LEMMA ListedIsFound ==
  ASSUME info = Debug, NEW a
  PROVE  LocalVariablesAt(a) = {FindLocalVariable(name, a) : name \in {Dies[d].name : d \in Die}} \ {None}
<1> DEFINE Scopes(name) == {s \in ScopesAt(a) : Named(Locals(s), name) # {}}
<1>1. PICK n \in Nat : Die = 1 .. n
  BY DiesAssumption DEF Die, Dies
<1>2. None \notin Nat
  BY DiesAssumption
<1>3. ScopesAt(a) \subseteq 1 .. n
  BY <1>1 DEF ScopesAt, FunctionAt
<1>4. ASSUME NEW s, NEW name PROVE Named(Locals(s), name) \subseteq 1 .. n
  BY <1>1 DEF Named, Locals
<1>5. ASSUME NEW name, Scopes(name) # {}
      PROVE  /\ Max(Scopes(name)) \in Scopes(name)
             /\ \A s \in Scopes(name) : s <= Max(Scopes(name))
  <2> DEFINE T == Scopes(name)
  <2>1. T \subseteq 1 .. n /\ T # {}
    BY <1>3, <1>5
  <2> HIDE DEF T
  <2>2. Max(T) \in T /\ \A s \in T : s <= Max(T)
    BY <2>1, MaxIsGreatest
  <2> QED BY <2>2 DEF T
<1>6. ASSUME NEW s, NEW name, Named(Locals(s), name) # {}
      PROVE  /\ Min(Named(Locals(s), name)) \in Named(Locals(s), name)
             /\ \A e \in Named(Locals(s), name) : Min(Named(Locals(s), name)) <= e
  <2> DEFINE T == Named(Locals(s), name)
  <2>1. T \subseteq Nat /\ T # {}
    BY <1>4, <1>6
  <2> HIDE DEF T
  <2>2. Min(T) \in T /\ \A e \in T : Min(T) <= e
    BY <2>1, MinIsLeast
  <2> QED BY <2>2 DEF T
<1>7. \A name : FindLocalVariable(name, a) =
                  IF Scopes(name) = {} THEN None ELSE Min(Named(Locals(Max(Scopes(name))), name))
  BY DEF FindLocalVariable
<1>8. ASSUME NEW d \in LocalVariablesAt(a)
      PROVE  d \in {FindLocalVariable(name, a) : name \in {Dies[e].name : e \in Die}} \ {None}
  <2> DEFINE name == Dies[d].name
  <2>1. PICK s \in ScopesAt(a) :
               /\ d \in Locals(s)
               /\ \A t \in ScopesAt(a) : \A e \in Named(Locals(t), name) : t < s \/ (t = s /\ d <= e)
    BY <1>8 DEF LocalVariablesAt
  <2>2. d \in Die /\ d \in Named(Locals(s), name)
    BY <2>1 DEF Named, Locals
  <2>3. name \in {Dies[e].name : e \in Die}
    BY <2>2
  <2> HIDE DEF name
  <2>4. s \in Scopes(name)
    BY <2>1, <2>2
  <2> DEFINE m == Max(Scopes(name))
  <2>5. m \in Scopes(name) /\ s <= m
    BY <1>5, <2>4
  <2>6. m \in ScopesAt(a) /\ Named(Locals(m), name) # {}
    BY <2>5
  <2> HIDE DEF m
  <2>7. m < s \/ m = s
    BY <2>1, <2>6
  <2>8. m = s
    BY <1>3, <2>1, <2>5, <2>6, <2>7
  <2> DEFINE f == Min(Named(Locals(s), name))
  <2>9. f \in Named(Locals(s), name) /\ f <= d
    BY <1>6, <2>2
  <2> HIDE DEF f
  <2>10. d <= f
    BY <2>1, <2>9, <1>3
  <2>11. d \in Nat /\ f \in Nat
    BY <1>4, <2>2, <2>9
  <2>12. d = f
    BY <2>9, <2>10, <2>11
  <2>13. FindLocalVariable(name, a) = d
    BY <1>7, <2>4, <2>8, <2>12 DEF m, f
  <2> QED BY <1>2, <2>3, <2>11, <2>13
<1>9. ASSUME NEW name, FindLocalVariable(name, a) # None
      PROVE  FindLocalVariable(name, a) \in LocalVariablesAt(a)
  <2> DEFINE m == Max(Scopes(name))
             d == Min(Named(Locals(m), name))
  <2>1. Scopes(name) # {} /\ FindLocalVariable(name, a) = d
    BY <1>7, <1>9
  <2>2. m \in Scopes(name) /\ \A s \in Scopes(name) : s <= m
    BY <1>5, <2>1
  <2>3. m \in ScopesAt(a) /\ Named(Locals(m), name) # {}
    BY <2>2
  <2>4. \A t \in ScopesAt(a) : \A e \in Named(Locals(t), name) : t <= m
    BY <2>2
  <2> HIDE DEF m
  <2>5. d \in Named(Locals(m), name) /\ \A e \in Named(Locals(m), name) : d <= e
    BY <1>6, <2>3
  <2> HIDE DEF d
  <2>6. d \in Locals(m) /\ Dies[d].name = name
    BY <2>5 DEF Named
  <2>7. \A t \in ScopesAt(a) : \A e \in Named(Locals(t), Dies[d].name) : t < m \/ (t = m /\ d <= e)
    <3> TAKE t \in ScopesAt(a)
    <3> TAKE e \in Named(Locals(t), Dies[d].name)
    <3>1. t <= m /\ t \in Int /\ m \in Int
      BY <1>3, <2>3, <2>4, <2>6
    <3>2. t = m => d <= e
      BY <2>5, <2>6
    <3> QED BY <3>1, <3>2
  <2>8. d \in {c \in Locals(m) : \A t \in ScopesAt(a) : \A e \in Named(Locals(t), Dies[c].name) :
                                   t < m \/ (t = m /\ c <= e)}
    BY <2>6, <2>7
  <2> QED BY <2>1, <2>3, <2>8 DEF LocalVariablesAt
<1> QED BY <1>8, <1>9

Loaded == info = Debug

(* variable locals and variable read agree on what a name means: the list  *)
(* (LocalVariablesAtAddress) holds exactly the variables that the lookup   *)
(* (FindLocalVariable) finds, at every program counter and for all         *)
(* debugging information.                                                  *)
THEOREM LocalsFound == Spec => []LocalsAreThoseFound
<1>1. Init => Loaded
  BY DEF Init, Loaded
<1>2. Loaded /\ [Next]_vars => Loaded'
  <2> SUFFICES ASSUME Loaded, [Next]_vars PROVE info' = info
    BY DEF Loaded
  <2>1. CASE WriteWord \/ WriteEnds \/ FindVariable \/ CallFrameBase \/ FrameBaseReturns \/ EvalReturns \/ ReadVariable
    BY <2>1 DEF WriteWord, WriteEnds, FindVariable, CallFrameBase, FrameBaseReturns, EvalReturns, ReadVariable,
                query, given
  <2>2. CASE EvalStep /\ UNCHANGED query
    BY <2>2 DEF query, given
  <2>3. CASE ReadMember \/ DerefPointer \/ IndexPointer \/ IndexArray \/ WalkError \/ WalkPanic \/ Show
    BY <2>3 DEF ReadMember, DerefPointer, IndexPointer, IndexArray, WalkTo, WalkError, WalkPanic, Show,
                query, given
  <2>4. CASE UNCHANGED vars
    BY <2>4 DEF vars, query, given
  <2> QED BY <2>1, <2>2, <2>3, <2>4 DEF Next, Debugger
<1>3. Loaded => LocalsAreThoseFound
  BY ListedIsFound DEF LocalsAreThoseFound, Loaded
<1> QED BY <1>1, <1>2, <1>3, PTL DEF Spec

=============================================================================

--------------------------- MODULE PipelineProofs ---------------------------
(***************************************************************************)
(* Theorems about the hashes of one miner thread, for every size of chunk, *)
(* number of turns, slack, buffer and tail that the assumption allows, and *)
(* for any number of hashes.                                               *)
(***************************************************************************)
EXTENDS Pipeline, TLAPS

-----------------------------------------------------------------------------
(* Vectors *)

Vec(T) == [items : Seq(T), cap : Nat, large : BOOLEAN]

\* Extending a vector within its capacity appends and moves nothing.
LEMMA ExtendFits ==
    ASSUME NEW T, NEW v \in Vec(T), NEW src \in Seq(T), Len(v.items) + Len(src) <= v.cap
    PROVE  /\ ExtendFromSlice(v, src) \in Vec(T)
           /\ ExtendFromSlice(v, src).items = v.items \o src
           /\ ExtendFromSlice(v, src).cap = v.cap
           /\ ExtendFromSlice(v, src).large = v.large
    <1>1. v.items \in Seq(T) /\ v.cap \in Nat /\ Len(v.items) \in Nat /\ Len(src) \in Nat
        BY DEF Vec
    <1>2. WithRoom(v, Len(v.items) + Len(src)) = v
        BY <1>1 DEF WithRoom
    <1>3. ExtendFromSlice(v, src) = [v EXCEPT !.items = v.items \o src]
        BY <1>2 DEF ExtendFromSlice
    <1>4. v.items \o src \in Seq(T)
        BY <1>1
    <1> HIDE DEF ExtendFromSlice
    <1>. QED  BY <1>3, <1>4 DEF Vec

\* Resizing within the capacity keeps what is there and fills the rest.
LEMMA ResizeFits ==
    ASSUME NEW T, NEW v \in Vec(T), NEW n \in Nat, NEW value \in T, n <= v.cap
    PROVE  /\ Resize(v, n, value) \in Vec(T)
           /\ Len(Resize(v, n, value).items) = n
           /\ Resize(v, n, value).cap = v.cap
           /\ Resize(v, n, value).large = v.large
    <1> DEFINE s == [i \in 1 .. n |-> IF i <= Len(v.items) THEN v.items[i] ELSE value]
    <1>1. v.items \in Seq(T) /\ v.cap \in Nat /\ Len(v.items) \in Nat
        BY DEF Vec
    <1>2. WithRoom(v, n) = v
        BY <1>1 DEF WithRoom
    <1>3. Resize(v, n, value) = [v EXCEPT !.items = s]
        BY <1>2 DEF Resize
    <1>4. s \in Seq(T) /\ Len(s) = n
        BY <1>1
    <1> HIDE DEF s
    <1>. QED  BY <1>3, <1>4 DEF Vec

\* Overwriting a slice that is there changes that slice and nothing else.
LEMMA OverwriteFits ==
    ASSUME NEW T, NEW v \in Vec(T), NEW at \in Nat, NEW w \in Seq(T),
           at + Len(w) <= Len(v.items)
    PROVE  /\ Overwrite(v, at, w) \in Vec(T)
           /\ Len(Overwrite(v, at, w).items) = Len(v.items)
           /\ Overwrite(v, at, w).cap = v.cap
           /\ Overwrite(v, at, w).large = v.large
           /\ \A k \in 1 .. Len(w) : Overwrite(v, at, w).items[at + k] = w[k]
    <1> DEFINE s == [i \in 1 .. Len(v.items) |->
                        IF i - at \in DOMAIN w THEN w[i - at] ELSE v.items[i]]
    <1>1. v.items \in Seq(T) /\ Len(v.items) \in Nat /\ Len(w) \in Nat /\ DOMAIN w = 1 .. Len(w)
        BY DEF Vec
    <1>2. Overwrite(v, at, w) = [v EXCEPT !.items = s]
        BY DEF Overwrite
    <1>3. s \in Seq(T) /\ Len(s) = Len(v.items)
        <2>1. \A i \in 1 .. Len(v.items) : s[i] \in T
            BY <1>1
        <2>. QED  BY <1>1, <2>1
    <1>4. \A k \in 1 .. Len(w) : s[at + k] = w[k]
        <2> SUFFICES ASSUME NEW k \in 1 .. Len(w)  PROVE s[at + k] = w[k]
            OBVIOUS
        <2>1. at + k \in 1 .. Len(v.items) /\ (at + k) - at = k
            BY <1>1
        <2>. QED  BY <1>1, <2>1
    <1> HIDE DEF s
    <1>. QED  BY <1>2, <1>3, <1>4 DEF Vec

-----------------------------------------------------------------------------
(* Sizes *)

\* The sizes the assumption relates are natural numbers.
LEMMA Sizes ==
    /\ Chunk \in Nat \ {0} /\ MarkerSpace \in Nat \ {0} /\ MarkerRadix \in Nat \ {0}
    /\ MinTries \in Nat /\ ExtraTries \in Nat /\ Slack \in Nat /\ TailZeros \in Nat
    /\ Capacity \in Nat /\ SaTail \in Nat /\ MaxCalls \in Nat /\ MaxTries \in Nat \ {0}
    /\ MaxTries = MinTries + ExtraTries + 1 /\ MinTries >= Slack /\ TailZeros >= 3
    /\ MaxTries * Chunk \in Nat
    /\ MaxTries * Chunk + TailZeros <= Capacity
    /\ MaxTries * Chunk + SaTail <= Capacity
    <1>1. /\ Chunk \in Nat \ {0} /\ MarkerSpace \in Nat \ {0} /\ MarkerRadix \in Nat \ {0}
          /\ MinTries \in Nat /\ ExtraTries \in Nat /\ Slack \in Nat /\ TailZeros \in Nat
          /\ Capacity \in Nat /\ SaTail \in Nat /\ MaxCalls \in Nat
        BY PipelineAssumption
    <1>2. MaxTries = MinTries + ExtraTries + 1 /\ MaxTries \in Nat \ {0}
        BY <1>1 DEF MaxTries
    <1>3. MaxTries * Chunk \in Nat
        BY <1>1, <1>2
    <1>. QED  BY <1>1, <1>2, <1>3, PipelineAssumption

\* A number of turns takes no more bytes than more turns do.
LEMMA ChunksMonotone ==
    ASSUME NEW s \in Nat, NEW t \in Nat, s <= t
    PROVE  s * Chunk \in Nat /\ t * Chunk \in Nat /\ s * Chunk <= t * Chunk
    <1>1. PICK d \in Nat : t = s + d
        <2>1. t - s \in Nat /\ t = s + (t - s)
            OBVIOUS
        <2>. QED  BY <2>1
    <1>2. t * Chunk = s * Chunk + d * Chunk /\ s * Chunk \in Nat /\ d * Chunk \in Nat
        BY <1>1, Sizes
    <1>. QED  BY <1>2

\* A turn more is a chunk more.
LEMMA ChunkMore ==
    ASSUME NEW t \in Nat
    PROVE  (t + 1) * Chunk = t * Chunk + Chunk /\ t * Chunk \in Nat
    BY Sizes

\* The text is not empty and ends before the last byte the loop wrote.
LEMMA LengthBounds ==
    ASSUME tries \in Nat, tries > MinTries, tries <= MaxTries, NEW r \in 0 .. Slack * Chunk - 1
    PROVE  /\ DataLength(r) \in Nat \ {0}
           /\ DataLength(r) + 1 <= tries * Chunk
           /\ tries * Chunk \in Nat /\ tries * Chunk <= MaxTries * Chunk
    <1>1. Slack \in Nat /\ tries - Slack \in Nat \ {0} /\ Chunk \in Nat \ {0} /\ Slack * Chunk \in Nat
        BY Sizes
    <1>2. (tries - Slack) * Chunk + Slack * Chunk = tries * Chunk
        BY <1>1
    <1>3. (tries - Slack) * Chunk \in Nat \ {0}
        <2>1. PICK d \in Nat : tries - Slack = d + 1
            <3>1. tries - Slack - 1 \in Nat /\ tries - Slack = (tries - Slack - 1) + 1
                BY <1>1
            <3>. QED  BY <3>1
        <2>. QED  BY <1>1, <2>1, ChunkMore
    <1>4. tries * Chunk \in Nat /\ tries * Chunk <= MaxTries * Chunk
        BY ChunksMonotone, Sizes
    <1>. QED  BY <1>1, <1>2, <1>3, <1>4 DEF DataLength

-----------------------------------------------------------------------------
(* The inductive invariant *)

\* Where a call is and which scratch it fills.
ControlInv ==
    /\ little \in BOOLEAN /\ streaming \in BOOLEAN /\ (streaming => little)
    /\ pc \in {"idle", "loop", "finish", "sort"}
    /\ mode \in Modes \cup {"none"}
    /\ calls \in 0 .. MaxCalls
    /\ lane \in Scratches
    /\ tries \in 0 .. MaxTries
    /\ pc # "idle" => mode \in Modes /\ (lane = 0 <=> mode = "full") /\ (lane = 2 => mode = "x2")
    /\ pc = "sort" /\ mode = "x2" => lane = 2
    /\ pc = "loop" => tries < MaxTries
    /\ pc = "finish" => tries > MinTries

\* The markers of the scratch that is filled: idx of them are settled, and one
\* more may have been written that the next one replaces.
MarkerInv ==
    /\ idx \in Nat /\ (idx = 0 \/ idx < tries)
    /\ first \in Nat /\ (first = 0 \/ first < tries)
    /\ count \in Nat \ {0} /\ count <= tries + 1
    /\ markers \in [Scratches -> Seq(0 .. MarkerSpace - 1)]
    /\ \A l \in Scratches : Len(markers[l]) <= MaxTries
    /\ pc \in {"loop", "finish"} => idx <= Len(markers[lane]) /\ Len(markers[lane]) <= idx + 1

\* No buffer outgrows what the longest hash needs.
BufferInv ==
    /\ data \in [Scratches -> Vec({0, Real})]
    /\ sa \in [Scratches -> Vec(Nat \X Nat)]
    /\ \A l \in Scratches :
          /\ data[l].cap = Capacity /\ data[l].large
          /\ Len(data[l].items) <= MaxTries * Chunk + TailZeros
          /\ sa[l].cap = Capacity /\ sa[l].large
          /\ Len(sa[l].items) <= MaxTries * Chunk + SaTail

\* The scratches whose text is complete: in the two-way hash the first one
\* waits while the second is filled.
Ready ==
    IF pc \in {"loop", "finish"} /\ lane = 2 THEN {1} ELSE Prepared

\* A complete text lies within its buffer with its zero tail behind it.
TextReady(l) ==
    /\ dataLen[l] \in Nat \ {0}
    /\ dataLen[l] + 1 <= MaxTries * Chunk
    /\ dataLen[l] + 1 <= Len(data[l].items)
    /\ l # 0 => /\ dataLen[l] + TailZeros <= Len(data[l].items)
                /\ \A k \in 1 .. TailZeros : data[l].items[dataLen[l] + k] = 0

TextInv ==
    /\ DOMAIN dataLen = Scratches
    /\ pc \in {"loop", "finish"} => Len(data[lane].items) = tries * Chunk
    /\ \A l \in Ready : TextReady(l)

PipelineInv ==
    /\ ControlInv /\ MarkerInv /\ BufferInv /\ TextInv
    /\ DOMAIN out = Scratches /\ OutputCanonical

\* An empty vector of the buffers' capacity.
LEMMA FreshVec ==
    ASSUME NEW T
    PROVE  /\ WithCapacity(Capacity, TRUE) \in Vec(T)
           /\ WithCapacity(Capacity, TRUE).cap = Capacity
           /\ WithCapacity(Capacity, TRUE).large
           /\ Len(WithCapacity(Capacity, TRUE).items) = 0
    BY Sizes DEF WithCapacity, Vec

\* Clearing keeps the block.
LEMMA ClearFits ==
    ASSUME NEW T, NEW v \in Vec(T)
    PROVE  /\ Clear(v) \in Vec(T) /\ Len(Clear(v).items) = 0
           /\ Clear(v).cap = v.cap /\ Clear(v).large = v.large
    <1>1. <<>> \in Seq(T) /\ Len(<<>>) = 0
        OBVIOUS
    <1>2. Clear(v) = [v EXCEPT !.items = <<>>]
        BY DEF Clear
    <1>. QED  BY <1>1, <1>2 DEF Vec

\* The invariant holds before the first hash.
LEMMA PipelineInitInv ==
    ASSUME PipelineInit
    PROVE  PipelineInv
    <1> USE Sizes DEF PipelineInit
    <1>1. ControlInv
        BY DEF ControlInv, Scratches, Modes
    <1>2. MarkerInv
        BY DEF MarkerInv
    <1>3. BufferInv
        <2>1. data \in [Scratches -> Vec({0, Real})] /\ sa \in [Scratches -> Vec(Nat \X Nat)]
            BY FreshVec
        <2>2. \A l \in Scratches : data[l] = WithCapacity(Capacity, TRUE)
                                   /\ sa[l] = WithCapacity(Capacity, TRUE)
            OBVIOUS
        <2>3. \A l \in Scratches :
                  /\ data[l].cap = Capacity /\ data[l].large /\ Len(data[l].items) = 0
                  /\ sa[l].cap = Capacity /\ sa[l].large /\ Len(sa[l].items) = 0
            BY <2>2, FreshVec, Zenon
        <2>4. 0 <= MaxTries * Chunk + TailZeros /\ 0 <= MaxTries * Chunk + SaTail
            BY Sizes
        <2>. QED  BY <2>1, <2>3, <2>4, Zenon DEF BufferInv
    <1>4. TextInv
        BY DEF TextInv, Ready, Prepared
    <1>5. OutputCanonical
        BY DEF OutputCanonical
    <1>. QED  BY <1>1, <1>2, <1>3, <1>4, <1>5 DEF PipelineInv

\* A vector of the right block and size may replace a scratch's data.
LEMMA DataStored ==
    ASSUME BufferInv, NEW l \in Scratches, NEW v \in Vec({0, Real}), v.cap = Capacity, v.large,
           Len(v.items) <= MaxTries * Chunk + TailZeros,
           data' = [data EXCEPT ![l] = v], UNCHANGED sa
    PROVE  BufferInv' /\ data'[l] = v /\ \A k \in Scratches : k # l => data'[k] = data[k]
    <1>1. data' \in [Scratches -> Vec({0, Real})]
        BY DEF BufferInv
    <1>2. data'[l] = v /\ \A k \in Scratches : k # l => data'[k] = data[k]
        BY DEF BufferInv
    <1>. QED  BY <1>1, <1>2 DEF BufferInv

\* The call of any of the four functions starts with an empty text.
LEMMA BeginInv ==
    ASSUME PipelineInv, NEW m \in Modes, Begin(m)
    PROVE  PipelineInv'
    <1> DEFINE l == IF m = "full" THEN 0 ELSE 1
    <1> USE Sizes DEF PipelineInv
    <1>1. /\ pc' = "loop" /\ mode' = m /\ calls' = calls + 1 /\ calls < MaxCalls
          /\ lane' = l /\ tries' = 0 /\ idx' = 0 /\ first' = 0 /\ count' = 1
          /\ data' = [data EXCEPT ![l] = Clear(@)]
          /\ markers' = [markers EXCEPT ![l] = <<>>]
          /\ dataLen' = [k \in Scratches |-> 0]
          /\ out' = [k \in Scratches |-> <<>>]
          /\ UNCHANGED <<little, streaming, sa>>
        BY DEF Begin, Start, Cleared, buildVars
    <1>2. l \in Scratches /\ l # 2 /\ (l = 0 <=> m = "full")
        BY DEF Scratches
    <1> HIDE DEF l
    <1>3. ControlInv'
        BY <1>1, <1>2 DEF ControlInv
    <1>4. MarkerInv'
        BY <1>1, <1>2 DEF MarkerInv
    <1>5. BufferInv' /\ Len(data'[l].items) = 0
        <2>1. data[l] \in Vec({0, Real}) /\ data[l].cap = Capacity /\ data[l].large
            BY <1>2 DEF BufferInv
        <2>2. /\ Clear(data[l]) \in Vec({0, Real}) /\ Len(Clear(data[l]).items) = 0
              /\ Clear(data[l]).cap = Capacity /\ Clear(data[l]).large
            BY <2>1, ClearFits
        <2>3. data' = [data EXCEPT ![l] = Clear(data[l])]
            BY <1>1
        <2>4. Len(Clear(data[l]).items) <= MaxTries * Chunk + TailZeros
            BY <2>2
        <2>5. BufferInv /\ UNCHANGED sa
            BY <1>1
        <2> DEFINE fresh == Clear(data[l])
        <2>6. /\ fresh \in Vec({0, Real}) /\ fresh.cap = Capacity /\ fresh.large
              /\ Len(fresh.items) <= MaxTries * Chunk + TailZeros
              /\ data' = [data EXCEPT ![l] = fresh] /\ Len(fresh.items) = 0
            BY <2>2, <2>3, <2>4, Zenon
        <2> HIDE DEF fresh
        <2>7. BufferInv' /\ data'[l] = fresh
            BY <1>2, <2>5, <2>6, DataStored, Zenon
        <2>. QED  BY <2>6, <2>7, Zenon
    <1>6. TextInv'
        BY <1>1, <1>2, <1>5 DEF TextInv, Ready, Prepared
    <1>7. DOMAIN out' = Scratches /\ OutputCanonical'
        BY <1>1 DEF OutputCanonical
    <1>. QED  BY <1>3, <1>4, <1>5, <1>6, <1>7

\* A marker is a u16.
LEMMA MarkerTyped ==
    ASSUME NEW a \in 0 .. MaxTries + 1, NEW b \in 0 .. MaxTries + 1
    PROVE  Marker(a, b) \in 0 .. MarkerSpace - 1
    <1>1. b \div MarkerRadix \in 0 .. MaxTries + 1 /\ b % MarkerRadix \in Nat
        <2>1. b \div MarkerRadix \in Nat /\ b % MarkerRadix \in Nat
            BY Sizes
        <2>2. b = MarkerRadix * (b \div MarkerRadix) + (b % MarkerRadix)
            BY Sizes
        <2>3. MarkerRadix * (b \div MarkerRadix) >= b \div MarkerRadix
            BY <2>1, Sizes
        <2>. QED  BY <2>1, <2>2, <2>3, Sizes
    <1>2. BitOr(a, b \div MarkerRadix) \in Nat
        BY <1>1, PipelineAssumption
    <1>3. MarkerRadix * BitOr(a, b \div MarkerRadix) + (b % MarkerRadix) \in Nat
        BY <1>1, <1>2, Sizes
    <1>. QED  BY <1>3, Sizes DEF Marker

\* write_v114_marker makes the sequence at least one longer than the index.
LEMMA WriteTyped ==
    ASSUME NEW T, NEW seq \in Seq(T), NEW at \in Nat, at <= Len(seq), Len(seq) <= at + 1, NEW x \in T
    PROVE  WriteMarker(seq, at, x) \in Seq(T) /\ Len(WriteMarker(seq, at, x)) = at + 1
    <1>1. CASE at = Len(seq)
        BY <1>1 DEF WriteMarker
    <1>2. CASE at # Len(seq)
        <2>1. Len(seq) = at + 1 /\ WriteMarker(seq, at, x) = [seq EXCEPT ![at + 1] = x]
            BY <1>2 DEF WriteMarker
        <2>. QED  BY <2>1
    <1>. QED  BY <1>1, <1>2

\* A turn of the op loop adds a chunk and at most one marker.
LEMMA TryInv ==
    ASSUME PipelineInv, NEW rekey \in BOOLEAN, NEW high \in BOOLEAN, Try(rekey, high)
    PROVE  PipelineInv'
    <1> USE Sizes DEF PipelineInv
    <1>1. /\ pc = "loop" /\ tries' = tries + 1
          /\ data' = [data EXCEPT ![lane] = ExtendFromSlice(data[lane], Written)]
          /\ UNCHANGED <<little, streaming, mode, calls, lane, sa, dataLen, out>>
        BY DEF Try, buildVars
    <1>2. /\ lane \in Scratches /\ tries \in Nat /\ tries < MaxTries
          /\ data[lane] \in Vec({0, Real}) /\ data[lane].cap = Capacity /\ data[lane].large
          /\ Len(data[lane].items) = tries * Chunk
        <2>1. lane \in Scratches /\ tries \in Nat /\ tries < MaxTries
            BY <1>1 DEF ControlInv
        <2>2. data[lane] \in Vec({0, Real}) /\ data[lane].cap = Capacity /\ data[lane].large
            BY <2>1 DEF BufferInv
        <2>3. Len(data[lane].items) = tries * Chunk
            BY <1>1 DEF TextInv
        <2>. QED  BY <2>1, <2>2, <2>3
    <1>3. pc' \in {"loop", "finish"} /\ (pc' = "loop" => tries' < MaxTries)
                                     /\ (pc' = "finish" => tries' > MinTries)
        <2>1. pc' = IF tries + 1 > MinTries + ExtraTries \/ (high /\ tries + 1 > MinTries)
                    THEN "finish" ELSE "loop"
            BY DEF Try
        <2>2. CASE tries + 1 > MinTries + ExtraTries
            BY <1>1, <1>2, <2>1, <2>2
        <2>3. CASE ~(tries + 1 > MinTries + ExtraTries) /\ high /\ tries + 1 > MinTries
            BY <1>1, <1>2, <2>1, <2>3
        <2>4. CASE ~(tries + 1 > MinTries + ExtraTries) /\ ~(high /\ tries + 1 > MinTries)
            BY <1>1, <1>2, <2>1, <2>4
        <2>. QED  BY <2>2, <2>3, <2>4
    <1>4. ControlInv'
        BY <1>1, <1>2, <1>3 DEF ControlInv
    <1>5. BufferInv' /\ Len(data'[lane].items) = tries' * Chunk
          /\ \A k \in Scratches : k # lane => data'[k] = data[k]
        <2> DEFINE v == ExtendFromSlice(data[lane], Written)
        <2>1. Written \in Seq({0, Real}) /\ Len(Written) = Chunk
            BY DEF Written
        <2>2. /\ tries * Chunk + Chunk = (tries + 1) * Chunk /\ tries * Chunk \in Nat
              /\ (tries + 1) * Chunk <= MaxTries * Chunk
            BY <1>2, ChunkMore, ChunksMonotone
        <2>3. /\ v \in Vec({0, Real}) /\ v.items = data[lane].items \o Written
              /\ v.cap = Capacity /\ v.large
            <3>1. Len(data[lane].items) + Len(Written) <= data[lane].cap
                <4> DEFINE before == tries * Chunk
                           after == (tries + 1) * Chunk
                           top == MaxTries * Chunk
                <4>1. /\ before + Chunk = after /\ after <= top /\ before \in Nat
                      /\ top \in Nat /\ top + TailZeros <= Capacity /\ Chunk \in Nat
                      /\ TailZeros \in Nat /\ Capacity \in Nat
                    BY <2>2
                <4>2. Len(data[lane].items) = before /\ Len(Written) = Chunk /\ data[lane].cap = Capacity
                    BY <1>2, <2>1
                <4> HIDE Sizes DEF PipelineInv, before, after, top
                <4>. QED  BY <4>1, <4>2
            <3>2. /\ v \in Vec({0, Real}) /\ v.items = data[lane].items \o Written
                  /\ v.cap = data[lane].cap /\ v.large = data[lane].large
                <4>1. data[lane] \in Vec({0, Real}) /\ Written \in Seq({0, Real})
                    BY <1>2, <2>1
                <4> HIDE Sizes DEF PipelineInv, v
                <4>2. ASSUME NEW x \in Vec({0, Real}), NEW src \in Seq({0, Real}),
                             Len(x.items) + Len(src) <= x.cap
                      PROVE  /\ ExtendFromSlice(x, src) \in Vec({0, Real})
                             /\ ExtendFromSlice(x, src).items = x.items \o src
                             /\ ExtendFromSlice(x, src).cap = x.cap
                             /\ ExtendFromSlice(x, src).large = x.large
                    BY <4>2, ExtendFits, Zenon
                <4>. QED  BY <3>1, <4>1, <4>2, Zenon DEF v
            <3>. QED  BY <1>2, <3>2, Zenon
        <2> HIDE DEF v
        <2>4. Len(v.items) = tries' * Chunk
            <3>1. data[lane].items \in Seq({0, Real})
                BY <1>2 DEF Vec
            <3>. QED  BY <1>1, <1>2, <2>1, <2>2, <2>3, <3>1
        <2>5. Len(v.items) <= MaxTries * Chunk + TailZeros
            BY <1>1, <1>2, <2>2, <2>4
        <2>6. data' = [data EXCEPT ![lane] = v] /\ UNCHANGED sa /\ BufferInv /\ lane \in Scratches
            BY <1>1, <1>2, Zenon DEF v
        <2>7. BufferInv' /\ data'[lane] = v /\ \A k \in Scratches : k # lane => data'[k] = data[k]
            BY <2>3, <2>5, <2>6, DataStored, Zenon
        <2>. QED  BY <2>4, <2>7, Zenon
    <1>6. TextInv'
        <2>1. Ready' \subseteq Ready /\ lane \notin Ready
            BY <1>1, <1>2, <1>3 DEF Ready, Prepared
        <2>2. Ready \subseteq Scratches
            BY <1>1 DEF Ready, Prepared, Scratches
        <2>3. ASSUME NEW l \in Ready'  PROVE TextReady(l)'
            <3>1. l \in Ready /\ l \in Scratches /\ l # lane
                BY <2>1, <2>2
            <3>2. data'[l] = data[l] /\ dataLen'[l] = dataLen[l] /\ TextReady(l)
                BY <1>1, <1>5, <3>1 DEF TextInv
            <3>. QED  BY <3>2 DEF TextReady
        <2>. QED  BY <1>1, <1>5, <2>3 DEF TextInv
    <1>7. MarkerInv'
        <2>1. CASE lane = 0
            BY <1>1, <1>2, <1>3, <2>1 DEF Try, MarkerInv
        <2>2. CASE lane # 0 /\ ~rekey
            BY <1>1, <1>2, <1>3, <2>2 DEF Try, MarkerInv
        <2>3. CASE lane # 0 /\ rekey
            <3> DEFINE new == WriteMarker(markers[lane], idx, Marker(first, count))
            <3>1. /\ markers' = [markers EXCEPT ![lane] = new]
                  /\ idx' = IF tries + 1 > 1 THEN idx + 1 ELSE idx
                  /\ first' = (tries + 1) - 1 /\ count' = 1
                BY <2>3 DEF Try, AdvanceIdx
            <3>2. Marker(first, count) \in 0 .. MarkerSpace - 1
                <4>1. /\ first \in Nat /\ (first = 0 \/ first < tries)
                      /\ count \in Nat /\ count <= tries + 1
                      /\ tries \in Nat /\ tries <= MaxTries /\ MaxTries \in Nat
                    BY <1>1, <1>2, Sizes DEF MarkerInv, ControlInv
                <4>2. first \in 0 .. MaxTries + 1 /\ count \in 0 .. MaxTries + 1
                    BY <4>1
                <4>. QED  BY <4>2, MarkerTyped
            <3>3. new \in Seq(0 .. MarkerSpace - 1) /\ Len(new) = idx + 1
                <4>1. /\ markers[lane] \in Seq(0 .. MarkerSpace - 1) /\ idx \in Nat
                      /\ idx <= Len(markers[lane]) /\ Len(markers[lane]) <= idx + 1
                    BY <1>1, <1>2 DEF MarkerInv
                <4>. QED  BY <3>2, <4>1, WriteTyped
            <3> HIDE DEF new
            <3>4. markers' \in [Scratches -> Seq(0 .. MarkerSpace - 1)] /\ markers'[lane] = new
                  /\ \A l \in Scratches : l # lane => markers'[l] = markers[l]
                BY <1>2, <3>1, <3>3 DEF MarkerInv
            <3>6. idx' \in Nat /\ (idx' = 0 \/ idx' < tries') /\ idx' <= idx + 1 /\ idx + 1 <= idx' + 1
                BY <1>1, <1>2, <3>1 DEF MarkerInv
            <3>7. \A l \in Scratches : Len(markers'[l]) <= MaxTries
                <4>1. idx + 1 <= MaxTries
                    BY <1>2 DEF MarkerInv
                <4>. QED  BY <3>3, <3>4, <4>1 DEF MarkerInv
            <3>8. first' \in Nat /\ (first' = 0 \/ first' < tries') /\ count' = 1 /\ count' <= tries' + 1
                BY <1>1, <1>2, <3>1
            <3>9. idx' <= Len(markers'[lane]) /\ Len(markers'[lane]) <= idx' + 1 /\ lane' = lane
                BY <1>1, <1>2, <3>3, <3>4, <3>6
            <3>10. count' \in Nat \ {0} /\ (idx' = 0 \/ idx' < tries') /\ idx' \in Nat
                BY <3>6, <3>8
            <3>. QED  BY <3>4, <3>7, <3>8, <3>9, <3>10, Zenon DEF MarkerInv
        <2>. QED  BY <2>1, <2>2, <2>3
    <1>8. OutputCanonical'
        BY <1>3 DEF OutputCanonical
    <1>. QED  BY <1>1, <1>4, <1>5, <1>6, <1>7, <1>8

\* The tail behind a text of any length is zeroed without leaving the block.
LEMMA ZeroTailFits ==
    ASSUME NEW v \in Vec({0, Real}), v.cap = Capacity, v.large, NEW len \in Nat,
           Len(v.items) <= MaxTries * Chunk + TailZeros, len <= MaxTries * Chunk
    PROVE  /\ ZeroTail(v, len) \in Vec({0, Real})
           /\ ZeroTail(v, len).cap = Capacity /\ ZeroTail(v, len).large
           /\ Len(ZeroTail(v, len).items) <= MaxTries * Chunk + TailZeros
           /\ Len(v.items) <= Len(ZeroTail(v, len).items)
           /\ len + TailZeros <= Len(ZeroTail(v, len).items)
           /\ \A k \in 1 .. TailZeros : ZeroTail(v, len).items[len + k] = 0
    <1> DEFINE w == IF Len(v.items) < len + TailZeros THEN Resize(v, len + TailZeros, 0) ELSE v
               zeros == [i \in 1 .. TailZeros |-> 0]
    <1>1. Len(v.items) \in Nat
        BY DEF Vec
    <1>2. /\ w \in Vec({0, Real}) /\ w.cap = Capacity /\ w.large
          /\ Len(w.items) \in Nat /\ Len(w.items) <= MaxTries * Chunk + TailZeros
          /\ Len(v.items) <= Len(w.items) /\ len + TailZeros <= Len(w.items)
        <2>1. CASE Len(v.items) < len + TailZeros
            <3> DEFINE n == len + TailZeros
            <3>1. n \in Nat /\ n <= v.cap /\ 0 \in {0, Real} /\ w = Resize(v, n, 0)
                BY <2>1, Sizes
            <3>2. /\ Resize(v, n, 0) \in Vec({0, Real}) /\ Len(Resize(v, n, 0).items) = n
                  /\ Resize(v, n, 0).cap = v.cap /\ Resize(v, n, 0).large = v.large
                BY <3>1, ResizeFits, Zenon
            <3>3. w \in Vec({0, Real}) /\ w.cap = Capacity /\ w.large /\ Len(w.items) = n
                BY <3>1, <3>2, Zenon
            <3> HIDE DEF w
            <3>. QED  BY <1>1, <2>1, <3>1, <3>3, Sizes
        <2>2. CASE ~(Len(v.items) < len + TailZeros)
            <3>1. w = v
                BY <2>2
            <3> HIDE DEF w
            <3>. QED  BY <1>1, <2>2, <3>1, Sizes
        <2>. QED  BY <2>1, <2>2
    <1>3. zeros \in Seq({0, Real}) /\ Len(zeros) = TailZeros /\ \A k \in 1 .. TailZeros : zeros[k] = 0
        BY Sizes
    <1>4. ZeroTail(v, len) = Overwrite(w, len, zeros)
        BY Zenon DEF ZeroTail
    <1> HIDE DEF w, zeros
    <1>5. len + Len(zeros) <= Len(w.items)
        BY <1>2, <1>3
    <1>6. /\ Overwrite(w, len, zeros) \in Vec({0, Real})
          /\ Len(Overwrite(w, len, zeros).items) = Len(w.items)
          /\ Overwrite(w, len, zeros).cap = w.cap
          /\ Overwrite(w, len, zeros).large = w.large
          /\ \A k \in 1 .. Len(zeros) : Overwrite(w, len, zeros).items[len + k] = zeros[k]
        <2>1. w \in Vec({0, Real}) /\ zeros \in Seq({0, Real})
            BY <1>2, <1>3
        <2>. QED  BY <1>5, <2>1, OverwriteFits
    <1>. QED  BY <1>2, <1>3, <1>4, <1>6

\* A sequence is its own longest prefix.
LEMMA WholeSeq ==
    ASSUME NEW T, NEW s \in Seq(T)
    PROVE  SubSeq(s, 1, Len(s)) = s
    OBVIOUS

\* The end of the loop: the text of the scratch is complete, and in the two-way
\* hash the second scratch starts empty.
LEMMA FinishInv ==
    ASSUME PipelineInv, NEW r \in 0 .. Slack * Chunk - 1, Finish(r)
    PROVE  PipelineInv'
    <1> USE DEF PipelineInv
    <1> DEFINE len == DataLength(r)
               text == IF lane = 0 THEN data[lane] ELSE ZeroTail(data[lane], len)
               more == mode = "x2" /\ lane = 1
               marks == IF lane = 0 THEN markers[lane]
                        ELSE SubSeq(WriteMarker(markers[lane], idx, Marker(first, count)), 1, idx + 1)
    <1>1. /\ pc = "finish" /\ dataLen' = [dataLen EXCEPT ![lane] = len]
          /\ UNCHANGED <<little, streaming, mode, calls, sa, out>>
        BY DEF Finish, buildVars
    <1>2. /\ lane \in Scratches /\ tries \in Nat /\ tries > MinTries /\ tries <= MaxTries
          /\ mode \in Modes /\ (lane = 0 <=> mode = "full") /\ (lane = 2 => mode = "x2")
        BY <1>1, Sizes DEF ControlInv
    <1>3. /\ data[lane] \in Vec({0, Real}) /\ data[lane].cap = Capacity /\ data[lane].large
          /\ Len(data[lane].items) <= MaxTries * Chunk + TailZeros
        BY <1>2 DEF BufferInv
    <1>4. Len(data[lane].items) = tries * Chunk
        BY <1>1 DEF TextInv
    <1>5. /\ len \in Nat \ {0} /\ len + 1 <= tries * Chunk
          /\ tries * Chunk \in Nat /\ tries * Chunk <= MaxTries * Chunk
        BY <1>2, LengthBounds
    <1> HIDE DEF len
    <1>6. /\ text \in Vec({0, Real}) /\ text.cap = Capacity /\ text.large
          /\ Len(text.items) \in Nat /\ Len(text.items) <= MaxTries * Chunk + TailZeros
          /\ len + 1 <= Len(text.items)
          /\ lane # 0 => /\ len + TailZeros <= Len(text.items)
                         /\ \A k \in 1 .. TailZeros : text.items[len + k] = 0
        <2>1. CASE lane = 0
            <3>1. text = data[lane]
                BY <2>1
            <3>2. Len(data[lane].items) \in Nat
                BY <1>3 DEF Vec
            <3> HIDE DEF text
            <3>. QED  BY <1>3, <1>4, <1>5, <2>1, <3>1, <3>2
        <2>2. CASE lane # 0
            <3> DEFINE z == ZeroTail(data[lane], len)
            <3>1. text = z
                BY <2>2
            <3>2. len \in Nat /\ len <= MaxTries * Chunk
                BY <1>5, Sizes
            <3>3. /\ z \in Vec({0, Real}) /\ z.cap = Capacity /\ z.large
                  /\ Len(z.items) <= MaxTries * Chunk + TailZeros
                  /\ Len(data[lane].items) <= Len(z.items)
                  /\ len + TailZeros <= Len(z.items)
                  /\ \A k \in 1 .. TailZeros : z.items[len + k] = 0
                BY <1>3, <3>2, ZeroTailFits, Zenon
            <3> HIDE DEF text, z
            <3>4. Len(z.items) \in Nat
                BY <3>3 DEF Vec
            <3>. QED  BY <1>4, <1>5, <3>1, <3>3, <3>4, Sizes
        <2>. QED  BY <2>1, <2>2
    <1> DEFINE done == [data EXCEPT ![lane] = text]
               last == [markers EXCEPT ![lane] = marks]
    <1>7. /\ more => /\ pc' = "loop" /\ lane' = 2 /\ tries' = 0 /\ idx' = 0 /\ first' = 0
                     /\ count' = 1
                     /\ data' = [done EXCEPT ![2] = Clear(@)]
                     /\ markers' = [last EXCEPT ![2] = <<>>]
          /\ ~more => /\ pc' = "sort" /\ data' = done /\ markers' = last
                      /\ UNCHANGED <<lane, tries, idx, first, count>>
        <2>1. data = [data EXCEPT ![lane] = data[lane]] /\ markers = [markers EXCEPT ![lane] = markers[lane]]
            BY DEF BufferInv, MarkerInv
        <2>. QED  BY <2>1 DEF Finish, Start, Cleared, loopVars, len
    <1>8. marks \in Seq(0 .. MarkerSpace - 1) /\ Len(marks) <= MaxTries
        <2>1. CASE lane = 0
            BY <1>2, <2>1 DEF MarkerInv
        <2>2. CASE lane # 0
            <3> DEFINE new == WriteMarker(markers[lane], idx, Marker(first, count))
            <3>1. /\ markers[lane] \in Seq(0 .. MarkerSpace - 1) /\ idx \in Nat
                  /\ idx <= Len(markers[lane]) /\ Len(markers[lane]) <= idx + 1
                  /\ idx + 1 <= MaxTries
                BY <1>1, <1>2, Sizes DEF MarkerInv
            <3>2. first \in 0 .. MaxTries + 1 /\ count \in 0 .. MaxTries + 1
                BY <1>2, Sizes DEF MarkerInv
            <3>3. Marker(first, count) \in 0 .. MarkerSpace - 1
                BY <3>2, MarkerTyped
            <3>4. new \in Seq(0 .. MarkerSpace - 1) /\ Len(new) = idx + 1
                <4> DEFINE T == 0 .. MarkerSpace - 1
                           x == Marker(first, count)
                           seq == markers[lane]
                <4>1. x \in T /\ seq \in Seq(T) /\ idx \in Nat /\ idx <= Len(seq) /\ Len(seq) <= idx + 1
                    BY <3>1, <3>3, Zenon
                <4> HIDE DEF T, x, seq
                <4>2. WriteMarker(seq, idx, x) \in Seq(T) /\ Len(WriteMarker(seq, idx, x)) = idx + 1
                    BY <4>1, WriteTyped, Zenon
                <4>. QED  BY <4>2, Zenon DEF T, x, seq
            <3>5. marks = SubSeq(new, 1, idx + 1)
                BY <2>2
            <3> HIDE DEF marks, new
            <3>6. SubSeq(new, 1, Len(new)) = new
                BY <3>4, WholeSeq
            <3>. QED  BY <3>1, <3>4, <3>5, <3>6
        <2>. QED  BY <2>1, <2>2
    <1> HIDE DEF text, marks
    <1>9. ControlInv'
        <2>1. lane \in {1, 2} \/ (lane = 0 /\ mode = "full")
            BY <1>2 DEF Scratches
        <2>2. CASE more
            BY <1>1, <1>2, <1>7, <2>2, Sizes DEF ControlInv, Scratches
        <2>3. CASE ~more
            BY <1>1, <1>2, <1>7, <2>1, <2>3 DEF ControlInv
        <2>. QED  BY <2>2, <2>3
    <1>10. MarkerInv'
        <2>1. last \in [Scratches -> Seq(0 .. MarkerSpace - 1)] /\ \A l \in Scratches : Len(last[l]) <= MaxTries
            BY <1>2, <1>8 DEF MarkerInv
        <2> HIDE DEF last
        <2>2. CASE more
            <3>1. markers' = [last EXCEPT ![2] = <<>>]
                BY <1>7, <2>2
            <3>2. markers' \in [Scratches -> Seq(0 .. MarkerSpace - 1)] /\ markers'[2] = <<>>
                BY <2>1, <3>1 DEF Scratches
            <3>3. \A l \in Scratches : Len(markers'[l]) <= MaxTries
                BY <2>1, <3>1, Sizes
            <3>. QED  BY <1>1, <1>7, <2>2, <3>2, <3>3 DEF MarkerInv
        <2>3. CASE ~more
            BY <1>1, <1>7, <2>1, <2>3 DEF MarkerInv
        <2>. QED  BY <2>2, <2>3
    <1>11. /\ BufferInv' /\ data'[lane] = text
           /\ \A k \in Scratches : k # lane /\ (more => k # 2) => data'[k] = data[k]
           /\ more => Len(data'[2].items) = 0
        <2>1. done \in [Scratches -> Vec({0, Real})] /\ done[lane] = text
              /\ \A k \in Scratches : k # lane => done[k] = data[k]
            BY <1>2, <1>6 DEF BufferInv
        <2>2. \A l \in Scratches : /\ done[l].cap = Capacity /\ done[l].large
                                   /\ Len(done[l].items) <= MaxTries * Chunk + TailZeros
            BY <1>6, <2>1 DEF BufferInv
        <2> HIDE DEF done
        <2>3. CASE more
            <3>1. done[2] \in Vec({0, Real}) /\ lane # 2 /\ 2 \in Scratches
                BY <2>1, <2>3 DEF Scratches
            <3>2. /\ Clear(done[2]) \in Vec({0, Real}) /\ Len(Clear(done[2]).items) = 0
                  /\ Clear(done[2]).cap = done[2].cap /\ Clear(done[2]).large = done[2].large
                BY <3>1, ClearFits
            <3>3. data' = [done EXCEPT ![2] = Clear(done[2])]
                BY <1>7, <2>3
            <3>4. data' \in [Scratches -> Vec({0, Real})] /\ data'[2] = Clear(done[2])
                  /\ \A k \in Scratches : k # 2 => data'[k] = done[k]
                BY <2>1, <3>1, <3>2, <3>3
            <3>5. \A l \in Scratches : /\ data'[l].cap = Capacity /\ data'[l].large
                                       /\ Len(data'[l].items) <= MaxTries * Chunk + TailZeros
                <4>1. 0 <= MaxTries * Chunk + TailZeros
                    BY Sizes
                <4>. QED  BY <2>2, <3>1, <3>2, <3>4, <4>1
            <3>6. BufferInv'
                BY <1>1, <3>4, <3>5 DEF BufferInv
            <3>7. Len(data'[2].items) = 0
                BY <3>2, <3>4, Zenon
            <3>8. data'[lane] = text
                BY <1>2, <2>1, <3>1, <3>4, Zenon
            <3>9. \A k \in Scratches : k # lane /\ k # 2 => data'[k] = data[k]
                BY <2>1, <3>4, Zenon
            <3>. QED  BY <2>3, <3>6, <3>7, <3>8, <3>9, Zenon
        <2>4. CASE ~more
            <3>1. data' = done /\ UNCHANGED sa
                BY <1>1, <1>7, <2>4
            <3>2. BufferInv'
                BY <2>1, <2>2, <3>1 DEF BufferInv
            <3>. QED  BY <2>1, <2>4, <3>1, <3>2, Zenon
        <2>. QED  BY <2>3, <2>4, Zenon
    <1>12. ASSUME NEW l, l = lane  PROVE TextReady(l)'
        <2>1. dataLen'[l] = len /\ data'[l] = text
            BY <1>1, <1>2, <1>11, <1>12 DEF TextInv
        <2>2. len + 1 <= MaxTries * Chunk
            BY <1>5, Sizes
        <2>. QED  BY <1>5, <1>6, <1>12, <2>1, <2>2 DEF TextReady
    <1>13. TextInv'
        <2>1. \A l \in Ready' : l = lane \/ (l \in Ready /\ l \in Scratches /\ ~more)
            BY <1>1, <1>2, <1>7 DEF Ready, Prepared, Scratches, Modes
        <2>2. ASSUME NEW l \in Ready'  PROVE TextReady(l)'
            <3>1. CASE l = lane
                BY <1>12, <3>1
            <3>2. CASE l # lane
                <4>1. l \in Ready /\ l \in Scratches /\ ~more
                    BY <2>1, <3>2
                <4>2. data'[l] = data[l] /\ dataLen'[l] = dataLen[l] /\ TextReady(l)
                    BY <1>1, <1>11, <3>2, <4>1 DEF TextInv
                <4>. QED  BY <4>2 DEF TextReady
            <3>. QED  BY <3>1, <3>2
        <2>3. pc' \in {"loop", "finish"} => Len(data'[lane'].items) = tries' * Chunk
            BY <1>7, <1>11, Sizes
        <2>. QED  BY <1>1, <2>2, <2>3 DEF TextInv
    <1>14. OutputCanonical'
        BY <1>7 DEF OutputCanonical
    <1>. QED  BY <1>1, <1>9, <1>10, <1>11, <1>13, <1>14

\* Where the tail is zero the descriptor's array is the text's own.
LEMMA WordsExact ==
    ASSUME PipelineInv, NEW l \in Scratches, l # 0, TextReady(l)
    PROVE  Words(l) = SaisWords(l)
    <1>1. \A k \in 1 .. 3 : data[l].items[dataLen[l] + k] = 0
        BY Sizes DEF TextReady
    <1>. QED  BY <1>1 DEF Words, SaisWords

\* The array of a complete text is a sequence of as many words.
LEMMA SaisTyped ==
    ASSUME PipelineInv, NEW l \in Scratches, TextReady(l)
    PROVE  SaisWords(l) \in Seq(Nat \X Nat) /\ Len(SaisWords(l)) = dataLen[l]
    <1>1. Own(l) \in Nat \X Nat /\ dataLen[l] \in Nat
        BY Sizes DEF PipelineInv, ControlInv, Own, Scratches, TextReady
    <1>. QED  BY <1>1 DEF SaisWords

\* A prefix that equals a sequence is that sequence.
LEMMA PrefixIs ==
    ASSUME NEW T, NEW s \in Seq(T), NEW w \in Seq(T), Len(w) <= Len(s),
           \A k \in 1 .. Len(w) : s[k] = w[k]
    PROVE  SubSeq(s, 1, Len(w)) = w
    OBVIOUS

\* The materialized array stays in its block, and its logical prefix is the
\* text's own array whatever an earlier hash left behind it.
LEMMA MaterializedFits ==
    ASSUME PipelineInv, NEW l \in Scratches, l # 0, TextReady(l)
    PROVE  /\ Materialized(l) \in Vec(Nat \X Nat)
           /\ Materialized(l).cap = Capacity /\ Materialized(l).large
           /\ Len(Materialized(l).items) <= MaxTries * Chunk + SaTail
           /\ Hashed(l, Materialized(l)) = SaisWords(l)
    <1> DEFINE padded == dataLen[l] + SaTail
               room == IF Len(sa[l].items) < padded THEN Resize(sa[l], padded, <<0, 0>>) ELSE sa[l]
               words == SaisWords(l)
               m == Overwrite(room, 0, words)
    <1>1. /\ sa[l] \in Vec(Nat \X Nat) /\ sa[l].cap = Capacity /\ sa[l].large
          /\ Len(sa[l].items) <= MaxTries * Chunk + SaTail
        BY DEF PipelineInv, BufferInv
    <1>2. Len(sa[l].items) \in Nat
        BY <1>1 DEF Vec
    <1>3. words \in Seq(Nat \X Nat) /\ Len(words) = dataLen[l]
        BY SaisTyped
    <1>4. dataLen[l] \in Nat /\ dataLen[l] <= MaxTries * Chunk
        BY Sizes DEF TextReady
    <1>5. CASE ~Accepted(l)
        <2>1. Materialized(l) = sa[l] /\ Hashed(l, Materialized(l)) = words
            BY <1>5 DEF Materialized, Hashed
        <2>. QED  BY <1>1, <2>1
    <1>6. CASE Accepted(l)
        <2>1. Materialized(l) = m
            BY <1>6, WordsExact DEF Materialized
        <2>2. Hashed(l, Materialized(l)) = SubSeq(Materialized(l).items, 1, dataLen[l])
            BY <1>6 DEF Hashed
        <2>3. /\ room \in Vec(Nat \X Nat) /\ room.cap = Capacity /\ room.large
              /\ Len(room.items) \in Nat /\ Len(room.items) <= MaxTries * Chunk + SaTail
              /\ dataLen[l] <= Len(room.items)
            <3>1. CASE Len(sa[l].items) < padded
                <4>1. padded \in Nat /\ padded <= sa[l].cap /\ <<0, 0>> \in Nat \X Nat
                      /\ room = Resize(sa[l], padded, <<0, 0>>)
                    BY <1>1, <1>4, <3>1, Sizes
                <4> HIDE DEF room, padded
                <4>2. /\ Resize(sa[l], padded, <<0, 0>>) \in Vec(Nat \X Nat)
                      /\ Len(Resize(sa[l], padded, <<0, 0>>).items) = padded
                      /\ Resize(sa[l], padded, <<0, 0>>).cap = sa[l].cap
                      /\ Resize(sa[l], padded, <<0, 0>>).large = sa[l].large
                    <5> DEFINE T == Nat \X Nat
                               zero == <<0, 0>>
                    <5>1. sa[l] \in Vec(T) /\ padded \in Nat /\ zero \in T /\ padded <= sa[l].cap
                        BY <1>1, <4>1
                    <5> HIDE DEF T, zero
                    <5>2. /\ Resize(sa[l], padded, zero) \in Vec(T)
                          /\ Len(Resize(sa[l], padded, zero).items) = padded
                          /\ Resize(sa[l], padded, zero).cap = sa[l].cap
                          /\ Resize(sa[l], padded, zero).large = sa[l].large
                        BY <5>1, ResizeFits
                    <5>. QED  BY <5>2 DEF T, zero
                <4>3. room \in Vec(Nat \X Nat) /\ room.cap = Capacity /\ room.large /\ Len(room.items) = padded
                    BY <1>1, <4>1, <4>2, Zenon
                <4>4. padded = dataLen[l] + SaTail
                    BY DEF padded
                <4>5. dataLen[l] + SaTail <= MaxTries * Chunk + SaTail /\ dataLen[l] <= dataLen[l] + SaTail
                    <5>1. SaTail \in Nat /\ MaxTries * Chunk \in Nat
                        BY Sizes
                    <5>. QED  BY <1>4, <5>1
                <4>. QED  BY <4>1, <4>3, <4>4, <4>5
            <3>2. CASE ~(Len(sa[l].items) < padded)
                <4>1. room = sa[l]
                    BY <3>2
                <4> HIDE DEF room
                <4>2. dataLen[l] <= Len(sa[l].items)
                    BY <1>2, <1>4, <3>2, Sizes
                <4>. QED  BY <1>1, <1>2, <4>1, <4>2, Zenon
            <3>. QED  BY <3>1, <3>2
        <2> HIDE DEF room, words
        <2>4. 0 \in Nat /\ 0 + Len(words) <= Len(room.items)
            BY <1>3, <1>4, <2>3
        <2>5. /\ m \in Vec(Nat \X Nat) /\ Len(m.items) = Len(room.items)
              /\ m.cap = room.cap /\ m.large = room.large
              /\ \A k \in 1 .. Len(words) : m.items[0 + k] = words[k]
            <3> DEFINE T == Nat \X Nat
            <3>1. room \in Vec(T) /\ words \in Seq(T)
                BY <1>3, <2>3
            <3> HIDE DEF T
            <3>2. m \in Vec(T) /\ Len(m.items) = Len(room.items)
                  /\ m.cap = room.cap /\ m.large = room.large
                  /\ \A k \in 1 .. Len(words) : m.items[0 + k] = words[k]
                BY <2>4, <3>1, OverwriteFits
            <3>. QED  BY <3>2 DEF T
        <2> HIDE DEF m
        <2>6. m.items \in Seq(Nat \X Nat) /\ \A k \in 1 .. Len(words) : m.items[k] = words[k]
            BY <1>3, <1>4, <2>5 DEF Vec
        <2>7. Len(words) <= Len(m.items)
            BY <1>3, <2>3, <2>5
        <2>8. SubSeq(m.items, 1, Len(words)) = words
            BY <1>3, <2>6, <2>7, PrefixIs
        <2>9. Hashed(l, Materialized(l)) = words
            BY <1>3, <2>1, <2>2, <2>8
        <2>10. /\ m \in Vec(Nat \X Nat) /\ m.cap = Capacity /\ m.large
               /\ Len(m.items) <= MaxTries * Chunk + SaTail
            BY <2>3, <2>5
        <2>. QED  BY <2>1, <2>9, <2>10, Zenon DEF words
    <1>. QED  BY <1>5, <1>6

\* The suffix arrays and the final hash.
LEMMA SortInv ==
    ASSUME PipelineInv, Sort
    PROVE  PipelineInv'
    <1> DEFINE built == IF mode = "x2" THEN {1, 2}
                        ELSE IF mode = "full" \/ (mode = "single" /\ streaming /\ Accepted(1)) THEN {} ELSE {1}
               own == IF mode = "x2" THEN {1, 2} ELSE IF mode = "full" THEN {0} ELSE {1}
    <1>1. /\ pc = "sort" /\ pc' = "idle"
          /\ sa' = [l \in Scratches |-> IF l \in built THEN Materialized(l) ELSE sa[l]]
          /\ out' = [l \in Scratches |->
                       IF l \in built THEN Hashed(l, sa'[l])
                       ELSE IF mode = "full" /\ l = 0 THEN SaisWords(0)
                       ELSE IF mode = "single" /\ l = 1 THEN Words(1)
                       ELSE <<>>]
          /\ data' = [data EXCEPT ![0] = WithCapacity(Capacity, TRUE)]
          /\ UNCHANGED <<little, streaming, mode, calls, lane, tries, idx, first, count,
                         markers, dataLen>>
        BY DEF Sort, buildVars, loopVars
    <1>2. mode \in Modes /\ own \subseteq Scratches /\ built \subseteq own \ {0}
        BY <1>1 DEF PipelineInv, ControlInv, Scratches
    <1>3. \A l \in own : TextReady(l)
        BY <1>1 DEF PipelineInv, TextInv, Ready, Prepared
    <1>4. \A l \in built : /\ sa'[l] = Materialized(l)
                           /\ Materialized(l) \in Vec(Nat \X Nat)
                           /\ Materialized(l).cap = Capacity /\ Materialized(l).large
                           /\ Len(Materialized(l).items) <= MaxTries * Chunk + SaTail
                           /\ Hashed(l, Materialized(l)) = SaisWords(l)
        <2> SUFFICES ASSUME NEW l \in built
                     PROVE  /\ sa'[l] = Materialized(l)
                            /\ Materialized(l) \in Vec(Nat \X Nat)
                            /\ Materialized(l).cap = Capacity /\ Materialized(l).large
                            /\ Len(Materialized(l).items) <= MaxTries * Chunk + SaTail
                            /\ Hashed(l, Materialized(l)) = SaisWords(l)
            BY Zenon
        <2> HIDE DEF built, own
        <2>1. l \in Scratches /\ l # 0 /\ TextReady(l)
            BY <1>2, <1>3
        <2>2. sa'[l] = Materialized(l)
            BY <1>1, <2>1, Zenon
        <2>. QED  BY <2>1, <2>2, MaterializedFits, Zenon
    <1>5. ControlInv'
        BY <1>1 DEF PipelineInv, ControlInv
    <1>6. MarkerInv'
        BY <1>1 DEF PipelineInv, MarkerInv
    <1>7. BufferInv'
        <2>1. /\ data' \in [Scratches -> Vec({0, Real})]
              /\ \A l \in Scratches : /\ data'[l].cap = Capacity /\ data'[l].large
                                      /\ Len(data'[l].items) <= MaxTries * Chunk + TailZeros
            <3> DEFINE v == WithCapacity(Capacity, TRUE)
            <3>1. v \in Vec({0, Real}) /\ v.cap = Capacity /\ v.large /\ Len(v.items) <= MaxTries * Chunk + TailZeros
                <4>1. v \in Vec({0, Real}) /\ v.cap = Capacity /\ v.large /\ Len(v.items) = 0
                    BY FreshVec, Zenon
                <4>2. 0 <= MaxTries * Chunk + TailZeros
                    BY Sizes
                <4>. QED  BY <4>1, <4>2, Zenon
            <3>2. data' = [data EXCEPT ![0] = v]
                BY <1>1
            <3> HIDE DEF v
            <3>. QED  BY <3>1, <3>2 DEF PipelineInv, BufferInv
        <2>2. \A l \in Scratches : /\ sa'[l] \in Vec(Nat \X Nat) /\ sa'[l].cap = Capacity /\ sa'[l].large
                                   /\ Len(sa'[l].items) <= MaxTries * Chunk + SaTail
            <3> SUFFICES ASSUME NEW l \in Scratches
                         PROVE  /\ sa'[l] \in Vec(Nat \X Nat) /\ sa'[l].cap = Capacity /\ sa'[l].large
                                /\ Len(sa'[l].items) <= MaxTries * Chunk + SaTail
                OBVIOUS
            <3>1. CASE l \in built
                BY <1>4, <3>1, Zenon
            <3>2. CASE l \notin built
                <4>1. sa'[l] = sa[l]
                    BY <1>1, <3>2, Zenon
                <4>. QED  BY <4>1 DEF PipelineInv, BufferInv
            <3>. QED  BY <3>1, <3>2
        <2>3. sa' \in [Scratches -> Vec(Nat \X Nat)]
            <3> DEFINE f(l) == IF l \in built THEN Materialized(l) ELSE sa[l]
            <3>1. sa' = [l \in Scratches |-> f(l)]
                BY <1>1
            <3> HIDE DEF f
            <3>. QED  BY <2>2, <3>1
        <2>. QED  BY <2>1, <2>2, <2>3 DEF BufferInv
    <1>8. TextInv'
        BY <1>1 DEF PipelineInv, TextInv, Ready, Prepared
    <1>9. \A l \in Scratches : out'[l] = IF l \in own THEN SaisWords(l) ELSE <<>>
        <2> SUFFICES ASSUME NEW l \in Scratches
                     PROVE  out'[l] = IF l \in own THEN SaisWords(l) ELSE <<>>
            OBVIOUS
        <2>1. CASE l \in built
            <3>1. out'[l] = Hashed(l, sa'[l])
                BY <1>1, <2>1, Zenon
            <3>. QED  BY <1>2, <1>4, <2>1, <3>1, Zenon
        <2>2. CASE l \notin built
            <3>1. out'[l] = IF mode = "full" /\ l = 0 THEN SaisWords(0)
                            ELSE IF mode = "single" /\ l = 1 THEN Words(1)
                            ELSE <<>>
                BY <1>1, <2>2, Zenon
            <3>2. mode = "single" => Words(1) = SaisWords(1)
                BY <1>3, WordsExact DEF Scratches
            <3>3. l \in {0, 1, 2}
                BY DEF Scratches
            <3>. QED  BY <1>2, <2>2, <3>1, <3>2, <3>3 DEF Modes
        <2>. QED  BY <2>1, <2>2
    <1>10. \A l : SaisWords(l)' = SaisWords(l)
        BY <1>1 DEF SaisWords, Own
    <1>11. DOMAIN out' = Scratches /\ OutputCanonical'
        <2>1. DOMAIN out' = Scratches /\ mode' = mode
            BY <1>1
        <2>. QED  BY <1>9, <1>10, <2>1 DEF OutputCanonical
    <1>. QED  BY <1>5, <1>6, <1>7, <1>8, <1>11 DEF PipelineInv

-----------------------------------------------------------------------------
(* Theorems *)

\* Every behaviour of the hashes keeps the invariant.
LEMMA PipelineInvariant == PipelineSpec => []PipelineInv
    <1>1. PipelineInit => PipelineInv
        BY PipelineInitInv
    <1>2. PipelineInv /\ [PipelineNext]_pvars => PipelineInv'
        <2> SUFFICES ASSUME PipelineInv, [PipelineNext]_pvars  PROVE PipelineInv'
            OBVIOUS
        <2>1. CASE UNCHANGED pvars
            <3>1. UNCHANGED <<little, streaming, pc, mode, calls, lane, tries, idx, first, count,
                              data, sa, markers, dataLen, out>>
                BY <2>1 DEF pvars
            <3>2. ControlInv' /\ MarkerInv' /\ BufferInv'
                <4>1. ControlInv'
                    BY <3>1, Zenon DEF PipelineInv, ControlInv
                <4>2. MarkerInv'
                    BY <3>1, Zenon DEF PipelineInv, MarkerInv
                <4>3. BufferInv'
                    BY <3>1, Zenon DEF PipelineInv, BufferInv
                <4>. QED  BY <4>1, <4>2, <4>3
            <3>3. TextInv'
                BY <3>1 DEF PipelineInv, TextInv, Ready, Prepared, TextReady
            <3>4. DOMAIN out' = Scratches /\ OutputCanonical'
                BY <3>1 DEF PipelineInv, OutputCanonical, SaisWords, Own
            <3>. QED  BY <3>2, <3>3, <3>4 DEF PipelineInv
        <2>2. CASE \E m \in Modes : Begin(m)
            BY <2>2, BeginInv
        <2>3. CASE \E rekey, high \in BOOLEAN : Try(rekey, high)
            BY <2>3, TryInv
        <2>4. CASE \E r \in 0 .. Slack * Chunk - 1 : Finish(r)
            BY <2>4, FinishInv
        <2>5. CASE Sort
            BY <2>5, SortInv
        <2>. QED  BY <2>1, <2>2, <2>3, <2>4, <2>5 DEF PipelineNext
    <1>. QED  BY <1>1, <1>2, PTL DEF PipelineSpec

\* Types hold, and the slice data[.. data_len] that every path sorts is in
\* bounds, however many turns the op loop takes.
THEOREM PipelineTypeCorrect == PipelineSpec => []PipelineTypeOK
    <1>1. PipelineInv => PipelineTypeOK
        <2> SUFFICES ASSUME PipelineInv  PROVE PipelineTypeOK
            OBVIOUS
        <2> USE Sizes DEF PipelineInv
        <2>1. idx \in 0 .. MaxTries - 1 /\ first \in 0 .. MaxTries - 1 /\ count \in 1 .. MaxTries + 1
            BY DEF ControlInv, MarkerInv
        <2>2. Prepared \subseteq Ready
            BY DEF Ready, Prepared
        <2>3. \A l \in Prepared : dataLen[l] + 1 <= Len(data[l].items)
            BY <2>2 DEF TextInv, TextReady
        <2>4. /\ pc \in {"loop", "finish"} => idx <= Len(markers[lane])
              /\ \A l \in Scratches : Len(markers[l]) <= MaxTries /\ markers[l] \in Seq(0 .. MarkerSpace - 1)
            BY DEF MarkerInv
        <2>. QED  BY <2>1, <2>3, <2>4 DEF PipelineTypeOK, ControlInv
    <1>. QED  BY <1>1, PipelineInvariant, PTL

\* The bytes the descriptor reads behind a text are zero when it reads them,
\* whether the op loop wrote beyond the text or the buffer had to grow.
THEOREM TailAlwaysZero == PipelineSpec => []TailIsZero
    <1>1. PipelineInv => TailIsZero
        <2> SUFFICES ASSUME PipelineInv, NEW l \in Prepared \ {0}
                     PROVE  /\ Len(data[l].items) >= dataLen[l] + 3
                            /\ \A k \in 1 .. 3 : data[l].items[dataLen[l] + k] = 0
            BY DEF TailIsZero
        <2>1. TextReady(l) /\ l \in Scratches
            BY DEF PipelineInv, TextInv, Ready, Prepared, Scratches
        <2>2. Len(data[l].items) \in Nat
            BY <2>1 DEF PipelineInv, BufferInv, Vec
        <2>3. /\ dataLen[l] \in Nat /\ dataLen[l] + TailZeros <= Len(data[l].items)
              /\ \A k \in 1 .. TailZeros : data[l].items[dataLen[l] + k] = 0
            BY <2>1 DEF TextReady, Prepared
        <2>4. TailZeros \in Nat /\ TailZeros >= 3
            BY Sizes
        <2>5. dataLen[l] + 3 <= Len(data[l].items)
            BY <2>2, <2>3, <2>4
        <2>6. \A k \in 1 .. 3 : k \in 1 .. TailZeros
            BY <2>4
        <2>. QED  BY <2>2, <2>3, <2>5, <2>6
    <1>. QED  BY <1>1, PipelineInvariant, PTL

\* Every function, on every path, hands exactly its own text's suffix array to
\* the final SHA-256, over any sequence of longer and shorter hashes.
THEOREM OutputAlwaysCanonical == PipelineSpec => []OutputCanonical
    <1>1. PipelineInv => OutputCanonical
        BY DEF PipelineInv
    <1>. QED  BY <1>1, PipelineInvariant, PTL

\* The buffers keep the block, and so the large pages, they were first given.
THEOREM BuffersNeverMove == PipelineSpec => []BuffersStay
    <1>1. PipelineInv => BuffersStay
        <2> SUFFICES ASSUME PipelineInv, NEW l \in Scratches
                     PROVE  /\ data[l].large /\ Len(data[l].items) <= data[l].cap
                            /\ sa[l].large /\ Len(sa[l].items) <= sa[l].cap
            BY DEF BuffersStay
        <2>1. Len(data[l].items) \in Nat /\ Len(sa[l].items) \in Nat
            BY DEF PipelineInv, BufferInv, Vec
        <2>. QED  BY <2>1, Sizes DEF PipelineInv, BufferInv
    <1>. QED  BY <1>1, PipelineInvariant, PTL

=============================================================================

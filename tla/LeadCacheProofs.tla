---------------------------- MODULE LeadCacheProofs ----------------------------
(***************************************************************************)
(* Proofs about LeadCache: for any number of requests, what MCLeadCache    *)
(* checks on an instance.                                                  *)
(***************************************************************************)
EXTENDS LeadCache, SequenceTheorems, TLAPS

Call == {"start", "getLead", "readLead", "fillLead", "create", "update", "dropList",
         "dropScore", "getList", "readList", "fillList", "insertScore", "fillScore",
         "getScore", "readScore"}

\* What comes before and after the i-th call a request o has still to make.
ShapedAt(s, o, i) ==
  /\ i > 1 =>
       /\ s[i] # "start"
       /\ s[i] = "create"    => s[i - 1] = "start"
       /\ s[i] = "fillLead"  => s[i - 1] \in {"readLead", "create", "update"}
       /\ s[i] = "fillScore" => s[i - 1] \in {"readScore", "insertScore"}
  /\ s[i] = "create" =>
       o = "create" /\ Len(s) = i + 2 /\ s[i + 1] = "fillLead" /\ s[i + 2] = "dropList"
  /\ s[i] = "update" =>
       /\ o = "update" /\ Len(s) = i + 3
       /\ s[i + 1] = "fillLead" /\ s[i + 2] = "dropList" /\ s[i + 3] = "dropScore"
  /\ s[i] = "insertScore" => o = "score" /\ Len(s) = i + 1 /\ s[i + 1] = "fillScore"

Shaped(s, o) == \A i \in 1 .. Len(s) : ShapedAt(s, o, i)

Shapes ==
  /\ todo \in [Requests -> Seq(Call)]
  /\ val \in [Requests -> Nat] /\ score \in [Requests -> Nat]
  /\ \A r \in Requests : Shaped(todo[r], op[r])
  /\ \A q, r \in Requests : op[q] = "create" /\ op[r] = "create" => q = r

\* What a request has in memory when it makes a call.
Memory(r) ==
  /\ At(r, "start") => score[r] = 0
  /\ At(r, "create") \/ (At(r, "start") /\ op[r] = "create") => db = 0
  /\ At(r, "fillLead") => val[r] >= 1
  /\ At(r, "fillScore") => score[r] >= 1

Memories == \A r \in Requests : Memory(r)

\* Unless the score cache was raced or missed, it holds no score older than
\* that of a finished job, and no reader got an older one.
ScoreKeepsUp ==
  "score" \notin late \cup missed =>
    /\ scoreCache # None => scoreCache >= finished
    /\ \A r \in Requests : op[r] = "latest" /\ score[r] # 0 => score[r] >= floor[r]

IInv == TypeOK /\ Shapes /\ Memories /\ FreshUnlessRaced /\ ScoreKeepsUp

----------------------------------------------------------------------------
\* The rest of a well-shaped sequence of calls is well-shaped.
LEMMA ShapedTail ==
  ASSUME NEW s \in Seq(Call), NEW o, s # <<>>, Shaped(s, o)
  PROVE  /\ Tail(s) \in Seq(Call) /\ Shaped(Tail(s), o)
         /\ Len(Tail(s)) = Len(s) - 1
         /\ \A i \in 1 .. Len(Tail(s)) : Tail(s)[i] = s[i + 1]
<1>1. /\ Tail(s) \in Seq(Call) /\ Len(Tail(s)) = Len(s) - 1
      /\ \A i \in 1 .. Len(Tail(s)) : Tail(s)[i] = s[i + 1]
      /\ Len(s) \in Nat
  OBVIOUS
<1>2. Shaped(Tail(s), o)
  <2> DEFINE t == Tail(s)
  <2> SUFFICES ASSUME NEW i \in 1 .. Len(t)
               PROVE  ShapedAt(t, o, i)
    BY DEF Shaped
  <2> HIDE DEF t
  <2>1. /\ Len(t) = Len(s) - 1 /\ Len(s) \in Nat /\ i + 1 \in 1 .. Len(s)
        /\ \A k \in 1 .. Len(t) : t[k] = s[k + 1]
    BY <1>1 DEF t
  <2>2. i > 1 => i - 1 \in 1 .. Len(t) /\ t[i - 1] = s[i] /\ t[i - 1] = s[(i + 1) - 1]
    BY <2>1
  <2>3. ShapedAt(s, o, i + 1)
    BY <2>1 DEF Shaped
  <2>. QED
    BY <2>1, <2>2, <2>3 DEF ShapedAt
<1>. QED
  BY <1>1, <1>2

\* On a miss, a read and the caching of what it returns take the place of the
\* get.
LEMMA ShapedMiss ==
  ASSUME NEW s \in Seq(Call), NEW o, s # <<>>, Shaped(s, o),
         s[1] \in {"getLead", "getList", "getScore"},
         NEW a \in {"readLead", "readList", "readScore"},
         NEW b \in {"fillLead", "fillList", "fillScore"},
         b = "fillLead" => a = "readLead", b = "fillScore" => a = "readScore",
         NEW t \in Seq(Call), Len(t) = Len(s) + 1, t[1] = a, t[2] = b,
         \A i \in 3 .. Len(t) : t[i] = s[i - 1]
  PROVE  Shaped(t, o)
<1>1. Len(s) \in Nat /\ Len(s) > 0
  OBVIOUS
<1>2. Len(t) = Len(s) + 1 /\ t[1] = a /\ t[2] = b /\ \A i \in 3 .. Len(t) : t[i] = s[i - 1]
  OBVIOUS
<1>3. Shaped(t, o)
  <2> SUFFICES ASSUME NEW i \in 1 .. Len(t)
               PROVE  ShapedAt(t, o, i)
    BY DEF Shaped
  <2>2. CASE i = 1
    BY <1>2, <2>2 DEF ShapedAt
  <2>3. CASE i = 2
    BY <1>2, <2>3 DEF ShapedAt
  <2>4. CASE i > 2
    <3>1. PICK k \in 2 .. Len(s) : t[i] = s[k] /\ i = k + 1 /\ Len(t) = Len(s) + 1
      <4>1. i - 1 \in 2 .. Len(s) /\ i = (i - 1) + 1
        BY <1>1, <1>2, <2>4
      <4>. QED
        BY <1>2, <2>4, <4>1
    <3>2. ShapedAt(s, o, k)
      BY <1>1, <3>1 DEF Shaped
    <3>3. /\ k + 1 <= Len(s) => t[i + 1] = s[k + 1]
          /\ k + 2 <= Len(s) => t[i + 2] = s[k + 2]
          /\ k + 3 <= Len(s) => t[i + 3] = s[k + 3]
      BY <1>1, <1>2, <3>1
    <3>4. CASE k = 2
      <4>1. s[2] \notin {"start", "create", "fillLead", "fillScore"}
        BY <3>1, <3>2, <3>4 DEF ShapedAt
      <4>. QED
        BY <1>1, <3>1, <3>2, <3>3, <3>4, <4>1 DEF ShapedAt
    <3>5. CASE k > 2
      <4>1. t[i - 1] = s[k - 1]
        BY <1>1, <1>2, <3>1, <3>5
      <4>2. /\ t[i] # "start"
            /\ t[i] = "create"    => t[i - 1] = "start"
            /\ t[i] = "fillLead"  => t[i - 1] \in {"readLead", "create", "update"}
            /\ t[i] = "fillScore" => t[i - 1] \in {"readScore", "insertScore"}
        BY <3>1, <3>2, <3>5, <4>1 DEF ShapedAt
      <4>3. t[i] = "create" =>
              o = "create" /\ Len(t) = i + 2 /\ t[i + 1] = "fillLead" /\ t[i + 2] = "dropList"
        <5>1. CASE s[k] = "create"
          <6>1. o = "create" /\ Len(s) = k + 2 /\ s[k + 1] = "fillLead" /\ s[k + 2] = "dropList"
            BY <3>2, <5>1 DEF ShapedAt
          <6>. QED
            BY <3>1, <3>3, <6>1
        <5>. QED
          BY <3>1, <5>1
      <4>4. t[i] = "update" =>
              /\ o = "update" /\ Len(t) = i + 3
              /\ t[i + 1] = "fillLead" /\ t[i + 2] = "dropList" /\ t[i + 3] = "dropScore"
        <5>1. CASE s[k] = "update"
          <6>1. /\ o = "update" /\ Len(s) = k + 3
                /\ s[k + 1] = "fillLead" /\ s[k + 2] = "dropList" /\ s[k + 3] = "dropScore"
            BY <3>2, <5>1 DEF ShapedAt
          <6>. QED
            BY <3>1, <3>3, <6>1
        <5>. QED
          BY <3>1, <5>1
      <4>5. t[i] = "insertScore" => o = "score" /\ Len(t) = i + 1 /\ t[i + 1] = "fillScore"
        <5>1. CASE s[k] = "insertScore"
          <6>1. o = "score" /\ Len(s) = k + 1 /\ s[k + 1] = "fillScore"
            BY <3>2, <5>1 DEF ShapedAt
          <6>. QED
            BY <3>1, <3>3, <6>1
        <5>. QED
          BY <3>1, <5>1
      <4>. QED
        BY <4>2, <4>3, <4>4, <4>5 DEF ShapedAt
    <3>. QED
      BY <3>1, <3>4, <3>5
  <2>. QED
    BY <1>2, <2>2, <2>3, <2>4
<1>. QED
  BY <1>3

\* The calls of each operation.
LEMMA ShapedPlan ==
  ASSUME NEW o \in DOMAIN Plan
  PROVE  Plan[o] \in Seq(Call) /\ Shaped(Plan[o], o) /\ Plan[o] # <<>> /\ Plan[o][1] = "start"
<1>1. DOMAIN Plan = {"get", "create", "update", "list", "score", "latest"}
  BY DEF Plan
<1>2. CASE o = "get"
  <2>1. Plan[o] = <<"start", "getLead">>
    BY <1>2 DEF Plan
  <2>2. Shaped(<<"start", "getLead">>, "get")
    BY DEF Shaped, ShapedAt
  <2>3. /\ <<"start", "getLead">> \in Seq(Call) /\ <<"start", "getLead">>[1] = "start"
        /\ <<"start", "getLead">> # <<>>
    BY DEF Call
  <2>. QED
    BY <1>2, <2>1, <2>2, <2>3
<1>3. CASE o = "create"
  <2>1. Plan[o] = <<"start", "create", "fillLead", "dropList">>
    BY <1>3 DEF Plan
  <2>2. Shaped(<<"start", "create", "fillLead", "dropList">>, "create")
    BY DEF Shaped, ShapedAt
  <2>3. /\ <<"start", "create", "fillLead", "dropList">> \in Seq(Call) /\ <<"start", "create", "fillLead", "dropList">>[1] = "start"
        /\ <<"start", "create", "fillLead", "dropList">> # <<>>
    BY DEF Call
  <2>. QED
    BY <1>3, <2>1, <2>2, <2>3
<1>4. CASE o = "update"
  <2>1. Plan[o] = <<"start", "update", "fillLead", "dropList", "dropScore">>
    BY <1>4 DEF Plan
  <2>2. Shaped(<<"start", "update", "fillLead", "dropList", "dropScore">>, "update")
    BY DEF Shaped, ShapedAt
  <2>3. /\ <<"start", "update", "fillLead", "dropList", "dropScore">> \in Seq(Call) /\ <<"start", "update", "fillLead", "dropList", "dropScore">>[1] = "start"
        /\ <<"start", "update", "fillLead", "dropList", "dropScore">> # <<>>
    BY DEF Call
  <2>. QED
    BY <1>4, <2>1, <2>2, <2>3
<1>5. CASE o = "list"
  <2>1. Plan[o] = <<"start", "getList">>
    BY <1>5 DEF Plan
  <2>2. Shaped(<<"start", "getList">>, "list")
    BY DEF Shaped, ShapedAt
  <2>3. /\ <<"start", "getList">> \in Seq(Call) /\ <<"start", "getList">>[1] = "start"
        /\ <<"start", "getList">> # <<>>
    BY DEF Call
  <2>. QED
    BY <1>5, <2>1, <2>2, <2>3
<1>6. CASE o = "score"
  <2>1. Plan[o] = <<"start", "getLead", "getLead", "insertScore", "fillScore">>
    BY <1>6 DEF Plan
  <2>2. Shaped(<<"start", "getLead", "getLead", "insertScore", "fillScore">>, "score")
    BY DEF Shaped, ShapedAt
  <2>3. /\ <<"start", "getLead", "getLead", "insertScore", "fillScore">> \in Seq(Call) /\ <<"start", "getLead", "getLead", "insertScore", "fillScore">>[1] = "start"
        /\ <<"start", "getLead", "getLead", "insertScore", "fillScore">> # <<>>
    BY DEF Call
  <2>. QED
    BY <1>6, <2>1, <2>2, <2>3
<1>7. CASE o = "latest"
  <2>1. Plan[o] = <<"start", "getLead", "getScore">>
    BY <1>7 DEF Plan
  <2>2. Shaped(<<"start", "getLead", "getScore">>, "latest")
    BY DEF Shaped, ShapedAt
  <2>3. /\ <<"start", "getLead", "getScore">> \in Seq(Call) /\ <<"start", "getLead", "getScore">>[1] = "start"
        /\ <<"start", "getLead", "getScore">> # <<>>
    BY DEF Call
  <2>. QED
    BY <1>7, <2>1, <2>2, <2>3
<1>. QED
  BY <1>1, <1>2, <1>3, <1>4, <1>5, <1>6, <1>7

----------------------------------------------------------------------------
\* What a request has still to make after a call that returns.
LEMMA ThenFacts ==
  ASSUME Shapes, NEW r \in Requests, NEW call, Then(r, call, <<>>)
  PROVE  /\ op' = op /\ todo[r] \in Seq(Call) /\ Len(todo[r]) > 0 /\ todo[r][1] = call
         /\ todo' = [todo EXCEPT ![r] = Tail(todo[r])]
         /\ todo' \in [Requests -> Seq(Call)]
         /\ \A q \in Requests : Shaped(todo'[q], op[q])
         /\ Len(todo'[r]) = Len(todo[r]) - 1
         /\ \A i \in 1 .. Len(todo'[r]) : todo'[r][i] = todo[r][i + 1]
<1>1. todo[r] \in Seq(Call) /\ todo[r] # <<>> /\ Head(todo[r]) = call /\ Shaped(todo[r], op[r])
  BY DEF Then, At, Shapes
<1>2. /\ Tail(todo[r]) \in Seq(Call) /\ Shaped(Tail(todo[r]), op[r])
      /\ Len(Tail(todo[r])) = Len(todo[r]) - 1
      /\ \A i \in 1 .. Len(Tail(todo[r])) : Tail(todo[r])[i] = todo[r][i + 1]
  BY <1>1, ShapedTail
<1>3. <<>> \o Tail(todo[r]) = Tail(todo[r])
  BY <1>2, ConcatEmptySeq
<1>4. op' = op /\ todo' = [todo EXCEPT ![r] = Tail(todo[r])]
  BY <1>3 DEF Then
<1>5. /\ todo \in [Requests -> Seq(Call)]
      /\ \A q \in Requests : Shaped(todo[q], op[q])
  BY DEF Shapes
<1>6. todo'[r] = Tail(todo[r]) /\ todo' \in [Requests -> Seq(Call)]
      /\ \A q \in Requests : q # r => todo'[q] = todo[q]
  BY <1>2, <1>4, <1>5
<1>7. \A q \in Requests : Shaped(todo'[q], op[q])
  BY <1>2, <1>5, <1>6
<1>8. Len(todo[r]) > 0 /\ todo[r][1] = call
  BY <1>1
<1>. QED
  BY <1>1, <1>2, <1>4, <1>6, <1>7, <1>8

LEMMA ReturnFacts ==
  ASSUME Shapes, NEW r \in Requests, op' = op, todo' = [todo EXCEPT ![r] = <<>>]
  PROVE  /\ todo' \in [Requests -> Seq(Call)] /\ todo'[r] = <<>>
         /\ \A q \in Requests : Shaped(todo'[q], op[q])
<1>1. <<>> \in Seq(Call) /\ Len(<<>>) = 0
  OBVIOUS
<1>2. /\ todo \in [Requests -> Seq(Call)]
      /\ \A q \in Requests : Shaped(todo[q], op[q])
  BY DEF Shapes
<1>3. \A o : Shaped(<<>>, o)
  BY <1>1 DEF Shaped
<1>. QED
  BY <1>1, <1>2, <1>3

LEMMA MissFacts ==
  ASSUME Shapes, NEW r \in Requests, NEW call \in {"getLead", "getList", "getScore"},
         NEW a \in {"readLead", "readList", "readScore"},
         NEW b \in {"fillLead", "fillList", "fillScore"},
         b = "fillLead" => a = "readLead", b = "fillScore" => a = "readScore",
         Then(r, call, <<a, b>>)
  PROVE  /\ op' = op /\ todo[r] \in Seq(Call) /\ Len(todo[r]) > 0 /\ todo[r][1] = call
         /\ todo' \in [Requests -> Seq(Call)]
         /\ \A q \in Requests : Shaped(todo'[q], op[q])
         /\ \A q \in Requests : q # r => todo'[q] = todo[q]
         /\ todo'[r] # <<>> /\ todo'[r][1] = a
<1>1. todo[r] \in Seq(Call) /\ todo[r] # <<>> /\ Head(todo[r]) = call /\ Shaped(todo[r], op[r])
  BY DEF Then, At, Shapes
<1>2. Len(todo[r]) > 0 /\ todo[r][1] = call
  BY <1>1
<1> DEFINE t == <<a, b>> \o Tail(todo[r])
<1>3. t \in Seq(Call) /\ Shaped(t, op[r]) /\ t # <<>> /\ t[1] = a
  <2> DEFINE s == todo[r]
  <2>1. Tail(s) \in Seq(Call) /\ Len(Tail(s)) = Len(s) - 1 /\ Len(s) \in Nat /\ Len(s) > 0
        /\ \A i \in 1 .. Len(Tail(s)) : Tail(s)[i] = s[i + 1]
    BY <1>1, ShapedTail
  <2>2. a \in Call /\ b \in Call
    BY DEF Call
  <2> HIDE DEF s
  <2>3. t \in Seq(Call) /\ Len(t) = Len(s) + 1 /\ t[1] = a /\ t[2] = b
        /\ \A i \in 3 .. Len(t) : t[i] = s[i - 1]
    <3>1. PICK u \in Seq(Call) : u = Tail(s)
      BY <2>1
    <3>2. /\ <<a, b>> \o u \in Seq(Call) /\ Len(<<a, b>> \o u) = Len(u) + 2
          /\ (<<a, b>> \o u)[1] = a /\ (<<a, b>> \o u)[2] = b
      BY <2>2
    <3>3. \A i \in 3 .. Len(u) + 2 : (<<a, b>> \o u)[i] = u[i - 2]
      BY <2>2
    <3>4. t = <<a, b>> \o u
      BY <3>1 DEF s
    <3>5. Len(t) = Len(u) + 2 /\ \A i \in 3 .. Len(t) : t[i] = u[i - 2]
      BY <3>2, <3>3, <3>4
    <3>6. Len(u) = Len(s) - 1 /\ Len(s) \in Nat /\ \A i \in 1 .. Len(u) : u[i] = s[i + 1]
      BY <2>1, <3>1
    <3> HIDE DEF t
    <3>7. \A i \in 3 .. Len(t) : i - 2 \in 1 .. Len(u) /\ (i - 2) + 1 = i - 1
      BY <3>5, <3>6
    <3>. QED
      BY <3>2, <3>4, <3>5, <3>6, <3>7
  <2> HIDE DEF t
  <2>4. Shaped(t, op[r])
    <3>1. s \in Seq(Call) /\ s # <<>> /\ Shaped(s, op[r]) /\ s[1] \in {"getLead", "getList", "getScore"}
      BY <1>1, <1>2 DEF s
    <3>. QED
      BY <2>3, <3>1, ShapedMiss
  <2>. QED
    BY <2>1, <2>3, <2>4
<1>4. op' = op /\ todo' = [todo EXCEPT ![r] = t]
  BY DEF Then
<1> HIDE DEF t
<1>5. /\ todo \in [Requests -> Seq(Call)]
      /\ \A q \in Requests : Shaped(todo[q], op[q])
  BY DEF Shapes
<1>6. /\ todo'[r] = t /\ todo' \in [Requests -> Seq(Call)]
      /\ \A q \in Requests : q # r => todo'[q] = todo[q]
  BY <1>3, <1>4, <1>5
<1>7. \A q \in Requests : Shaped(todo'[q], op[q])
  BY <1>3, <1>5, <1>6
<1>8. todo'[r] # <<>> /\ todo'[r][1] = a
  BY <1>3, <1>6
<1>. QED
  BY <1>1, <1>2, <1>4, <1>6, <1>7, <1>8

\* The call a request makes next was preceded by what gave it its value.
LEMMA ThenAt ==
  ASSUME Shapes, NEW r \in Requests, NEW call, Then(r, call, <<>>)
  PROVE  /\ ~At(r, "start")'
         /\ At(r, "create")' => call = "start" /\ op[r] = "create"
         /\ At(r, "fillLead")' => call \in {"readLead", "create", "update"}
         /\ At(r, "fillScore")' => call \in {"readScore", "insertScore"}
         /\ \A q \in Requests : q # r => todo'[q] = todo[q]
<1>1. /\ todo[r] \in Seq(Call) /\ Len(todo[r]) > 0 /\ todo[r][1] = call
      /\ todo' = [todo EXCEPT ![r] = Tail(todo[r])] /\ todo' \in [Requests -> Seq(Call)]
      /\ Len(todo'[r]) = Len(todo[r]) - 1
      /\ \A i \in 1 .. Len(todo'[r]) : todo'[r][i] = todo[r][i + 1]
  BY ThenFacts
<1>2. todo \in [Requests -> Seq(Call)] /\ Shaped(todo[r], op[r])
  BY DEF Shapes
<1>3. ASSUME NEW x, At(r, x)'
      PROVE  ShapedAt(todo[r], op[r], 2) /\ todo[r][2] = x
  <2>1. todo'[r] \in Seq(Call) /\ todo'[r] # <<>> /\ Head(todo'[r]) = x
    BY <1>1, <1>3 DEF At
  <2>2. Len(todo'[r]) >= 1 /\ todo'[r][1] = x
    BY <2>1
  <2>. QED
    BY <1>1, <1>2, <2>2 DEF Shaped
<1>4. \A x : At(r, x)' => ShapedAt(todo[r], op[r], 2) /\ todo[r][2] = x
  BY <1>3
<1>5. \A q \in Requests : q # r => todo'[q] = todo[q]
  BY <1>1, <1>2
<1>6. ASSUME NEW s, NEW o, ShapedAt(s, o, 2)
      PROVE  /\ s[2] # "start"
             /\ s[2] = "create" => s[1] = "start" /\ o = "create"
             /\ s[2] = "fillLead" => s[1] \in {"readLead", "create", "update"}
             /\ s[2] = "fillScore" => s[1] \in {"readScore", "insertScore"}
  BY <1>6 DEF ShapedAt
<1>. QED
  BY <1>1, <1>4, <1>5, <1>6

\* What was owed is done or still owed.
LEMMA OwedAfter ==
  ASSUME Shapes, NEW r \in Requests, NEW call, Then(r, call, <<>>), NEW c \in Owed(r)
  PROVE  call \in DOMAIN Refresh /\ (c = Refresh[call] \/ c \in Owed(r)')
<1>1. /\ op' = op /\ todo[r] \in Seq(Call) /\ Len(todo[r]) > 0 /\ todo[r][1] = call
      /\ Len(todo'[r]) = Len(todo[r]) - 1 /\ todo' \in [Requests -> Seq(Call)]
      /\ \A i \in 1 .. Len(todo'[r]) : todo'[r][i] = todo[r][i + 1]
  BY ThenFacts
<1>2. /\ op[r] \in {"create", "update", "score"}
      /\ \A i \in 1 .. Len(todo[r]) : todo[r][i] \in DOMAIN Refresh
      /\ c \in {Refresh[todo[r][i]] : i \in 1 .. Len(todo[r])}
  BY DEF Owed
<1>3. Len(todo[r]) \in Nat /\ call \in DOMAIN Refresh
  BY <1>1, <1>2
<1>4. PICK i \in 1 .. Len(todo[r]) : c = Refresh[todo[r][i]]
  BY <1>2
<1>5. CASE i = 1
  BY <1>1, <1>3, <1>4, <1>5
<1>6. CASE i # 1
  <2>1. i - 1 \in 1 .. Len(todo'[r]) /\ todo'[r][i - 1] = todo[r][i]
    BY <1>1, <1>3, <1>6
  <2>2. \A k \in 1 .. Len(todo'[r]) : todo'[r][k] \in DOMAIN Refresh
    BY <1>1, <1>2, <1>3
  <2>3. c \in {Refresh[todo'[r][k]] : k \in 1 .. Len(todo'[r])}
    BY <1>4, <2>1
  <2>. QED
    BY <1>1, <1>2, <1>3, <2>2, <2>3 DEF Owed
<1>. QED
  BY <1>5, <1>6

\* A request that has written owes a refresh to each cache of what it wrote.
LEMMA WriteOwes ==
  ASSUME Shapes, NEW r \in Requests, NEW call, Then(r, call, <<>>)
  PROVE  /\ call \in {"create", "update"} => {"lead", "list"} \subseteq Owed(r)'
         /\ call = "insertScore" => "score" \in Owed(r)'
<1>1. /\ op' = op /\ todo[r] \in Seq(Call) /\ Len(todo[r]) > 0 /\ todo[r][1] = call
      /\ Len(todo'[r]) = Len(todo[r]) - 1 /\ Len(todo[r]) \in Nat
      /\ \A i \in 1 .. Len(todo'[r]) : todo'[r][i] = todo[r][i + 1]
  BY ThenFacts
<1>2. ShapedAt(todo[r], op[r], 1)
  BY <1>1 DEF Shapes, Shaped
<1>3. /\ "fillLead" \in DOMAIN Refresh /\ Refresh["fillLead"] = "lead"
      /\ "dropList" \in DOMAIN Refresh /\ Refresh["dropList"] = "list"
      /\ "dropScore" \in DOMAIN Refresh
      /\ "fillScore" \in DOMAIN Refresh /\ Refresh["fillScore"] = "score"
  BY DEF Refresh
<1>4. CASE call = "create"
  <2>1. op[r] = "create" /\ Len(todo[r]) = 3 /\ todo[r][2] = "fillLead" /\ todo[r][3] = "dropList"
    BY <1>1, <1>2, <1>4 DEF ShapedAt
  <2>2. Len(todo'[r]) = 2 /\ todo'[r][1] = "fillLead" /\ todo'[r][2] = "dropList"
    BY <1>1, <2>1
  <2>. QED
    BY <1>1, <1>3, <1>4, <2>1, <2>2 DEF Owed
<1>5. CASE call = "update"
  <2>1. /\ op[r] = "update" /\ Len(todo[r]) = 4
        /\ todo[r][2] = "fillLead" /\ todo[r][3] = "dropList" /\ todo[r][4] = "dropScore"
    BY <1>1, <1>2, <1>5 DEF ShapedAt
  <2>2. /\ Len(todo'[r]) = 3 /\ todo'[r][1] = "fillLead" /\ todo'[r][2] = "dropList"
        /\ todo'[r][3] = "dropScore"
    BY <1>1, <2>1
  <2>. QED
    BY <1>1, <1>3, <1>5, <2>1, <2>2 DEF Owed
<1>6. CASE call = "insertScore"
  <2>1. op[r] = "score" /\ Len(todo[r]) = 2 /\ todo[r][2] = "fillScore"
    BY <1>1, <1>2, <1>6 DEF ShapedAt
  <2>2. Len(todo'[r]) = 1 /\ todo'[r][1] = "fillScore"
    BY <1>1, <2>1
  <2>. QED
    BY <1>1, <1>3, <1>6, <2>1, <2>2 DEF Owed
<1>. QED
  BY <1>4, <1>5, <1>6

----------------------------------------------------------------------------
\* What every step does to the calls that are left.
LEMMA StepFacts ==
  ASSUME Shapes, NEW r \in Requests,
         Reading(r) \/ Writing(r) \/ Caching(r) \/ RefreshFails(r) \/ Abandon(r)
  PROVE  /\ op' = op /\ todo' \in [Requests -> Seq(Call)]
         /\ \A q \in Requests : Shaped(todo'[q], op[q])
         /\ \A q \in Requests : q # r => todo'[q] = todo[q]
<1>1. CASE \E call : Then(r, call, <<>>)
  BY <1>1, ThenFacts, ThenAt
<1>2. CASE op' = op /\ todo' = [todo EXCEPT ![r] = <<>>]
  BY <1>2, ReturnFacts DEF Shapes
<1>3. CASE GetLeadMiss(r)
  BY <1>3, MissFacts DEF GetLeadMiss
<1>4. CASE GetListMiss(r)
  BY <1>4, MissFacts DEF GetListMiss
<1>5. CASE GetScoreMiss(r)
  BY <1>5, MissFacts DEF GetScoreMiss
<1>6. CASE Reading(r)
  BY <1>1, <1>2, <1>3, <1>4, <1>5, <1>6 DEF Reading, Start, GetLeadHit, ReadLead, GetListHit,
     ReadList, GetScoreHit, ReadScore, Return
<1>7. CASE Writing(r)
  BY <1>1, <1>2, <1>7 DEF Writing, Create, Update, InsertScore, Return
<1>8. CASE Caching(r)
  BY <1>1, <1>8 DEF Caching, FillLead, FillList, FillScore, DropList, DropScore
<1>9. CASE RefreshFails(r)
  BY <1>1, <1>9 DEF RefreshFails
<1>10. CASE Abandon(r)
  BY <1>2, <1>10 DEF Abandon
<1>. QED
  BY <1>6, <1>7, <1>8, <1>9, <1>10

LEMMA TypeInit == Init => TypeOK
<1> SUFFICES ASSUME Init PROVE TypeOK
  OBVIOUS
<1>1. MaxFaults \in Nat /\ None \notin Nat
  BY NoneAssumption, FaultAssumption
<1>2. db \in Nat /\ rows \in Nat /\ rows \in 0 .. db /\ faults \in 0 .. MaxFaults
  BY <1>1 DEF Init
<1>3. leadCache \in {None} \cup 1 .. db /\ listCache \in {None} \cup 0 .. db
      /\ scoreCache \in {None} \cup 1 .. rows
  BY <1>2 DEF Init
<1>4. /\ \A r \in Requests : val[r] \in 0 .. db /\ score[r] \in 0 .. rows
      /\ finished \in 0 .. rows /\ floor \in [Requests -> 0 .. finished]
  BY <1>2 DEF Init
<1>5. {late, missed} \subseteq SUBSET {"lead", "list", "score"}
  BY DEF Init
<1>. QED
  BY <1>2, <1>3, <1>4, <1>5 DEF TypeOK

LEMMA ShapesInit == Init => Shapes
<1> SUFFICES ASSUME Init PROVE Shapes
  OBVIOUS
<1>1. /\ op \in [Requests -> DOMAIN Plan] /\ todo = [r \in Requests |-> Plan[op[r]]]
      /\ \A q, r \in Requests : op[q] = "create" /\ op[r] = "create" => q = r
      /\ val \in [Requests -> Nat] /\ score \in [Requests -> Nat]
  BY DEF Init
<1>2. ASSUME NEW r \in Requests PROVE todo[r] \in Seq(Call) /\ Shaped(todo[r], op[r])
  <2>1. op[r] \in DOMAIN Plan /\ todo[r] = Plan[op[r]]
    BY <1>1
  <2>. QED
    BY <2>1, ShapedPlan
<1>. QED
  BY <1>1, <1>2 DEF Shapes

LEMMA MemoriesInit == Init => Memories
<1> SUFFICES ASSUME Init PROVE Memories
  OBVIOUS
<1>1. ASSUME NEW r \in Requests PROVE Memory(r)
  <2>1. todo[r] = Plan[op[r]] /\ op[r] \in DOMAIN Plan
    BY DEF Init
  <2>2. todo[r] \in Seq(Call) /\ todo[r] # <<>> /\ todo[r][1] = "start"
    BY <2>1, ShapedPlan
  <2>3. Head(todo[r]) = "start"
    BY <2>2
  <2>4. score[r] = 0 /\ (op[r] = "create" => db = 0)
    BY DEF Init
  <2>. QED
    BY <2>3, <2>4 DEF Memory, At
<1>. QED
  BY <1>1, Zenon DEF Memories

LEMMA FreshInit == Init => FreshUnlessRaced
BY DEF Init, FreshUnlessRaced, Stale

LEMMA ScoreInit == Init => ScoreKeepsUp
BY NoneAssumption DEF Init, ScoreKeepsUp

\* What a step assigns has its type, and the caches hold what was committed.
LEMMA TypeNext ==
  ASSUME TypeOK, Shapes, Memories, Next
  PROVE  TypeOK' /\ Shapes'
<1>1. MaxFaults \in Nat /\ None \notin Nat
  BY NoneAssumption, FaultAssumption
<1> DEFINE Step(r) == Reading(r) \/ Writing(r) \/ Caching(r) \/ RefreshFails(r) \/ Abandon(r)
<1>2. ASSUME NEW r \in Requests, Step(r), val' \in [Requests -> Nat], score' \in [Requests -> Nat]
      PROVE  Shapes'
  <2>1. /\ op' = op /\ todo' \in [Requests -> Seq(Call)]
        /\ \A q \in Requests : Shaped(todo'[q], op[q])
    BY <1>2, StepFacts
  <2>. QED
    BY <1>2, <2>1 DEF Shapes
<1> USE DEF TypeOK, Fault
<1>3. val \in [Requests -> Nat] /\ score \in [Requests -> Nat]
  BY DEF Shapes
<1>4. ASSUME NEW r \in Requests, Start(r)
      PROVE  TypeOK' /\ Shapes'
  <2>1. floor' \in [Requests -> 0 .. finished]
    BY <1>4 DEF Start
  <2>. QED
    BY <1>2, <1>3, <1>4, <2>1 DEF Start, Reading, cacheVars
<1>5. ASSUME NEW r \in Requests, GetLeadHit(r) \/ ReadLead(r) \/ GetListHit(r) \/ ReadList(r)
      PROVE  TypeOK' /\ Shapes'
  <2>1. \E v \in 0 .. db : val' = [val EXCEPT ![r] = v]
    <3>1. db \in 0 .. db
      OBVIOUS
    <3>2. leadCache # None => leadCache \in 0 .. db
      OBVIOUS
    <3>3. listCache # None => listCache \in 0 .. db
      OBVIOUS
    <3>. QED
      BY <1>5, <3>1, <3>2, <3>3 DEF GetLeadHit, ReadLead, GetListHit, ReadList
  <2>2. val' \in [Requests -> Nat] /\ \A q \in Requests : val'[q] \in 0 .. db
    BY <1>3, <2>1
  <2>3. UNCHANGED <<db, rows, cacheVars, score, historyVars, faults>>
    BY <1>5 DEF GetLeadHit, ReadLead, GetListHit, ReadList
  <2>4. TypeOK'
    BY <2>2, <2>3 DEF cacheVars, historyVars
  <2>. QED
    BY <1>2, <1>3, <1>5, <2>2, <2>3, <2>4 DEF Reading
<1>6. ASSUME NEW r \in Requests, GetScoreHit(r) \/ ReadScore(r)
      PROVE  TypeOK' /\ Shapes'
  <2>1. \E v \in 0 .. rows : score' = [score EXCEPT ![r] = v]
    BY <1>1, <1>6 DEF GetScoreHit, ReadScore
  <2>2. score' \in [Requests -> Nat] /\ \A q \in Requests : score'[q] \in 0 .. rows
    BY <1>3, <2>1
  <2>3. UNCHANGED <<db, rows, cacheVars, val, historyVars, faults>>
    BY <1>6 DEF GetScoreHit, ReadScore
  <2>4. TypeOK'
    BY <2>2, <2>3 DEF cacheVars, historyVars
  <2>. QED
    BY <1>2, <1>3, <1>6, <2>2, <2>3, <2>4 DEF Reading
<1>7. ASSUME NEW r \in Requests, GetLeadMiss(r) \/ GetListMiss(r) \/ GetScoreMiss(r)
      PROVE  TypeOK' /\ Shapes'
  <2>1. /\ UNCHANGED <<db, rows, cacheVars, val, score, historyVars>>
        /\ faults' = faults \/ (faults < MaxFaults /\ faults' = faults + 1)
    BY <1>7 DEF GetLeadMiss, GetListMiss, GetScoreMiss
  <2>2. faults' \in 0 .. MaxFaults
    BY <1>1, <2>1
  <2>3. TypeOK'
    BY <2>1, <2>2 DEF cacheVars, historyVars
  <2>. QED
    BY <1>2, <1>3, <1>7, <2>1, <2>3 DEF Reading
<1>8. ASSUME NEW r \in Requests, Create(r)
      PROVE  TypeOK' /\ Shapes'
  <2>1. db = 0
    BY <1>8 DEF Create, Then, Memories, Memory
  <2>2. val' \in [Requests -> Nat] /\ \A q \in Requests : val'[q] \in 0 .. 1
    BY <1>3, <1>8, <2>1 DEF Create
  <2>3. db' = 1 /\ UNCHANGED <<rows, cacheVars, score, historyVars, faults>>
    BY <1>8 DEF Create
  <2>4. leadCache \in {None} /\ listCache \in {None} \cup 0 .. 1
    BY <2>1
  <2>5. TypeOK'
    BY <2>2, <2>3, <2>4 DEF cacheVars, historyVars
  <2>. QED
    BY <1>2, <1>3, <1>8, <2>2, <2>3, <2>5 DEF Writing
<1>9. ASSUME NEW r \in Requests, Update(r)
      PROVE  TypeOK' /\ Shapes'
  <2>1. /\ db' \in Nat /\ db <= db' /\ val' = [val EXCEPT ![r] = db']
        /\ UNCHANGED <<rows, cacheVars, score, historyVars, faults>>
    BY <1>9 DEF Update
  <2>2. val' \in [Requests -> Nat] /\ \A q \in Requests : val'[q] \in 0 .. db'
    BY <1>3, <2>1
  <2>3. leadCache \in {None} \cup 1 .. db' /\ listCache \in {None} \cup 0 .. db'
    BY <2>1
  <2>4. TypeOK'
    BY <2>1, <2>2, <2>3 DEF cacheVars, historyVars
  <2>. QED
    BY <1>2, <1>3, <1>9, <2>1, <2>2, <2>4 DEF Writing
<1>10. ASSUME NEW r \in Requests, InsertScore(r)
       PROVE  TypeOK' /\ Shapes'
  <2>1. /\ rows' = rows + 1 /\ score' = [score EXCEPT ![r] = rows']
        /\ UNCHANGED <<db, cacheVars, val, historyVars, faults>>
    BY <1>10 DEF InsertScore
  <2>2. score' \in [Requests -> Nat] /\ \A q \in Requests : score'[q] \in 0 .. rows'
    BY <1>3, <2>1
  <2>3. scoreCache \in {None} \cup 1 .. rows' /\ finished \in 0 .. rows' /\ rows' \in Nat
    BY <2>1
  <2>4. TypeOK'
    BY <2>1, <2>2, <2>3 DEF cacheVars, historyVars
  <2>. QED
    BY <1>2, <1>3, <1>10, <2>1, <2>2, <2>4 DEF Writing
<1>11. ASSUME NEW r \in Requests, FillLead(r) \/ FillList(r) \/ DropList(r) \/ DropScore(r)
       PROVE  TypeOK' /\ Shapes'
  <2>1. FillLead(r) => val[r] \in 1 .. db
    BY DEF FillLead, Then, Memories, Memory
  <2>2. leadCache' \in {None} \cup 1 .. db /\ listCache' \in {None} \cup 0 .. db
        /\ scoreCache' \in {None} \cup 1 .. rows
    BY <1>11, <2>1 DEF FillLead, FillList, DropList, DropScore
  <2>3. /\ UNCHANGED <<db, rows, val, score, finished, floor, missed, faults>>
        /\ late' \subseteq late \cup {"lead", "list"}
    BY <1>11 DEF FillLead, FillList, DropList, DropScore, LateIf, historyVars
  <2>4. TypeOK'
    BY <2>2, <2>3
  <2>. QED
    BY <1>2, <1>3, <1>11, <2>3, <2>4 DEF Caching
<1>12. ASSUME NEW r \in Requests, FillScore(r)
       PROVE  TypeOK' /\ Shapes'
  <2>1. score[r] \in 1 .. rows
    BY <1>12 DEF FillScore, Then, Memories, Memory
  <2>2. scoreCache' \in {None} \cup 1 .. rows /\ finished' \in 0 .. rows /\ finished <= finished'
    BY <1>12, <2>1 DEF FillScore
  <2>3. floor \in [Requests -> 0 .. finished']
    BY <2>2
  <2>4. /\ UNCHANGED <<db, rows, leadCache, listCache, val, score, floor, missed, faults>>
        /\ late' \subseteq late \cup {"score"}
    BY <1>12 DEF FillScore, LateIf
  <2>5. TypeOK'
    BY <2>2, <2>3, <2>4
  <2>. QED
    BY <1>2, <1>3, <1>12, <2>4, <2>5 DEF Caching
<1>13. ASSUME NEW r \in Requests, RefreshFails(r) \/ Abandon(r)
       PROVE  TypeOK' /\ Shapes'
  <2>1. UNCHANGED <<db, rows, cacheVars, val, score, finished, floor, late>>
    BY <1>13 DEF RefreshFails, Abandon
  <2>2. faults' \in 0 .. MaxFaults
    BY <1>1, <1>13 DEF RefreshFails, Abandon
  <2>3. /\ \A x \in DOMAIN Refresh : Refresh[x] \in {"lead", "list", "score"}
    BY DEF Refresh
  <2>4. Owed(r) \subseteq {"lead", "list", "score"}
    BY <2>3 DEF Owed
  <2>5. ASSUME RefreshFails(r), Owed(r) # {} PROVE Refresh[Head(todo[r])] \in {"lead", "list", "score"}
    <3>1. PICK call : Then(r, call, <<>>)
      BY <2>5 DEF RefreshFails
    <3>2. call \in DOMAIN Refresh
      BY <2>5, <3>1, OwedAfter
    <3>3. Head(todo[r]) = call
      BY <3>1 DEF Then, At
    <3>. QED
      BY <2>3, <3>2, <3>3
  <2>6. missed' \subseteq {"lead", "list", "score"}
    BY <1>13, <2>4, <2>5 DEF RefreshFails, Abandon
  <2>7. TypeOK'
    BY <2>1, <2>2, <2>6 DEF cacheVars
  <2>. QED
    BY <1>2, <1>3, <1>13, <2>1, <2>7
<1>14. ASSUME ExpireLead \/ ExpireScore
       PROVE  TypeOK' /\ Shapes'
  <2>1. /\ leadCache' \in {None, leadCache} /\ listCache' \in {None, listCache}
        /\ scoreCache' \in {None, scoreCache}
        /\ UNCHANGED <<db, rows, op, todo, val, score, historyVars, faults>>
    BY <1>14 DEF ExpireLead, ExpireScore
  <2>2. TypeOK'
    BY <2>1 DEF historyVars
  <2>3. Shapes'
    BY <2>1 DEF Shapes
  <2>. QED
    BY <2>2, <2>3
<1>. QED
  BY <1>4, <1>5, <1>6, <1>7, <1>8, <1>9, <1>10, <1>11, <1>12, <1>13, <1>14
     DEF Next, Reading, Writing, Caching

----------------------------------------------------------------------------
\* What a request has in memory fits the call it makes next.
LEMMA MemoriesNext ==
  ASSUME TypeOK, Shapes, Memories, Next
  PROVE  Memories'
<1> DEFINE Step(r) == Reading(r) \/ Writing(r) \/ Caching(r) \/ RefreshFails(r) \/ Abandon(r)
<1>1. /\ val \in [Requests -> Nat] /\ score \in [Requests -> Nat] /\ db \in Nat /\ rows \in Nat
      /\ None \notin Nat
      /\ \A q, r \in Requests : op[q] = "create" /\ op[r] = "create" => q = r
  BY NoneAssumption DEF Shapes, TypeOK
<1>2. ASSUME NEW r \in Requests, Step(r), NEW q \in Requests, q # r,
             val'[q] = val[q], score'[q] = score[q],
             db' = db \/ db # 0 \/ op[r] = "create"
      PROVE  Memory(q)'
  <2>1. op' = op /\ todo'[q] = todo[q]
    BY <1>2, StepFacts
  <2>2. Memory(q)
    BY DEF Memories
  <2>3. At(q, "create") => op[q] = "create"
    <3>1. todo[q] \in Seq(Call) /\ Shaped(todo[q], op[q])
      BY DEF Shapes
    <3>2. ASSUME At(q, "create") PROVE op[q] = "create"
      <4>1. Len(todo[q]) >= 1 /\ todo[q][1] = "create"
        BY <3>1, <3>2 DEF At
      <4>2. ShapedAt(todo[q], op[q], 1)
        BY <3>1, <4>1 DEF Shaped
      <4>. QED
        BY <4>1, <4>2 DEF ShapedAt
    <3>. QED
      BY <3>2
  <2>4. \A x : At(q, x)' <=> At(q, x)
    BY <2>1 DEF At
  <2>5. At(q, "create") \/ (At(q, "start") /\ op[q] = "create") => db' = 0
    BY <1>1, <1>2, <2>2, <2>3 DEF Memory
  <2>. QED
    BY <1>2, <2>1, <2>2, <2>4, <2>5 DEF Memory
<1>3. ASSUME NEW r \in Requests, NEW call, Then(r, call, <<>>),
             call = "start" => db' = db,
             call \in {"readLead", "create", "update"} => val'[r] >= 1,
             call \in {"readScore", "insertScore"} => score'[r] >= 1
      PROVE  Memory(r)'
  <2>1. /\ ~At(r, "start")'
        /\ At(r, "create")' => call = "start" /\ op[r] = "create"
        /\ At(r, "fillLead")' => call \in {"readLead", "create", "update"}
        /\ At(r, "fillScore")' => call \in {"readScore", "insertScore"}
    BY <1>3, ThenAt
  <2>2. call = "start" => At(r, "start")
    BY <1>3 DEF Then
  <2>3. At(r, "create")' => db' = 0
    BY <1>3, <2>1, <2>2 DEF Memories, Memory
  <2>. QED
    BY <1>3, <2>1, <2>3 DEF Memory
<1>4. ASSUME NEW r \in Requests, op' = op, todo'[r] = <<>>
      PROVE  Memory(r)'
  BY <1>4 DEF Memory, At
<1>5. ASSUME NEW r \in Requests, NEW a \in {"readLead", "readList", "readScore"},
             todo'[r] # <<>>, todo'[r] \in Seq(Call), todo'[r][1] = a
      PROVE  Memory(r)'
  <2>1. Head(todo'[r]) = a
    BY <1>5
  <2>. QED
    BY <1>5, <2>1 DEF Memory, At
<1>6. todo \in [Requests -> Seq(Call)]
  BY DEF Shapes
<1>7. ASSUME NEW r \in Requests, Start(r) \/ GetLeadHit(r) \/ GetListHit(r) \/ ReadList(r)
      PROVE  Memories'
  <2>1. PICK call \in {"start", "getLead", "getList", "readList"} : Then(r, call, <<>>)
    BY <1>7 DEF Start, GetLeadHit, GetListHit, ReadList
  <2>2. Memory(r)'
    BY <1>3, <1>7, <2>1 DEF Start, GetLeadHit, GetListHit, ReadList
  <2>3. db' = db /\ score' = score /\ \A q \in Requests : q # r => val'[q] = val[q]
    BY <1>1, <1>7 DEF Start, GetLeadHit, GetListHit, ReadList
  <2>. QED
    BY <1>2, <1>7, <2>2, <2>3 DEF Memories, Reading
<1>8. ASSUME NEW r \in Requests, ReadLead(r)
      PROVE  Memories'
  <2>1. Memory(r)'
    <3>1. CASE db = 0
      BY <1>4, <1>6, <1>8, <3>1 DEF ReadLead, Return
    <3>2. CASE db # 0
      <4>1. Then(r, "readLead", <<>>) /\ val'[r] >= 1
        BY <1>1, <1>8, <3>2 DEF ReadLead
      <4>. QED
        BY <1>3, <4>1
    <3>. QED
      BY <3>1, <3>2
  <2>2. db' = db /\ score' = score /\ \A q \in Requests : q # r => val'[q] = val[q]
    BY <1>1, <1>8 DEF ReadLead
  <2>. QED
    BY <1>2, <1>8, <2>1, <2>2 DEF Memories, Reading
<1>9. ASSUME NEW r \in Requests, GetScoreHit(r)
      PROVE  Memories'
  <2>1. Memory(r)'
    BY <1>3, <1>9 DEF GetScoreHit
  <2>2. db' = db /\ val' = val /\ \A q \in Requests : q # r => score'[q] = score[q]
    BY <1>1, <1>9 DEF GetScoreHit
  <2>. QED
    BY <1>2, <1>9, <2>1, <2>2 DEF Memories, Reading
<1>10. ASSUME NEW r \in Requests, ReadScore(r)
       PROVE  Memories'
  <2>1. Memory(r)'
    <3>1. CASE rows = 0
      BY <1>4, <1>6, <1>10, <3>1 DEF ReadScore, Return
    <3>2. CASE rows # 0
      <4>1. Then(r, "readScore", <<>>) /\ score'[r] >= 1
        BY <1>1, <1>10, <3>2 DEF ReadScore
      <4>. QED
        BY <1>3, <4>1
    <3>. QED
      BY <3>1, <3>2
  <2>2. db' = db /\ val' = val /\ \A q \in Requests : q # r => score'[q] = score[q]
    BY <1>1, <1>10 DEF ReadScore
  <2>. QED
    BY <1>2, <1>10, <2>1, <2>2 DEF Memories, Reading
<1>11. ASSUME NEW r \in Requests, GetLeadMiss(r) \/ GetListMiss(r) \/ GetScoreMiss(r)
       PROVE  Memories'
  <2>1. Memory(r)'
    <3>1. CASE GetLeadMiss(r)
      BY <1>5, <3>1, MissFacts DEF GetLeadMiss
    <3>2. CASE GetListMiss(r)
      BY <1>5, <3>2, MissFacts DEF GetListMiss
    <3>3. CASE GetScoreMiss(r)
      BY <1>5, <3>3, MissFacts DEF GetScoreMiss
    <3>. QED
      BY <1>11, <3>1, <3>2, <3>3
  <2>2. UNCHANGED <<db, val, score>>
    BY <1>11 DEF GetLeadMiss, GetListMiss, GetScoreMiss
  <2>. QED
    BY <1>2, <1>11, <2>1, <2>2 DEF Memories, Reading
<1>12. ASSUME NEW r \in Requests, Create(r)
       PROVE  Memories'
  <2>1. Then(r, "create", <<>>) /\ val'[r] >= 1
    BY <1>1, <1>12 DEF Create
  <2>2. Memory(r)'
    BY <1>3, <2>1
  <2>3. op[r] = "create"
    <3>1. todo[r] \in Seq(Call) /\ Len(todo[r]) > 0 /\ todo[r][1] = "create"
      BY <2>1, ThenFacts
    <3>2. ShapedAt(todo[r], op[r], 1)
      BY <3>1 DEF Shapes, Shaped
    <3>. QED
      BY <3>1, <3>2 DEF ShapedAt
  <2>4. score' = score /\ \A q \in Requests : q # r => val'[q] = val[q]
    BY <1>1, <1>12 DEF Create
  <2>. QED
    BY <1>2, <1>12, <2>2, <2>3, <2>4 DEF Memories, Writing
<1>13. ASSUME NEW r \in Requests, Update(r)
       PROVE  Memories'
  <2>1. Memory(r)'
    <3>1. CASE db = 0
      BY <1>4, <1>6, <1>13, <3>1 DEF Update, Return
    <3>2. CASE db # 0
      <4>1. Then(r, "update", <<>>) /\ val'[r] >= 1
        BY <1>1, <1>13, <3>2 DEF Update
      <4>. QED
        BY <1>3, <4>1
    <3>. QED
      BY <3>1, <3>2
  <2>2. /\ db # 0 \/ db' = db
        /\ score' = score /\ \A q \in Requests : q # r => val'[q] = val[q]
    BY <1>1, <1>13 DEF Update
  <2>. QED
    BY <1>2, <1>13, <2>1, <2>2 DEF Memories, Writing
<1>14. ASSUME NEW r \in Requests, InsertScore(r)
       PROVE  Memories'
  <2>1. Then(r, "insertScore", <<>>) /\ score'[r] >= 1
    BY <1>1, <1>14 DEF InsertScore
  <2>2. Memory(r)'
    BY <1>3, <2>1
  <2>3. db' = db /\ val' = val /\ \A q \in Requests : q # r => score'[q] = score[q]
    BY <1>1, <1>14 DEF InsertScore
  <2>. QED
    BY <1>2, <1>14, <2>2, <2>3 DEF Memories, Writing
<1>15. ASSUME NEW r \in Requests, Caching(r) \/ RefreshFails(r)
       PROVE  Memories'
  <2>1. PICK call \in {"fillLead", "fillList", "fillScore", "dropList", "dropScore"} :
          Then(r, call, <<>>)
    BY <1>15 DEF Caching, FillLead, FillList, FillScore, DropList, DropScore, RefreshFails
  <2>2. UNCHANGED <<db, val, score>>
    BY <1>15 DEF Caching, FillLead, FillList, FillScore, DropList, DropScore, RefreshFails
  <2>3. Memory(r)'
    BY <1>3, <2>1
  <2>. QED
    BY <1>2, <1>15, <2>2, <2>3 DEF Memories
<1>16. ASSUME NEW r \in Requests, Abandon(r)
       PROVE  Memories'
  <2>1. op' = op /\ todo'[r] = <<>> /\ UNCHANGED <<db, val, score>>
    BY <1>6, <1>16 DEF Abandon
  <2>2. Memory(r)'
    BY <1>4, <2>1
  <2>. QED
    BY <1>2, <1>16, <2>1, <2>2 DEF Memories
<1>17. ASSUME ExpireLead \/ ExpireScore
       PROVE  Memories'
  BY <1>17 DEF ExpireLead, ExpireScore, Memories, Memory, At
<1>. QED
  BY <1>7, <1>8, <1>9, <1>10, <1>11, <1>12, <1>13, <1>14, <1>15, <1>16, <1>17
     DEF Next, Reading, Writing

\* What is cached is up to date after a step, if the step owes or tells what it
\* leaves behind.
LEMMA FreshStep ==
  ASSUME FreshUnlessRaced, late \subseteq late', missed \subseteq missed',
         \A c \in {"lead", "list", "score"} :
           Stale(c)' =>
             \/ c \in late' \cup missed' \/ \E q \in Requests : c \in Owed(q)'
             \/ /\ Stale(c)
                /\ \A q \in Requests : c \in Owed(q) => c \in missed' \/ c \in Owed(q)'
  PROVE  FreshUnlessRaced'
BY DEF FreshUnlessRaced

LEMMA FreshNext ==
  ASSUME TypeOK, Shapes, FreshUnlessRaced, Next
  PROVE  FreshUnlessRaced'
<1> DEFINE Step(r) == Reading(r) \/ Writing(r) \/ Caching(r) \/ RefreshFails(r) \/ Abandon(r)
<1>1. ASSUME NEW r \in Requests, Step(r), NEW q \in Requests, q # r
      PROVE  Owed(q)' = Owed(q)
  <2>1. op' = op /\ todo'[q] = todo[q]
    BY <1>1, StepFacts
  <2>. QED
    BY <2>1 DEF Owed
<1>2. DOMAIN Refresh = {"fillLead", "dropList", "dropScore", "fillScore"}
      /\ Refresh["fillLead"] = "lead" /\ Refresh["dropList"] = "list"
      /\ Refresh["dropScore"] = "score" /\ Refresh["fillScore"] = "score"
  BY DEF Refresh
<1>3. ASSUME NEW r \in Requests, NEW call, At(r, call), call \notin DOMAIN Refresh
      PROVE  Owed(r) = {}
  <2>1. todo[r] \in Seq(Call) /\ todo[r] # <<>> /\ Head(todo[r]) = call
    BY <1>3 DEF Shapes, At
  <2>2. 1 \in 1 .. Len(todo[r]) /\ todo[r][1] = call
    BY <2>1
  <2>. QED
    BY <1>3, <2>2 DEF Owed
<1>4. ASSUME NEW r \in Requests, Reading(r)
      PROVE  FreshUnlessRaced'
  <2>1. PICK call \in {"start", "getLead", "readLead", "getList", "readList", "getScore", "readScore"} :
          At(r, call)
    BY <1>4 DEF Reading, Start, GetLeadHit, GetLeadMiss, ReadLead, GetListHit, GetListMiss,
       ReadList, GetScoreHit, GetScoreMiss, ReadScore, Then, Return
  <2>2. Owed(r) = {}
    BY <1>2, <1>3, <2>1
  <2>3. UNCHANGED <<db, rows, cacheVars, late, missed>>
    BY <1>4 DEF Reading, Start, GetLeadHit, GetLeadMiss, ReadLead, GetListHit, GetListMiss,
       ReadList, GetScoreHit, GetScoreMiss, ReadScore, historyVars
  <2>4. \A q \in Requests : Owed(q) \subseteq Owed(q)'
    BY <1>1, <1>4, <2>2
  <2>5. \A c : Stale(c)' = Stale(c)
    BY <2>3 DEF Stale, cacheVars
  <2>. QED
    BY <2>3, <2>4, <2>5, FreshStep
<1>5. ASSUME NEW r \in Requests, Writing(r)
      PROVE  FreshUnlessRaced'
  <2>1. PICK call \in {"create", "update", "insertScore"} : At(r, call)
    BY <1>5 DEF Writing, Create, Update, InsertScore, Then, Return
  <2>2. Owed(r) = {}
    BY <1>2, <1>3, <2>1
  <2>3. UNCHANGED <<cacheVars, late, missed>>
    BY <1>5 DEF Writing, Create, Update, InsertScore, historyVars
  <2>4. \A q \in Requests : Owed(q) \subseteq Owed(q)'
    BY <1>1, <1>5, <2>2
  <2>5. \/ UNCHANGED <<db, rows>>
        \/ rows' = rows /\ {"lead", "list"} \subseteq Owed(r)'
        \/ db' = db /\ "score" \in Owed(r)'
    <3>1. CASE Create(r)
      BY <3>1, WriteOwes DEF Create
    <3>2. CASE Update(r)
      BY <3>2, WriteOwes DEF Update
    <3>3. CASE InsertScore(r)
      BY <3>3, WriteOwes DEF InsertScore
    <3>. QED
      BY <1>5, <3>1, <3>2, <3>3 DEF Writing
  <2>6. \A c \in {"lead", "list", "score"} :
          Stale(c)' => c \in Owed(r)' \/ Stale(c)
    BY <2>3, <2>5 DEF Stale, cacheVars
  <2>. QED
    BY <2>3, <2>4, <2>6, FreshStep
<1>6. ASSUME NEW r \in Requests, NEW call, Then(r, call, <<>>), NEW c \in Owed(r)
      PROVE  call \in DOMAIN Refresh /\ (c = Refresh[call] \/ c \in Owed(r)')
  BY <1>6, OwedAfter
<1>7. ASSUME NEW r \in Requests, FillLead(r) \/ DropList(r) \/ FillList(r) \/ DropScore(r) \/ FillScore(r)
      PROVE  FreshUnlessRaced'
  <2>1. late \subseteq late' /\ missed' = missed /\ UNCHANGED <<db, rows>>
    BY <1>7 DEF FillLead, DropList, FillList, DropScore, FillScore, LateIf, historyVars
  <2>2. \A q \in Requests : q # r => Owed(q)' = Owed(q)
    BY <1>1, <1>7 DEF Caching
  <2>3. ASSUME NEW call, NEW d, Then(r, call, <<>>), call \in DOMAIN Refresh => d = Refresh[call],
               Stale(d)' => d \in late',
               \A c \in {"lead", "list", "score"} : c # d => Stale(c)' = Stale(c)
        PROVE  FreshUnlessRaced'
    <3>1. ASSUME NEW c \in {"lead", "list", "score"}, Stale(c)', c \notin late'
          PROVE  Stale(c) /\ \A q \in Requests : c \in Owed(q) => c \in Owed(q)'
      <4>1. c # d
        BY <2>3, <3>1
      <4>2. ASSUME c \in Owed(r) PROVE c \in Owed(r)'
        BY <1>6, <2>3, <4>1, <4>2
      <4>. QED
        BY <2>2, <2>3, <3>1, <4>1, <4>2
    <3>. QED
      BY <2>1, <3>1, FreshStep
  <2>4. CASE FillLead(r)
    <3>1. Then(r, "fillLead", <<>>) /\ (Stale("lead")' => "lead" \in late')
      BY <2>4 DEF FillLead, LateIf, Stale
    <3>2. \A c \in {"lead", "list", "score"} : c # "lead" => Stale(c)' = Stale(c)
      BY <2>4 DEF FillLead, Stale
    <3>. QED
      BY <1>2, <2>3, <3>1, <3>2
  <2>5. CASE DropList(r)
    <3>1. Then(r, "dropList", <<>>) /\ ~Stale("list")'
      BY <2>5 DEF DropList, Stale
    <3>2. \A c \in {"lead", "list", "score"} : c # "list" => Stale(c)' = Stale(c)
      BY <2>5 DEF DropList, Stale
    <3>. QED
      BY <1>2, <2>3, <3>1, <3>2
  <2>6. CASE FillList(r)
    <3>1. Then(r, "fillList", <<>>) /\ (Stale("list")' => "list" \in late')
      BY <2>6 DEF FillList, LateIf, Stale
    <3>2. \A c \in {"lead", "list", "score"} : c # "list" => Stale(c)' = Stale(c)
      BY <2>6 DEF FillList, Stale
    <3>. QED
      BY <1>2, <2>3, <3>1, <3>2
  <2>7. CASE DropScore(r)
    <3>1. Then(r, "dropScore", <<>>) /\ ~Stale("score")'
      BY <2>7 DEF DropScore, Stale
    <3>2. \A c \in {"lead", "list", "score"} : c # "score" => Stale(c)' = Stale(c)
      BY <2>7 DEF DropScore, Stale
    <3>. QED
      BY <1>2, <2>3, <3>1, <3>2
  <2>8. CASE FillScore(r)
    <3>1. Then(r, "fillScore", <<>>) /\ (Stale("score")' => "score" \in late')
      BY <2>8 DEF FillScore, LateIf, Stale
    <3>2. \A c \in {"lead", "list", "score"} : c # "score" => Stale(c)' = Stale(c)
      BY <2>8 DEF FillScore, Stale
    <3>. QED
      BY <1>2, <2>3, <3>1, <3>2
  <2>. QED
    BY <1>7, <2>4, <2>5, <2>6, <2>7, <2>8
<1>8. ASSUME NEW r \in Requests, RefreshFails(r)
      PROVE  FreshUnlessRaced'
  <2>1. PICK call : Then(r, call, <<>>)
    BY <1>8 DEF RefreshFails
  <2>2. /\ UNCHANGED <<db, rows, cacheVars, late>>
        /\ missed' = IF Owed(r) = {} THEN missed ELSE missed \cup {Refresh[call]}
    BY <1>8, <2>1 DEF RefreshFails, Then, At
  <2>3. \A c \in Owed(r) : c \in missed' \/ c \in Owed(r)'
    BY <1>6, <2>1, <2>2
  <2>4. \A q \in Requests : q # r => Owed(q)' = Owed(q)
    BY <1>1, <1>8
  <2>5. \A c : Stale(c)' = Stale(c)
    BY <2>2 DEF Stale, cacheVars
  <2>6. late \subseteq late' /\ missed \subseteq missed'
    BY <2>2
  <2>. QED
    BY <2>3, <2>4, <2>5, <2>6, FreshStep
<1>9. ASSUME NEW r \in Requests, Abandon(r)
      PROVE  FreshUnlessRaced'
  <2>1. UNCHANGED <<db, rows, cacheVars, late>> /\ missed' = missed \cup Owed(r)
    BY <1>9 DEF Abandon
  <2>2. \A q \in Requests : q # r => Owed(q)' = Owed(q)
    BY <1>1, <1>9
  <2>3. \A c : Stale(c)' = Stale(c)
    BY <2>1 DEF Stale, cacheVars
  <2>4. late \subseteq late' /\ missed \subseteq missed' /\ \A c \in Owed(r) : c \in missed'
    BY <2>1
  <2>. QED
    BY <2>2, <2>3, <2>4, FreshStep
<1>10. ASSUME ExpireLead \/ ExpireScore
       PROVE  FreshUnlessRaced'
  <2>1. UNCHANGED <<db, rows, op, todo, late, missed>>
    BY <1>10 DEF ExpireLead, ExpireScore, historyVars
  <2>2. \A q \in Requests : Owed(q)' = Owed(q)
    BY <2>1 DEF Owed
  <2>3. \A c : Stale(c)' => Stale(c)
    BY <1>10, <2>1 DEF ExpireLead, ExpireScore, Stale
  <2>. QED
    BY <2>1, <2>2, <2>3, FreshStep
<1>. QED
  BY <1>4, <1>5, <1>7, <1>8, <1>9, <1>10 DEF Next, Caching

----------------------------------------------------------------------------
LEMMA ScoreNext ==
  ASSUME TypeOK, Shapes, Memories, ScoreKeepsUp, Next
  PROVE  ScoreKeepsUp'
<1>1. /\ score \in [Requests -> Nat] /\ rows \in Nat /\ finished \in 0 .. rows
      /\ floor \in [Requests -> 0 .. finished] /\ None \notin Nat
      /\ scoreCache \in {None} \cup 1 .. rows
      /\ \A r \in Requests : score[r] \in 0 .. rows
  BY NoneAssumption DEF Shapes, TypeOK
<1> DEFINE Up == "score" \notin late \cup missed
           Cached == scoreCache # None => scoreCache >= finished
           Read(r) == op[r] = "latest" /\ score[r] # 0 => score[r] >= floor[r]
<1>2. Up => Cached /\ \A r \in Requests : Read(r)
  BY DEF ScoreKeepsUp
<1>3. SUFFICES ASSUME Up' PROVE Cached' /\ \A r \in Requests : Read(r)'
  BY DEF ScoreKeepsUp
<1>4. ASSUME late \subseteq late', missed \subseteq missed'
      PROVE  Cached /\ \A r \in Requests : Read(r)
  BY <1>2, <1>3, <1>4
<1>5. CASE /\ UNCHANGED <<op, score, floor, finished>>
           /\ scoreCache' \in {None, scoreCache}
           /\ late \subseteq late' /\ missed \subseteq missed'
  BY <1>4, <1>5
<1>6. ASSUME NEW r \in Requests, Start(r)
      PROVE  Cached' /\ \A q \in Requests : Read(q)'
  <2>1. score[r] = 0
    BY <1>6 DEF Start, Then, Memories, Memory
  <2>2. /\ op' = op /\ UNCHANGED <<score, scoreCache, finished, late, missed>>
        /\ floor' = [floor EXCEPT ![r] = finished]
    BY <1>6 DEF Start, Then, cacheVars
  <2>. QED
    BY <1>1, <1>4, <2>1, <2>2
<1>7. ASSUME NEW r \in Requests, GetScoreHit(r) \/ ReadScore(r)
      PROVE  Cached' /\ \A q \in Requests : Read(q)'
  <2>1. /\ op' = op /\ UNCHANGED <<rows, scoreCache, finished, floor, late, missed>>
    BY <1>7 DEF GetScoreHit, ReadScore, Then, Return, cacheVars, historyVars
  <2>2. Cached /\ \A q \in Requests : Read(q)
    BY <1>4, <2>1
  <2>3. PICK s \in Nat : s >= finished /\ score' = [score EXCEPT ![r] = s]
    <3>1. CASE GetScoreHit(r)
      <4>1. scoreCache # None /\ score' = [score EXCEPT ![r] = scoreCache]
        BY <3>1 DEF GetScoreHit
      <4>2. scoreCache \in Nat /\ scoreCache >= finished
        BY <1>1, <2>2, <4>1
      <4>. QED
        BY <4>1, <4>2
    <3>2. CASE ReadScore(r)
      <4>1. score' = [score EXCEPT ![r] = rows] /\ rows \in Nat /\ rows >= finished
        BY <1>1, <3>2 DEF ReadScore
      <4>. QED
        BY <4>1
    <3>. QED
      BY <1>7, <3>1, <3>2
  <2>. QED
    BY <1>1, <2>1, <2>2, <2>3
<1>8. ASSUME NEW r \in Requests, InsertScore(r)
      PROVE  Cached' /\ \A q \in Requests : Read(q)'
  <2>1. Then(r, "insertScore", <<>>)
    BY <1>8 DEF InsertScore
  <2>2. todo[r] \in Seq(Call) /\ Len(todo[r]) > 0 /\ todo[r][1] = "insertScore" /\ op' = op
    BY <2>1, ThenFacts
  <2>3. ShapedAt(todo[r], op[r], 1)
    BY <2>2 DEF Shapes, Shaped
  <2>4. op[r] = "score"
    BY <2>2, <2>3 DEF ShapedAt
  <2>5. /\ UNCHANGED <<scoreCache, finished, floor, late, missed>>
        /\ \A q \in Requests : q # r => score'[q] = score[q]
    BY <1>1, <1>8 DEF InsertScore, cacheVars, historyVars
  <2>. QED
    BY <1>1, <1>4, <2>2, <2>4, <2>5
<1>9. ASSUME NEW r \in Requests, FillScore(r)
      PROVE  Cached' /\ \A q \in Requests : Read(q)'
  <2>1. /\ op' = op /\ UNCHANGED <<rows, score, floor, missed>> /\ scoreCache' = score[r]
        /\ finished' = IF op[r] = "score" /\ score[r] > finished THEN score[r] ELSE finished
        /\ late' = IF score[r] # rows THEN late \cup {"score"} ELSE late
    BY <1>9 DEF FillScore, LateIf, Then
  <2>2. score[r] = rows
    BY <1>3, <2>1
  <2>. QED
    BY <1>1, <1>4, <2>1, <2>2
<1>10. ASSUME NEW r \in Requests,
              \/ GetLeadHit(r) \/ GetLeadMiss(r) \/ ReadLead(r) \/ GetListHit(r) \/ GetListMiss(r)
              \/ ReadList(r) \/ GetScoreMiss(r)
       PROVE  Cached' /\ \A q \in Requests : Read(q)'
  BY <1>5, <1>10 DEF GetLeadHit, GetLeadMiss, ReadLead, GetListHit, GetListMiss, ReadList,
     GetScoreMiss, Then, Return, cacheVars, historyVars
<1>11. ASSUME NEW r \in Requests, Create(r) \/ Update(r)
       PROVE  Cached' /\ \A q \in Requests : Read(q)'
  BY <1>5, <1>11 DEF Create, Update, Then, Return, cacheVars, historyVars
<1>12. ASSUME NEW r \in Requests, FillLead(r) \/ FillList(r) \/ DropList(r) \/ DropScore(r)
       PROVE  Cached' /\ \A q \in Requests : Read(q)'
  BY <1>5, <1>12 DEF FillLead, FillList, DropList, DropScore, Then, LateIf, historyVars
<1>13. ASSUME NEW r \in Requests, RefreshFails(r) \/ Abandon(r)
       PROVE  Cached' /\ \A q \in Requests : Read(q)'
  BY <1>5, <1>13 DEF RefreshFails, Abandon, Then, cacheVars
<1>14. ASSUME ExpireLead \/ ExpireScore
       PROVE  Cached' /\ \A q \in Requests : Read(q)'
  BY <1>5, <1>14 DEF ExpireLead, ExpireScore, historyVars
<1>. QED
  BY <1>6, <1>7, <1>8, <1>9, <1>10, <1>11, <1>12, <1>13, <1>14 DEF Next, Reading, Writing, Caching

----------------------------------------------------------------------------
\* What requests hold, owe and have read is the inductive invariant of the
\* caches.
THEOREM InductiveInvariant == Spec => []IInv
<1>1. Init => IInv
  BY TypeInit, ShapesInit, MemoriesInit, FreshInit, ScoreInit DEF IInv
<1>2. IInv /\ [Next]_vars => IInv'
  <2> SUFFICES ASSUME IInv, [Next]_vars PROVE IInv'
    OBVIOUS
  <2>1. CASE Next
    BY <2>1, TypeNext, MemoriesNext, FreshNext, ScoreNext DEF IInv
  <2>2. CASE UNCHANGED vars
    BY <2>2 DEF vars, cacheVars, historyVars, IInv, TypeOK, Shapes, Memories, Memory, At,
       FreshUnlessRaced, Stale, Owed, ScoreKeepsUp
  <2>. QED
    BY <2>1, <2>2
<1>. QED
  BY <1>1, <1>2, PTL DEF Spec

\* Every variable keeps its type: a cache never holds what was not committed.
THEOREM TypeCorrect == Spec => []TypeOK
<1>1. IInv => TypeOK
  BY DEF IInv
<1>. QED
  BY <1>1, InductiveInvariant, PTL

\* No operation forgets a cache: a stale entry was raced, missed, or is still
\* owed by the request that wrote.
THEOREM FreshUnlessRacedHolds == Spec => []FreshUnlessRaced
<1>1. IInv => FreshUnlessRaced
  BY DEF IInv
<1>. QED
  BY <1>1, InductiveInvariant, PTL

\* Who asks for the latest score after a score job is done gets no older one,
\* unless the score cache was raced or missed.
THEOREM RefreshSeesScoreHolds == Spec => []RefreshSeesScore
<1>1. IInv => RefreshSeesScore
  BY DEF IInv, ScoreKeepsUp, RefreshSeesScore, Answered
<1>. QED
  BY <1>1, InductiveInvariant, PTL
===============================================================================

-------------------------- MODULE Admission_proofs --------------------------
(***************************************************************************)
(* Proofs about Admission, for any number of clients, templates, accounts  *)
(* and requests: who may change a workspace, that its spec obeys the       *)
(* template it was checked against, that its volume does not shrink, that  *)
(* defaulting is idempotent, what a stored workspace holds, that the       *)
(* operator is not locked out, and that the three steps of a write amount  *)
(* to the one step of AdmissionContract.                                   *)
(***************************************************************************)
EXTENDS Admission, TLAPS

-----------------------------------------------------------------------------
(* The inductive invariant *)

IsWorkspace(w) ==
  /\ w = [f \in DOMAIN Blank |-> w[f]]
  /\ w.deleting \in BOOLEAN
  /\ w.storage \in Size

IsRequest(p) == p = [f \in {"stage", "old", "seen", "new"} |-> p[f]]

\* Two workspaces that no rule of a template tells apart.
RuleFields == {"image", "resources", "storage", "volumes", "initContainers", "env", "idle"}
SameToRules(v, w) == \A f \in RuleFields : v[f] = w[f]

\* What admission of an update by a client says about who owns the workspace.
Permitted(old, new, client) ==
  client \in Privileged
    \/ (/\ old.ownership = "OwnerOnly" => old.owner = client
        /\ old.owner # None => new.owner = old.owner)

\* What it says about the template: the new spec was checked, or the rules see no change.
Vetted(p, client) ==
  /\ p.seen # None => SpecComplies(p.new, p.seen)
  /\ p.seen = None /\ p.new.templateRef # None =>
       p.old # None /\ (client \in Privileged \/ SameToRules(p.old, p.new))

Underway(p, client) ==
  /\ IsRequest(p) /\ IsWorkspace(p.new)
  /\ p.old # None => IsWorkspace(p.old) /\ p.new.deleting = p.old.deleting
  /\ p.old = None => p.new.deleting = FALSE
  /\ p.stage # "default" /\ ~p.new.deleting => p.new.updatedBy = client
  /\ p.stage = "store" /\ ~p.new.deleting =>
       /\ p.old # None => Permitted(p.old, p.new, client)
       /\ Vetted(p, client)

\* A size that a claim of that size does not forbid.
Holds(w, size) == w.storage \notin {None, 0} => w.storage >= size

Grows(p, client, size) ==
  p.stage = "store" /\ p.old # None /\ ~p.new.deleting /\ client \notin Privileged
    => Holds(p.new, size)

Shapes ==
  /\ ws # None => IsWorkspace(ws)
  /\ pending = [c \in Clients |-> pending[c]]
  /\ \A c \in Clients : pending[c] # None => Underway(pending[c], c)
  /\ templates = [k \in Keys |-> templates[k]]
  /\ \A k \in Keys : templates[k] # None => Sized(templates[k])
  /\ claim \in Nat /\ copy \in Size /\ exempt \in BOOLEAN

Volume ==
  /\ ws = None => claim = 0 /\ copy = None
  /\ ~exempt => /\ ws # None /\ ~ws.deleting => Holds(ws, claim)
                /\ \A c \in Clients : pending[c] # None => Grows(pending[c], c, claim)

\* None stands for no workspace and no template as long as it is not itself a record.
NoneApart == \A f : f = [x \in DOMAIN f |-> f[x]] => f # None

IInv == Shapes /\ CheckedSpecKept /\ (NoneApart => Volume)

-----------------------------------------------------------------------------
(* Facts about workspaces *)

Stamps == {"owner", "updatedBy", "deleting"}

\* The fields the proofs speak of are fields of a workspace.
LEMMA FieldNames ==
  /\ Stamps \subseteq DOMAIN Blank
  /\ RuleFields \subseteq DOMAIN Blank
  /\ {"desired", "templateRef", "ownership", "access", "container", "scheduling", "strategy",
      "lifecycle", "readiness", "security", "account", "labels"} \subseteq DOMAIN Blank
BY DEF Blank, Stamps, RuleFields

\* A workspace is something.
LEMMA SomeWorkspace ==
  ASSUME NoneApart, NEW w, IsWorkspace(w)
  PROVE  w # None
<1>1. DOMAIN w = DOMAIN Blank BY Zenon DEF IsWorkspace
<1>2. w = [f \in DOMAIN w |-> w[f]] BY Zenon, <1>1 DEF IsWorkspace
<1> QED BY Zenon, <1>2 DEF NoneApart

\* A blank workspace is one.
LEMMA BlankShape == IsWorkspace(Blank) /\ Blank.deleting = FALSE
BY Zenon DEF IsWorkspace, Blank, Size

\* The rules speak of RuleFields only.
LEMMA RulesSee ==
  ASSUME NEW v, NEW w, NEW t, SameToRules(v, w)
  PROVE  SpecComplies(v, t) => SpecComplies(w, t)
<1>1. /\ v.image = w.image /\ v.resources = w.resources /\ v.storage = w.storage
      /\ v.volumes = w.volumes /\ v.initContainers = w.initContainers
      /\ v.env = w.env /\ v.idle = w.idle
  BY Zenon DEF SameToRules, RuleFields
<1>2. ValidateImageAllowed(v, t) => ValidateImageAllowed(w, t)
  BY Zenon, <1>1 DEF ValidateImageAllowed
<1>3. ValidateResourceBounds(v, t) => ValidateResourceBounds(w, t)
  BY Zenon, <1>1 DEF ValidateResourceBounds
<1>4. ValidateStorageSize(v, t) => ValidateStorageSize(w, t)
  BY Zenon, <1>1 DEF ValidateStorageSize
<1>5. ValidateSecondaryStorages(v, t) => ValidateSecondaryStorages(w, t)
  BY Zenon, <1>1 DEF ValidateSecondaryStorages
<1>6. ValidateInitContainers(v, t) => ValidateInitContainers(w, t)
  BY Zenon, <1>1 DEF ValidateInitContainers
<1>7. ValidateEnvRequirements(v, t) => ValidateEnvRequirements(w, t)
  BY Zenon, <1>1 DEF ValidateEnvRequirements
<1>8. ValidateIdleShutdownOverrides(v, t) => ValidateIdleShutdownOverrides(w, t)
  BY Zenon, <1>1, Zenon DEF ValidateIdleShutdownOverrides
<1> QED
  BY Zenon, <1>2, <1>3, <1>4, <1>5, <1>6, <1>7, <1>8 DEF SpecComplies

\* A spec that is unchanged, or changed in desiredStatus only, looks the same to the rules.
LEMMA SameSpec ==
  ASSUME NEW v, NEW w, IsWorkspace(v), IsWorkspace(w),
         SpecOf(v) = SpecOf(w) \/ OnlyDesiredStatusChanged(v, w)
  PROVE  SameToRules(v, w)
<1>1. DOMAIN v = DOMAIN Blank /\ DOMAIN w = DOMAIN Blank
  BY Zenon DEF IsWorkspace
<1>2. \A f \in RuleFields : f \in DOMAIN Blank \ Metadata /\ f # "desired"
  BY Zenon, FieldNames DEF RuleFields, Metadata
<1>3. CASE SpecOf(v) = SpecOf(w)
  <2>1. \A f \in DOMAIN Blank \ Metadata : SpecOf(v)[f] = v[f] /\ SpecOf(w)[f] = w[f]
    BY Zenon, <1>1 DEF SpecOf
  <2> QED BY Zenon, <1>2, <1>3, <2>1 DEF SameToRules
<1>4. CASE OnlyDesiredStatusChanged(v, w)
  <2> DEFINE u == [v EXCEPT !.desired = w.desired]
  <2>1. DOMAIN u = DOMAIN Blank
    BY Zenon, <1>1
  <2>2. \A f \in DOMAIN Blank \ {"desired"} : u[f] = v[f]
    BY Zenon, <1>1
  <2>3. SpecOf(u) = SpecOf(w)
    BY Zenon, <1>4 DEF OnlyDesiredStatusChanged
  <2> HIDE DEF u
  <2>4. \A f \in DOMAIN Blank \ Metadata : SpecOf(u)[f] = u[f] /\ SpecOf(w)[f] = w[f]
    BY Zenon, <1>1, <2>1 DEF SpecOf
  <2> QED BY Zenon, <1>2, <2>2, <2>3, <2>4 DEF SameToRules
<1> QED BY Zenon, <1>3, <1>4

-----------------------------------------------------------------------------
(* What defaulting leaves alone *)

Kept(v, w) == IsWorkspace(w) /\ \A f \in Stamps : w[f] = v[f]

\* Steps of defaulting that keep the stamps, one after the other, keep them.
LEMMA KeptTrans ==
  ASSUME NEW u, NEW v, NEW w, Kept(u, v), Kept(v, w)
  PROVE  Kept(u, w)
BY Zenon DEF Kept

\* Setting one field keeps the stamps.
LEMMA SetKept ==
  ASSUME NEW w, IsWorkspace(w), NEW field \in DOMAIN Blank \ Stamps, NEW value,
         field = "storage" => value \in Size
  PROVE  Kept(w, [w EXCEPT ![field] = value])
<1> DEFINE u == [w EXCEPT ![field] = value]
<1>1. DOMAIN w = DOMAIN Blank
  BY Zenon DEF IsWorkspace
<1>2. u = [f \in DOMAIN Blank |-> u[f]]
  BY Zenon, <1>1
<1>3. \A f \in DOMAIN Blank : u[f] = IF f = field THEN value ELSE w[f]
  BY Zenon, <1>1
<1>4. \A f \in Stamps : u[f] = w[f]
  BY Zenon, <1>3, FieldNames
<1>5. u.deleting \in BOOLEAN
  BY Zenon, <1>4 DEF Stamps, IsWorkspace
<1>6. u.storage \in Size
  BY Zenon, <1>3, FieldNames DEF RuleFields, IsWorkspace
<1> HIDE DEF u
<1>7. Kept(w, u)
  BY Zenon, <1>2, <1>4, <1>5, <1>6 DEF Kept, IsWorkspace
<1> QED BY Zenon, <1>7 DEF u

\* Filling in a field keeps the stamps.
LEMMA FillKept ==
  ASSUME NEW w, IsWorkspace(w), NEW field \in DOMAIN Blank \ Stamps, NEW value,
         field = "storage" => value \in Size
  PROVE  Kept(w, Fill(w, field, value))
<1>1. Kept(w, w) BY Zenon DEF Kept
<1> QED BY Zenon, <1>1, SetKept DEF Fill

\* The fields defaulting fills in are not the stamps.
LEMMA NoStamp ==
  {"image", "resources", "storage", "volumes", "initContainers", "env", "idle",
   "desired", "templateRef", "ownership", "access", "container", "scheduling", "strategy",
   "lifecycle", "readiness", "security", "account", "labels"} \subseteq DOMAIN Blank \ Stamps
BY Zenon, FieldNames DEF Stamps, RuleFields

\* The fields that are filled in when they are empty, from the template's field of that name.
Filled == {"image", "ownership", "container", "access", "resources", "volumes", "scheduling",
           "strategy", "lifecycle", "idle", "readiness", "security", "initContainers"}
Other == {"storage", "labels", "env"}

StorageAfter(size, t) ==
  IF t.storage # None /\ size \in {None, 0} /\ t.storage.size # 0 THEN t.storage.size ELSE size

\* w is u after the template has been applied to some of the fields.
Partly(u, w, t, fields) ==
  /\ IsWorkspace(w)
  /\ \A f \in DOMAIN Blank \ fields : w[f] = u[f]
  /\ \A f \in Filled \cap fields : w[f] = IF u[f] = None THEN t[f] ELSE u[f]
  /\ "storage" \in fields => w.storage = StorageAfter(u.storage, t)
  /\ "labels" \in fields => w.labels = Over(u.labels, t.baseLabels)
  /\ "env" \in fields => w.env = Over(u.env, t.baseEnv)

\* The fields a template fills in are no stamps, and of one kind each.
LEMMA FilledNames ==
  /\ Filled \cup Other \subseteq DOMAIN Blank \ Stamps
  /\ Filled \cap Other = {}
BY Zenon, NoStamp DEF Filled, Other

\* One more field is treated by setting it to what the template makes of it.
LEMMA PartlySet ==
  ASSUME NEW u, NEW w, NEW t, NEW fields, Partly(u, w, t, fields),
         NEW field \in Filled \cup Other, field \notin fields, NEW value,
         field \in Filled => value = IF u[field] = None THEN t[field] ELSE u[field],
         field = "storage" => value \in Size /\ value = StorageAfter(u.storage, t),
         field = "labels" => value = Over(u.labels, t.baseLabels),
         field = "env" => value = Over(u.env, t.baseEnv)
  PROVE  Partly(u, [w EXCEPT ![field] = value], t, fields \cup {field})
<1> DEFINE x == [w EXCEPT ![field] = value]
<1>1. IsWorkspace(x)
  BY Zenon, SetKept, FilledNames DEF Partly, Kept
<1>2. DOMAIN w = DOMAIN Blank
  BY Zenon DEF Partly, IsWorkspace
<1>3. \A f \in DOMAIN Blank : x[f] = IF f = field THEN value ELSE w[f]
  BY Zenon, <1>2
<1> HIDE DEF x
<1>4. \A f \in DOMAIN Blank \ (fields \cup {field}) : x[f] = u[f]
  BY Zenon, <1>3 DEF Partly
<1>5. \A f \in Filled \cap (fields \cup {field}) : x[f] = IF u[f] = None THEN t[f] ELSE u[f]
  BY Zenon, <1>3, FilledNames DEF Partly
<1>6. /\ "storage" \in fields \cup {field} => x.storage = StorageAfter(u.storage, t)
      /\ "labels" \in fields \cup {field} => x.labels = Over(u.labels, t.baseLabels)
      /\ "env" \in fields \cup {field} => x.env = Over(u.env, t.baseEnv)
  BY Zenon, <1>3, FilledNames DEF Partly, Other
<1>7. Partly(u, x, t, fields \cup {field})
  BY Zenon, <1>1, <1>4, <1>5, <1>6 DEF Partly
<1> QED BY Zenon, <1>7 DEF x

\* Setting a field to what it is changes nothing.
LEMMA SameField ==
  ASSUME NEW w, IsWorkspace(w), NEW field \in DOMAIN Blank
  PROVE  [w EXCEPT ![field] = w[field]] = w
<1>1. w = [f \in DOMAIN Blank |-> w[f]]
  BY Zenon DEF IsWorkspace
<1> QED BY Zenon, <1>1

\* One more field is treated by filling it in.
LEMMA PartlyFill ==
  ASSUME NEW u, NEW w, NEW t, NEW fields, Partly(u, w, t, fields),
         NEW field \in Filled, field \notin fields
  PROVE  Partly(u, Fill(w, field, t[field]), t, fields \cup {field})
<1>1. w[field] = u[field] /\ field \in DOMAIN Blank /\ field \notin Other
  BY Zenon, FilledNames DEF Partly
<1>2. CASE u[field] = None
  <2>1. Fill(w, field, t[field]) = [w EXCEPT ![field] = t[field]]
    BY Zenon, <1>1, <1>2 DEF Fill
  <2>2. Partly(u, [w EXCEPT ![field] = t[field]], t, fields \cup {field})
    BY Zenon, <1>1, <1>2, PartlySet DEF Other
  <2> QED BY Zenon, <2>1, <2>2
<1>3. CASE u[field] # None
  <2>1. Fill(w, field, t[field]) = w
    BY Zenon, <1>1, <1>3 DEF Fill
  <2>2. [w EXCEPT ![field] = u[field]] = w
    BY Zenon, <1>1, SameField DEF Partly
  <2>3. Partly(u, [w EXCEPT ![field] = u[field]], t, fields \cup {field})
    BY Zenon, <1>1, <1>3, PartlySet DEF Other
  <2> QED BY Zenon, <2>1, <2>2, <2>3
<1> QED BY Zenon, <1>2, <1>3

\* One more field is treated: the size of the volume.
LEMMA PartlyStorage ==
  ASSUME NEW u, NEW w, NEW t, NEW fields, Partly(u, w, t, fields), Sized(t),
         "storage" \notin fields
  PROVE  Partly(u, ApplyStorageDefaults(w, t), t, fields \cup {"storage"})
<1>1. w.storage = u.storage /\ "storage" \in DOMAIN Blank /\ "storage" \in Other
  BY Zenon, FilledNames DEF Partly, Other
<1>2. w.storage \in Size
  BY Zenon DEF Partly, IsWorkspace
<1>3. StorageAfter(u.storage, t) \in Size
  BY Zenon, <1>1, <1>2 DEF StorageAfter, Sized, Size
<1>4. Partly(u, [w EXCEPT !["storage"] = StorageAfter(u.storage, t)], t, fields \cup {"storage"})
  BY Zenon, <1>1, <1>3, PartlySet, FilledNames
<1>5. ApplyStorageDefaults(w, t) = [w EXCEPT !["storage"] = StorageAfter(u.storage, t)]
  <2>1. [w EXCEPT !["storage"] = w.storage] = w
    BY Zenon, <1>1, SameField DEF Partly
  <2> QED BY Zenon, <1>1, <2>1 DEF ApplyStorageDefaults, StorageAfter
<1> QED BY Zenon, <1>4, <1>5

\* One more field is treated: the labels, or the environment.
LEMMA PartlyOver ==
  ASSUME NEW u, NEW w, NEW t, NEW fields, Partly(u, w, t, fields)
  PROVE  /\ "labels" \notin fields =>
              Partly(u, ApplyMetadataDefaults(w, t), t, fields \cup {"labels"})
         /\ "env" \notin fields =>
              Partly(u, ApplyEnvDefaults(w, t), t, fields \cup {"env"})
<1>1. "labels" \in Other /\ "env" \in Other
  BY Zenon DEF Other
<1>2. ASSUME "labels" \notin fields
      PROVE  Partly(u, ApplyMetadataDefaults(w, t), t, fields \cup {"labels"})
  <2>1. w.labels = u.labels BY Zenon, <1>1, <1>2, FilledNames DEF Partly
  <2>2. Partly(u, [w EXCEPT !["labels"] = Over(u.labels, t.baseLabels)], t,
               fields \cup {"labels"})
    BY Zenon, <1>1, <1>2, PartlySet, FilledNames
  <2> QED BY Zenon, <2>1, <2>2 DEF ApplyMetadataDefaults
<1>3. ASSUME "env" \notin fields
      PROVE  Partly(u, ApplyEnvDefaults(w, t), t, fields \cup {"env"})
  <2>1. w.env = u.env BY Zenon, <1>1, <1>3, FilledNames DEF Partly
  <2>2. Partly(u, [w EXCEPT !["env"] = Over(u.env, t.baseEnv)], t, fields \cup {"env"})
    BY Zenon, <1>1, <1>3, PartlySet, FilledNames
  <2> QED BY Zenon, <2>1, <2>2 DEF ApplyEnvDefaults
<1> QED BY Zenon, <1>2, <1>3

\* The applicators, one after the other, treat each field once.
LEMMA Applied ==
  ASSUME NEW w, IsWorkspace(w), NEW t, Sized(t)
  PROVE  Partly(w, Applicators(w, t), t, Filled \cup Other)
<1> DEFINE a == Fill(w, "image", t["image"])
           b == Fill(a, "ownership", t["ownership"])
           c == Fill(b, "container", t["container"])
           d == Fill(c, "access", t["access"])
           e == Fill(d, "resources", t["resources"])
           g == ApplyStorageDefaults(e, t)
           h == Fill(g, "volumes", t["volumes"])
           i == Fill(h, "scheduling", t["scheduling"])
           j == ApplyMetadataDefaults(i, t)
           k == Fill(j, "strategy", t["strategy"])
           l == Fill(k, "lifecycle", t["lifecycle"])
           m == Fill(l, "idle", t["idle"])
           n == Fill(m, "readiness", t["readiness"])
           o == Fill(n, "security", t["security"])
           p == ApplyEnvDefaults(o, t)
           q == Fill(p, "initContainers", t["initContainers"])
<1> DEFINE F0 == {}
           F1 == F0 \cup {"image"}
           F2 == F1 \cup {"ownership"}
           F3 == F2 \cup {"container"}
           F4 == F3 \cup {"access"}
           F5 == F4 \cup {"resources"}
           F6 == F5 \cup {"storage"}
           F7 == F6 \cup {"volumes"}
           F8 == F7 \cup {"scheduling"}
           F9 == F8 \cup {"labels"}
           F10 == F9 \cup {"strategy"}
           F11 == F10 \cup {"lifecycle"}
           F12 == F11 \cup {"idle"}
           F13 == F12 \cup {"readiness"}
           F14 == F13 \cup {"security"}
           F15 == F14 \cup {"env"}
           F16 == F15 \cup {"initContainers"}
<1>a. /\ "image" \notin F0
      /\ "ownership" \notin F1
      /\ "container" \notin F2
      /\ "access" \notin F3
      /\ "resources" \notin F4
      /\ "storage" \notin F5
      /\ "volumes" \notin F6
      /\ "scheduling" \notin F7
  BY Zenon
<1>b. /\ "labels" \notin F8
      /\ "strategy" \notin F9
      /\ "lifecycle" \notin F10
      /\ "idle" \notin F11
      /\ "readiness" \notin F12
      /\ "security" \notin F13
      /\ "env" \notin F14
      /\ "initContainers" \notin F15
  BY Zenon
<1>c. F16 = Filled \cup Other
  BY Zenon DEF Filled, Other
<1> HIDE DEF F1, F2, F3, F4, F5, F6, F7, F8, F9, F10, F11, F12, F13, F14, F15, F16
<1>0. Partly(w, w, t, F0)
  BY Zenon DEF Partly
<1> HIDE DEF F0
<1>1. Partly(w, a, t, F1)
  BY Zenon, <1>a, <1>0, PartlyFill DEF F1, Filled
<1> HIDE DEF a
<1>2. Partly(w, b, t, F2)
  BY Zenon, <1>a, <1>1, PartlyFill DEF F2, Filled
<1> HIDE DEF b
<1>3. Partly(w, c, t, F3)
  BY Zenon, <1>a, <1>2, PartlyFill DEF F3, Filled
<1> HIDE DEF c
<1>4. Partly(w, d, t, F4)
  BY Zenon, <1>a, <1>3, PartlyFill DEF F4, Filled
<1> HIDE DEF d
<1>5. Partly(w, e, t, F5)
  BY Zenon, <1>a, <1>4, PartlyFill DEF F5, Filled
<1> HIDE DEF e
<1>6. Partly(w, g, t, F6)
  BY Zenon, <1>a, <1>5, PartlyStorage DEF F6
<1> HIDE DEF g
<1>7. Partly(w, h, t, F7)
  BY Zenon, <1>a, <1>6, PartlyFill DEF F7, Filled
<1> HIDE DEF h
<1>8. Partly(w, i, t, F8)
  BY Zenon, <1>a, <1>7, PartlyFill DEF F8, Filled
<1> HIDE DEF i
<1>9. Partly(w, j, t, F9)
  BY Zenon, <1>b, <1>8, PartlyOver DEF F9
<1> HIDE DEF j
<1>10. Partly(w, k, t, F10)
  BY Zenon, <1>b, <1>9, PartlyFill DEF F10, Filled
<1> HIDE DEF k
<1>11. Partly(w, l, t, F11)
  BY Zenon, <1>b, <1>10, PartlyFill DEF F11, Filled
<1> HIDE DEF l
<1>12. Partly(w, m, t, F12)
  BY Zenon, <1>b, <1>11, PartlyFill DEF F12, Filled
<1> HIDE DEF m
<1>13. Partly(w, n, t, F13)
  BY Zenon, <1>b, <1>12, PartlyFill DEF F13, Filled
<1> HIDE DEF n
<1>14. Partly(w, o, t, F14)
  BY Zenon, <1>b, <1>13, PartlyFill DEF F14, Filled
<1> HIDE DEF o
<1>15. Partly(w, p, t, F15)
  BY Zenon, <1>b, <1>14, PartlyOver DEF F15
<1> HIDE DEF p
<1>16. Partly(w, q, t, F16)
  BY Zenon, <1>b, <1>15, PartlyFill DEF F16, Filled
<1> HIDE DEF q
<1>17. Applicators(w, t) = q
  BY Zenon DEF Applicators, ApplyCoreDefaults, ApplyResourceDefaults, ApplyVolumeDefaults,
         ApplySchedulingDefaults, ApplyAccessStrategyDefaults, ApplyLifecycleDefaults,
         ApplyReadinessProbeDefaults, ApplySecurityDefaults, ApplyInitContainerDefaults,
         a, b, c, d, e, g, h, i, j, k, l, m, n, o, p, q
<1> QED BY Zenon, <1>c, <1>16, <1>17

\* The applicators keep the stamps.
LEMMA ApplicatorsKept ==
  ASSUME NEW w, IsWorkspace(w), NEW t, Sized(t)
  PROVE  Kept(w, Applicators(w, t))
<1>1. Stamps \subseteq DOMAIN Blank \ (Filled \cup Other)
  BY Zenon, FieldNames, FilledNames
<1> QED BY Zenon, <1>1, Applied DEF Partly, Kept

\* The mutating webhook sets who wrote and, on creation, who owns; the rest of the
\* metadata it reads are as they came.
LEMMA DefaultedStamps ==
  ASSUME Shapes, NEW w, IsWorkspace(w), NEW client, NEW old
  PROVE  LET d == Defaulted(w, client, old) IN
         /\ IsWorkspace(d) /\ d.deleting = w.deleting
         /\ ~w.deleting => d.updatedBy = client /\ (old = None => d.owner = client)
<1>1. CASE w.deleting
  BY Zenon, <1>1 DEF Defaulted
<1>2. CASE ~w.deleting
  <2> DEFINE f == Fill(w, "desired", "Running")
             s == Stamped(w, client, old)
             n == ApplyTemplateName(s)
             x == ApplyTemplateDefaults(n)
             y == ApplyServiceAccountDefaults(x)
             o == Fill(y, "ownership", "Public")
             z == Fill(o, "access", o.ownership)
  <2>1. Kept(w, f) BY Zenon, FillKept, NoStamp
  <2> HIDE DEF f
  <2>2. s = [f EXCEPT !.owner = IF old = None THEN client ELSE @, !.updatedBy = client]
    BY Zenon DEF Stamped, f
  <2>3. /\ IsWorkspace(s) /\ s.deleting = w.deleting /\ s.updatedBy = client
        /\ old = None => s.owner = client
    <3>1. DOMAIN f = DOMAIN Blank /\ DOMAIN s = DOMAIN Blank BY Zenon, <2>1, <2>2 DEF Kept, IsWorkspace
    <3>2. s = [g \in DOMAIN Blank |-> s[g]] BY Zenon, <2>2, <3>1
    <3>3. \A g \in DOMAIN Blank \ {"owner", "updatedBy"} : s[g] = f[g]
      BY Zenon, <2>2, <3>1
    <3>4. s.updatedBy = client /\ (old = None => s.owner = client)
      BY Zenon, <2>2, <3>1, FieldNames DEF Stamps
    <3>5. s.deleting = f.deleting /\ s.storage = f.storage
      BY Zenon, <3>3, FieldNames DEF Stamps, RuleFields
    <3> QED BY Zenon, <2>1, <3>2, <3>4, <3>5 DEF Kept, IsWorkspace, Stamps
  <2> HIDE DEF s
  <2>4. Kept(s, n)
    <3>1. Kept(s, s) BY Zenon, <2>3 DEF Kept
    <3> QED BY Zenon, <2>3, <3>1, SetKept, NoStamp DEF ApplyTemplateName
  <2> HIDE DEF n
  <2>5. Kept(n, x)
    <3>1. Kept(n, n) BY Zenon, <2>4 DEF Kept
    <3>2. ASSUME n.templateRef # None, ResolveTemplate(n.templateRef) # None
          PROVE  Kept(n, Applicators(n, templates[ResolveTemplate(n.templateRef)]))
      <4> DEFINE key == ResolveTemplate(n.templateRef)
      <4>1. Exists(key) BY Zenon, <3>2 DEF ResolveTemplate
      <4>2. Sized(templates[key]) BY Zenon, <4>1 DEF Exists, Shapes
      <4> HIDE DEF key
      <4>3. Kept(n, Applicators(n, templates[key])) BY Zenon, <2>4, <4>2, ApplicatorsKept DEF Kept
      <4> QED BY Zenon, <4>3 DEF key
    <3> QED BY Zenon, <3>1, <3>2 DEF ApplyTemplateDefaults
  <2> HIDE DEF x
  <2>6. Kept(x, y) BY <2>5, FillKept, NoStamp DEF Kept, ApplyServiceAccountDefaults
  <2> HIDE DEF y
  <2>7. Kept(y, o) BY <2>6, FillKept, NoStamp DEF Kept
  <2> HIDE DEF o
  <2>8. Kept(o, z) BY <2>7, FillKept, NoStamp DEF Kept
  <2> HIDE DEF z
  <2>9. Kept(s, x) /\ Kept(x, z) BY Zenon, <2>4, <2>5, <2>6, <2>7, <2>8, KeptTrans
  <2>10. Kept(s, z) BY Zenon, <2>9, KeptTrans
  <2>11. Defaulted(w, client, old) = z
    BY Zenon, <1>2 DEF Defaulted, SetWorkspaceSharingDefaults, z, o, y, x, n, s
  <2> QED BY Zenon, <1>2, <2>3, <2>10, <2>11 DEF Kept, Stamps
<1> QED BY Zenon, <1>1, <1>2

-----------------------------------------------------------------------------
(* What the validating webhook establishes *)

\* A spec that passed the check obeys the template it was checked against.
LEMMA TemplateChecked ==
  ASSUME NEW w, ValidateTemplate(w), w.templateRef # None
  PROVE  ContentOf(w) # None /\ SpecComplies(w, ContentOf(w))
BY Zenon DEF ValidateTemplate

\* An update that was let on without a check of the template changes nothing it rules.
LEMMA UncheckedSame ==
  ASSUME NEW v, NEW w, IsWorkspace(v), IsWorkspace(w),
         ~NeedsTemplateCheck(v, w), w.templateRef # None
  PROVE  SameToRules(v, w)
BY Zenon, SameSpec DEF NeedsTemplateCheck

\* What ValidateCreate says of a write that it admits.
LEMMA AdmittedCreate ==
  ASSUME NEW p, NEW client, p.old = None, ValidateCreate(p.new, client),
         NEW q, q.new = p.new, q.old = p.old,
         q.seen = IF Checked(p, client) THEN ContentOf(p.new) ELSE None
  PROVE  Vetted(q, client)
<1>1. q.seen = ContentOf(q.new) BY Zenon DEF Checked
<1>2. ValidateTemplate(q.new) BY Zenon DEF ValidateCreate
<1>3. q.new.templateRef = None => ContentOf(q.new) = None BY Zenon DEF ContentOf
<1> QED BY Zenon, <1>1, <1>2, <1>3, TemplateChecked DEF Vetted

\* What ValidateUpdate says of a write that it admits.
LEMMA AdmittedUpdate ==
  ASSUME NEW p, NEW client \in Clients, p.old # None, IsWorkspace(p.old), IsWorkspace(p.new),
         ~p.new.deleting, ValidateUpdate(p.old, p.new, client),
         NEW q, q.new = p.new, q.old = p.old,
         q.seen = IF Checked(p, client) THEN ContentOf(p.new) ELSE None
  PROVE  Permitted(q.old, q.new, client) /\ Vetted(q, client)
<1>1. CASE client \in Privileged
  <2>1. q.seen = None BY Zenon, <1>1 DEF Checked, IsControllerOrAdminUser
  <2> QED BY Zenon, <1>1, <2>1 DEF Permitted, Vetted
<1>2. CASE client \notin Privileged
  <2>1. /\ ValidateReservedPrefixOnUpdate(p.old, p.new) /\ ValidateOwnership(p.old, p.new, client)
        /\ ValidateUpdateWorkspace(p.old, p.new)
    BY Zenon, <1>2 DEF ValidateUpdate, IsControllerOrAdminUser
  <2>2. Permitted(q.old, q.new, client)
    BY Zenon, <2>1 DEF Permitted, ValidateReservedPrefixOnUpdate, ValidateOwnership,
                ValidateOwnershipPermission
  <2>3. CASE NeedsTemplateCheck(p.old, p.new)
    <3>1. q.seen = ContentOf(q.new)
      BY Zenon, <1>2, <2>3 DEF Checked, IsControllerOrAdminUser
    <3>2. ValidateTemplate(q.new) /\ q.new.templateRef # None
      BY Zenon, <2>1, <2>3 DEF ValidateUpdateWorkspace, NeedsTemplateCheck
    <3> QED BY Zenon, <2>2, <3>1, <3>2, TemplateChecked DEF Vetted
  <2>4. CASE ~NeedsTemplateCheck(p.old, p.new)
    <3>1. q.seen = None BY Zenon, <2>4 DEF Checked
    <3>2. q.new.templateRef # None => SameToRules(q.old, q.new)
      BY Zenon, <2>4, UncheckedSame
    <3> QED BY Zenon, <2>2, <3>1, <3>2 DEF Vetted
  <2> QED BY Zenon, <2>3, <2>4
<1> QED BY Zenon, <1>1, <1>2

-----------------------------------------------------------------------------
(* The steps *)

\* The invariant holds at first.
LEMMA InitShapes == Init => IInv
<1> SUFFICES ASSUME Init PROVE IInv BY Zenon
<1>1. /\ ws = None /\ templates = Contents /\ pending = [c \in Clients |-> None]
      /\ claim = 0 /\ copy = None /\ exempt = FALSE /\ vetted = None
  BY Zenon DEF Init
<1>2. Shapes
  <2>1. templates = [k \in Keys |-> templates[k]]
    BY Zenon, <1>1, TemplatesAssumption
  <2> QED BY Zenon, <1>1, <2>1, TemplatesAssumption DEF Shapes, WellTyped, Size
<1>3. CheckedSpecKept BY Zenon, <1>1 DEF CheckedSpecKept
<1>4. Volume BY Zenon, <1>1 DEF Volume
<1> QED BY Zenon, <1>2, <1>3, <1>4 DEF IInv

\* One client's request changes and the others stay: what is known of each stays known.
LEMMA OthersKept ==
  ASSUME IInv, NEW client \in Clients, NEW q,
         pending' = [pending EXCEPT ![client] = q],
         q # None => Underway(q, client) /\ Grows(q, client, claim),
         UNCHANGED <<ws, templates, claim, copy, exempt, vetted>>
  PROVE  IInv'
<1>1. pending' = [c \in Clients |-> pending'[c]]
      /\ \A c \in Clients : pending'[c] = IF c = client THEN q ELSE pending[c]
  BY Zenon DEF IInv, Shapes
<1>2. Shapes' BY Zenon, <1>1 DEF IInv, Shapes
<1>3. CheckedSpecKept' BY Zenon DEF IInv, CheckedSpecKept
<1>4. ASSUME NoneApart, NEW c \in Clients, pending'[c] # None, ~exempt PROVE Grows(pending'[c], c, claim)
  <2>1. CASE c = client BY Zenon, <1>1, <1>4, <2>1 DEF Grows
  <2>2. CASE c # client BY Zenon, <1>1, <1>4, <2>2 DEF IInv, Volume
  <2> QED BY Zenon, <2>1, <2>2
<1>5. NoneApart => Volume' BY Zenon, <1>4 DEF IInv, Volume
<1> QED BY Zenon, <1>2, <1>3, <1>5 DEF IInv

\* A request is begun from the stored workspace and a change.
LEMMA SubmitKeeps ==
  ASSUME IInv, NEW client \in Clients, NEW change \in Changes[client], Submit(client, change)
  PROVE  IInv'
<1> DEFINE base == IF ws = None THEN Blank ELSE ws
           w == Over(change, base)
           q == [stage |-> "default", old |-> ws, seen |-> None, new |-> w]
<1>1. IsWorkspace(base) /\ base.deleting = (IF ws = None THEN FALSE ELSE ws.deleting)
  BY Zenon, BlankShape DEF IInv, Shapes
<1>2. /\ DOMAIN change \subseteq DOMAIN Blank \ {"deleting"}
      /\ "storage" \in DOMAIN change => change.storage \in Size
  BY Zenon, ChangesAssumption
<1> HIDE DEF base
<1>3. DOMAIN base = DOMAIN Blank BY Zenon, <1>1 DEF IsWorkspace
<1>4. /\ DOMAIN w = DOMAIN Blank /\ w = [f \in DOMAIN Blank |-> w[f]]
      /\ \A f \in DOMAIN Blank : w[f] = IF f \in DOMAIN change THEN change[f] ELSE base[f]
  BY Zenon, <1>2, <1>3 DEF Over
<1> HIDE DEF w
<1>5. w.deleting = base.deleting BY Zenon, <1>2, <1>4, FieldNames DEF Stamps
<1>6. w.storage \in Size BY Zenon, <1>1, <1>2, <1>4, FieldNames DEF RuleFields, IsWorkspace
<1>7. IsWorkspace(w) BY Zenon, <1>1, <1>4, <1>5, <1>6 DEF IsWorkspace
<1>8. Underway(q, client)
  BY Zenon, <1>1, <1>5, <1>7 DEF Underway, IsRequest, IInv, Shapes
<1>9. pending' = [pending EXCEPT ![client] = q]
  BY Zenon DEF Submit, w, base
<1>10. Grows(q, client, claim) BY Zenon DEF Grows
<1> HIDE DEF q
<1> QED BY Zenon, <1>8, <1>9, <1>10, OthersKept DEF Submit

\* The mutating webhook lets a request on or refuses it.
LEMMA DefaultKeeps ==
  ASSUME IInv, NEW client \in Clients, Default(client)
  PROVE  IInv'
<1> DEFINE p == pending[client]
           d == Defaulted(p.new, client, p.old)
           q == [p EXCEPT !.stage = "validate", !.new = d]
<1>1. Underway(p, client) /\ Shapes BY Zenon DEF Default, IInv, Shapes
<1>2. UNCHANGED <<ws, templates, claim, copy, exempt, vetted>> BY Zenon DEF Default
<1>3. pending' = [pending EXCEPT ![client] = None] \/ pending' = [pending EXCEPT ![client] = q]
  BY Zenon DEF Default, Answer
<1> HIDE DEF p
<1>4. /\ IsWorkspace(d) /\ d.deleting = p.new.deleting
      /\ ~d.deleting => d.updatedBy = client
  <2>1. IsWorkspace(p.new) BY Zenon, <1>1 DEF Underway
  <2>2. /\ IsWorkspace(d) /\ d.deleting = p.new.deleting
        /\ ~p.new.deleting => d.updatedBy = client
    BY <1>1, <2>1, DefaultedStamps
  <2> QED BY Zenon, <2>2
<1> HIDE DEF d
<1>5. IsRequest(q) /\ q.stage = "validate" /\ q.old = p.old /\ q.new = d
  <2>1. DOMAIN p = {"stage", "old", "seen", "new"} BY Zenon, <1>1 DEF Underway, IsRequest
  <2> QED BY Zenon, <2>1 DEF IsRequest
<1> HIDE DEF q
<1>7. Underway(q, client) BY Zenon, <1>1, <1>4, <1>5 DEF Underway
<1>8. Grows(q, client, claim) BY Zenon, <1>5 DEF Grows
<1> QED BY Zenon, <1>2, <1>3, <1>7, <1>8, OthersKept

\* The validating webhook notes what it has checked, or refuses.
LEMMA ValidateKeeps ==
  ASSUME IInv, NEW client \in Clients, Validate(client)
  PROVE  IInv'
<1> DEFINE p == pending[client]
           s == IF Checked(p, client) THEN ContentOf(p.new) ELSE None
           q == [p EXCEPT !.stage = "store", !.seen = s]
<1>1. Underway(p, client) /\ p.stage = "validate" BY Zenon DEF Validate, IInv, Shapes
<1>2. UNCHANGED <<ws, templates, claim, copy, exempt, vetted>> BY Zenon DEF Validate
<1>3. \/ pending' = [pending EXCEPT ![client] = None]
      \/ /\ pending' = [pending EXCEPT ![client] = q]
         /\ IF p.old = None THEN ValidateCreate(p.new, client)
                            ELSE ValidateUpdate(p.old, p.new, client)
  BY Zenon DEF Validate, Answer
<1> HIDE DEF p, s
<1>4. /\ IsRequest(q) /\ q.stage = "store" /\ q.old = p.old /\ q.new = p.new /\ q.seen = s
  <2>1. DOMAIN p = {"stage", "old", "seen", "new"} BY Zenon, <1>1 DEF Underway, IsRequest
  <2> QED BY Zenon, <2>1 DEF IsRequest
<1> HIDE DEF q
<1>5. CASE pending' = [pending EXCEPT ![client] = None]
  BY Zenon, <1>2, <1>5, OthersKept
<1>6. CASE /\ pending' = [pending EXCEPT ![client] = q]
           /\ p.old = None /\ ValidateCreate(p.new, client)
  <2>1. Vetted(q, client)
    BY Zenon, <1>4, <1>6, AdmittedCreate DEF s
  <2>2. Underway(q, client) BY Zenon, <1>1, <1>4, <1>6, <2>1 DEF Underway
  <2>3. Grows(q, client, claim) BY Zenon, <1>4, <1>6 DEF Grows
  <2> QED BY Zenon, <1>2, <1>6, <2>2, <2>3, OthersKept
<1>7. CASE /\ pending' = [pending EXCEPT ![client] = q]
           /\ p.old # None /\ ValidateUpdate(p.old, p.new, client)
  <2>1. ~q.new.deleting => Permitted(q.old, q.new, client) /\ Vetted(q, client)
    BY Zenon, <1>1, <1>4, <1>7, AdmittedUpdate DEF s, Underway
  <2>2. Underway(q, client) BY Zenon, <1>1, <1>4, <1>7, <2>1 DEF Underway
  <2>3. Grows(q, client, claim)
    BY Zenon, <1>4, <1>7 DEF Grows, Holds, ValidateUpdate, IsControllerOrAdminUser,
                      ValidateStorageSizeNotShrinking
  <2> QED BY Zenon, <1>2, <1>7, <2>2, <2>3, OthersKept
<1> QED BY Zenon, <1>3, <1>5, <1>6, <1>7

\* The API server stores what was checked, if nothing else was stored since.
LEMMA StoreKeeps ==
  ASSUME IInv, NEW client \in Clients, Store(client)
  PROVE  IInv'
<1> DEFINE p == pending[client]
<1>1. /\ Underway(p, client) /\ p.stage = "store" /\ p # None
      /\ NoneApart /\ ~exempt => Grows(p, client, claim)
  BY Zenon DEF Store, IInv, Shapes, Volume
<1>2. pending' = [pending EXCEPT ![client] = None] /\ UNCHANGED <<templates, claim, copy>>
  BY Zenon DEF Store, Answer
<1>3. CASE p.old # ws
  <2>1. UNCHANGED <<ws, vetted, exempt>> BY Zenon, <1>3 DEF Store
  <2> QED BY Zenon, <1>2, <2>1, OthersKept
<1>4. CASE p.old = ws
  <2>1. /\ ws' = p.new
        /\ exempt' = (exempt \/ /\ IsControllerOrAdminUser(client)
                                /\ p.old # None /\ p.new.storage # p.old.storage)
        /\ vetted' # None =>
             /\ p.new.templateRef # None /\ ~p.new.deleting
             /\ \/ p.seen # None /\ vetted' = p.seen
                \/ /\ p.seen = None /\ vetted' = vetted
                   /\ client \in Privileged => SpecOf(p.old) = SpecOf(p.new)
    BY Zenon, <1>4 DEF Store, IsControllerOrAdminUser
  <2>2. /\ pending' = [c \in Clients |-> pending'[c]]
        /\ \A c \in Clients : pending'[c] = IF c = client THEN None ELSE pending[c]
    BY Zenon, <1>2 DEF IInv, Shapes
  <2> HIDE DEF p
  <2>3. Shapes'
    <3>1. exempt' \in BOOLEAN BY Zenon, <2>1
    <3>2. IsWorkspace(ws') BY Zenon, <1>1, <2>1 DEF Underway
    <3> QED BY Zenon, <1>2, <2>2, <3>1, <3>2 DEF IInv, Shapes
  <2>4. CheckedSpecKept'
    <3> SUFFICES ASSUME vetted' # None PROVE SpecComplies(p.new, vetted')
      BY Zenon, <2>1 DEF CheckedSpecKept
    <3>1. Vetted(p, client) BY Zenon, <1>1, <2>1 DEF Underway
    <3>2. CASE p.seen # None BY Zenon, <2>1, <3>1, <3>2 DEF Vetted
    <3>3. CASE p.seen = None
      <4>1. p.old # None /\ vetted' = vetted /\ p.new.templateRef # None
        BY Zenon, <2>1, <3>1, <3>3 DEF Vetted
      <4>2. SpecComplies(p.old, vetted)
        BY Zenon, <1>4, <4>1 DEF IInv, CheckedSpecKept
      <4>3. SameToRules(p.old, p.new)
        BY Zenon, <1>1, <2>1, <3>1, <3>3, <4>1, SameSpec DEF Vetted, Underway
      <4> QED BY Zenon, <4>1, <4>2, <4>3, RulesSee
    <3> QED BY Zenon, <3>2, <3>3
  <2>5. ASSUME NoneApart PROVE Volume'
    <3>1. claim' = claim /\ copy' = copy /\ claim \in Nat BY Zenon, <1>2 DEF IInv, Shapes
    <3>2. ASSUME ws' = None PROVE claim = 0 /\ copy = None
      <4>1. CASE ws = None BY Zenon, <2>5, <4>1 DEF IInv, Volume
      <4>2. CASE ws # None
        BY Zenon, <2>5, <1>1, <2>1, <3>2, SomeWorkspace DEF Underway
      <4> QED BY Zenon, <4>1, <4>2
    <3>3. ASSUME ~exempt', ~p.new.deleting PROVE Holds(p.new, claim)
      <4>1. ~exempt BY Zenon, <2>1, <3>3
      <4>2. CASE p.old = None
        <5>1. claim = 0 BY Zenon, <2>5, <1>4, <4>2 DEF IInv, Volume
        <5> QED BY <1>1, <5>1 DEF Holds, Underway, IsWorkspace, Size
      <4>3. CASE p.old # None /\ client \notin Privileged
        BY Zenon, <2>5, <1>1, <3>3, <4>1, <4>3 DEF Grows
      <4>4. CASE p.old # None /\ client \in Privileged
        <5>1. p.new.storage = p.old.storage /\ ~p.old.deleting
          BY Zenon, <1>1, <2>1, <3>3, <4>4 DEF IsControllerOrAdminUser, Underway
        <5>2. Holds(p.old, claim) BY Zenon, <2>5, <1>4, <4>1, <4>4, <5>1 DEF IInv, Volume
        <5> QED BY Zenon, <5>1, <5>2 DEF Holds
      <4> QED BY Zenon, <4>2, <4>3, <4>4
    <3>4. ~exempt' => ~exempt BY Zenon, <2>1
    <3>5. \A c \in Clients : ~exempt' /\ pending'[c] # None => Grows(pending'[c], c, claim)
      BY Zenon, <2>5, <2>2, <3>4 DEF IInv, Volume
    <3> QED BY Zenon, <2>1, <3>1, <3>2, <3>3, <3>5 DEF Volume
  <2> QED BY Zenon, <2>3, <2>4, <2>5 DEF IInv
<1> QED BY Zenon, <1>3, <1>4

\* A workspace that is marked for deletion is a workspace, and the rest of it is unchanged.
LEMMA DeletingShape ==
  ASSUME NEW w, IsWorkspace(w), NEW v, v = [w EXCEPT !.deleting = TRUE]
  PROVE  IsWorkspace(v) /\ v.deleting = TRUE /\ v.owner = w.owner
<1>1. DOMAIN w = DOMAIN Blank BY Zenon DEF IsWorkspace
<1>2. v = [f \in DOMAIN Blank |-> v[f]] BY Zenon, <1>1
<1>3. v.deleting = TRUE /\ v.owner = w.owner /\ v.storage = w.storage
  BY Zenon, <1>1, FieldNames DEF Stamps, RuleFields
<1> QED BY Zenon, <1>2, <1>3 DEF IsWorkspace

\* A deletion marks the workspace.
LEMMA DeleteKeeps ==
  ASSUME IInv, NEW client \in Clients, Delete(client)
  PROVE  IInv'
<1>1. /\ UNCHANGED <<templates, claim, copy, pending, exempt>> /\ vetted' = None /\ ws # None
      /\ ws' = [ws EXCEPT !.deleting = TRUE]
  BY Zenon DEF Delete
<1>2. IsWorkspace(ws') /\ ws'.deleting = TRUE
  BY Zenon, <1>1, DeletingShape DEF IInv, Shapes
<1>3. Shapes' BY Zenon, <1>1, <1>2 DEF IInv, Shapes
<1>4. CheckedSpecKept' BY Zenon, <1>1 DEF CheckedSpecKept
<1>5. ASSUME NoneApart PROVE Volume'
  <2>1. ws' # None BY Zenon, <1>2, <1>5, SomeWorkspace
  <2> QED BY Zenon, <1>1, <1>2, <1>5, <2>1 DEF IInv, Volume
<1> QED BY Zenon, <1>3, <1>4, <1>5 DEF IInv

\* The workspace and its claim go away together.
LEMMA FinalizeKeeps == IInv /\ Finalize => IInv'
<1> SUFFICES ASSUME IInv, Finalize PROVE IInv' BY Zenon
<1>1. /\ ws' = None /\ claim' = 0 /\ copy' = None /\ exempt' = FALSE
      /\ UNCHANGED <<templates, pending, vetted>>
  BY Zenon DEF Finalize
<1>2. Shapes' BY Zenon, <1>1 DEF IInv, Shapes, Size
<1>3. CheckedSpecKept' BY Zenon, <1>1 DEF CheckedSpecKept
<1>4. ASSUME NEW c \in Clients, pending[c] # None PROVE Grows(pending[c], c, 0)
  <2>1. pending[c].new.storage \in Size BY Zenon, <1>4 DEF IInv, Shapes, Underway, IsWorkspace
  <2> QED BY <2>1 DEF Grows, Holds, Size
<1>5. Volume' BY Zenon, <1>1, <1>4 DEF Volume
<1> QED BY Zenon, <1>2, <1>3, <1>5 DEF IInv

\* The controller reads a size, or nothing, in the stored workspace.
LEMMA ReadKeeps == IInv /\ ReadWorkspace => IInv'
<1> SUFFICES ASSUME IInv, ReadWorkspace PROVE IInv' BY Zenon
<1>1. /\ UNCHANGED <<ws, templates, claim, pending, vetted, exempt>> /\ ws # None
      /\ copy' \in {ws.storage, None}
  BY Zenon DEF ReadWorkspace
<1>2. copy' \in Size BY Zenon, <1>1 DEF IInv, Shapes, IsWorkspace, Size
<1>3. Shapes' BY Zenon, <1>1, <1>2 DEF IInv, Shapes
<1>4. CheckedSpecKept' BY Zenon, <1>1 DEF IInv, CheckedSpecKept
<1>5. NoneApart => Volume' BY Zenon, <1>1 DEF IInv, Volume
<1> QED BY Zenon, <1>3, <1>4, <1>5 DEF IInv

\* The claim that the controller makes for a size it has read has a size.
LEMMA ClaimSize ==
  ASSUME NEW storage \in Size, storage # None
  PROVE  /\ ResolveStorageSize(storage) \in Nat
         /\ storage # 0 => ResolveStorageSize(storage) = storage
BY Zenon, AdmissionAssumption DEF ResolveStorageSize, Size

\* A claim that is made or grows between check and store, or from an outdated copy, exempts
\* the workspace.
LEMMA EnsurePVCKeeps == IInv /\ EnsurePVCExists => IInv'
<1> SUFFICES ASSUME IInv, EnsurePVCExists PROVE IInv' BY Zenon
<1>1. /\ UNCHANGED <<ws, templates, pending, vetted>> /\ copy # None /\ copy' = None
      /\ claim' = ResolveStorageSize(copy) /\ copy \in Size
  BY Zenon DEF EnsurePVCExists, IInv, Shapes
<1>2. claim' \in Nat /\ (copy # 0 => claim' = copy) BY Zenon, <1>1, ClaimSize
<1>3. /\ exempt' \in BOOLEAN /\ (~exempt' => ~exempt /\ ws.storage = copy)
      /\ ~exempt' => \A c \in Clients : pending[c] # None => pending[c].stage # "store"
  BY Zenon DEF EnsurePVCExists, IInv, Shapes
<1>4. Shapes' BY Zenon, <1>1, <1>2, <1>3 DEF IInv, Shapes, Size
<1>5. CheckedSpecKept' BY Zenon, <1>1 DEF IInv, CheckedSpecKept
<1>6. ASSUME NoneApart PROVE Volume'
  <2>1. ws # None BY Zenon, <1>1, <1>6 DEF IInv, Volume
  <2>2. ~exempt' => Holds(ws, claim') BY <1>1, <1>2, <1>3 DEF Holds, Size
  <2>3. \A c \in Clients : ~exempt' /\ pending[c] # None => Grows(pending[c], c, claim')
    BY Zenon, <1>3 DEF Grows
  <2> QED BY Zenon, <1>1, <2>1, <2>2, <2>3 DEF Volume
<1> QED BY Zenon, <1>4, <1>5, <1>6 DEF IInv

\* A template changes; what a spec was checked against is remembered by content.
LEMMA EditsKeep ==
  ASSUME IInv, NEW k \in Keys, NEW t, t # None => Sized(t),
         templates' = [templates EXCEPT ![k] = t],
         UNCHANGED <<ws, claim, copy, pending, vetted, exempt>>
  PROVE  IInv'
<1>1. Shapes' BY Zenon DEF IInv, Shapes
<1>2. CheckedSpecKept' BY Zenon DEF IInv, CheckedSpecKept
<1>3. NoneApart => Volume' BY Zenon DEF IInv, Volume
<1> QED BY Zenon, <1>1, <1>2, <1>3 DEF IInv

\* An admin creates or edits a template.
LEMMA EditTemplateKeeps ==
  ASSUME IInv, NEW k \in Keys, NEW patch \in Patches[k], EditTemplate(k, patch)
  PROVE  IInv'
<1> DEFINE base == IF templates[k] = None THEN Bare ELSE templates[k]
           t == Over(patch, base)
<1>1. /\ templates' = [templates EXCEPT ![k] = t]
      /\ UNCHANGED <<ws, claim, copy, pending, vetted, exempt>>
  BY Zenon DEF EditTemplate
<1>2. Sized(base) BY Zenon, TemplatesAssumption DEF IInv, Shapes, WellTyped
<1> HIDE DEF base
<1>3. "storage" \in DOMAIN patch => Sized(patch) BY Zenon, TemplatesAssumption
<1>4. Sized(t)
  <2>1. "storage" \in DOMAIN t
        /\ t.storage = IF "storage" \in DOMAIN patch THEN patch.storage ELSE base.storage
    BY Zenon, <1>2 DEF Over, Sized
  <2> QED BY Zenon, <1>2, <1>3, <2>1 DEF Sized
<1> HIDE DEF t
<1> QED BY Zenon, <1>1, <1>4, EditsKeep

\* Every step keeps the invariant.
LEMMA NextKeeps == IInv /\ [Next]_vars => IInv'
<1> SUFFICES ASSUME IInv, [Next]_vars PROVE IInv' BY Zenon
<1>1. CASE UNCHANGED vars
  <2>1. Shapes' BY Zenon, <1>1 DEF IInv, Shapes, vars
  <2>2. CheckedSpecKept' BY Zenon, <1>1 DEF IInv, CheckedSpecKept, vars
  <2>3. NoneApart => Volume' BY Zenon, <1>1 DEF IInv, Volume, vars
  <2> QED BY Zenon, <2>1, <2>2, <2>3 DEF IInv
<1>2. CASE \E c \in Clients : \E change \in Changes[c] : Submit(c, change)
  BY Zenon, <1>2, SubmitKeeps
<1>3. CASE \E c \in Clients : Default(c)
  BY Zenon, <1>3, DefaultKeeps
<1>4. CASE \E c \in Clients : Validate(c)
  BY Zenon, <1>4, ValidateKeeps
<1>5. CASE \E c \in Clients : Store(c)
  BY Zenon, <1>5, StoreKeeps
<1>6. CASE \E c \in Clients : Delete(c)
  BY Zenon, <1>6, DeleteKeeps
<1>7. CASE Finalize
  BY Zenon, <1>7, FinalizeKeeps
<1>8. CASE EnsurePVCExists
  BY Zenon, <1>8, EnsurePVCKeeps
<1>9. CASE \E k \in Keys : \E patch \in Patches[k] : EditTemplate(k, patch)
  BY Zenon, <1>9, EditTemplateKeeps
<1>10. CASE \E k \in Keys : RemoveTemplate(k)
  BY Zenon, <1>10, EditsKeep DEF RemoveTemplate
<1>11. CASE \E s \in Accounts, grant \in Grants : EditAccount(s, grant)
  <2>1. UNCHANGED <<ws, templates, claim, copy, pending, vetted, exempt>>
    BY Zenon, <1>11 DEF EditAccount
  <2>2. Shapes' BY Zenon, <2>1 DEF IInv, Shapes
  <2>3. CheckedSpecKept' BY Zenon, <2>1 DEF IInv, CheckedSpecKept
  <2>4. NoneApart => Volume' BY Zenon, <2>1 DEF IInv, Volume
  <2> QED BY Zenon, <2>2, <2>3, <2>4 DEF IInv
<1>12. CASE ReadWorkspace
  BY Zenon, <1>12, ReadKeeps
<1>13. CASE \E c \in Clients : WebhookFails(c)
  BY Zenon, <1>13, OthersKept DEF WebhookFails, Answer
<1> QED
  BY Zenon, <1>1, <1>2, <1>3, <1>4, <1>5, <1>6, <1>7, <1>8, <1>9, <1>10, <1>11, <1>12, <1>13
     DEF Next

-----------------------------------------------------------------------------
(* The theorems *)

\* What IInv says holds in every reachable state.
THEOREM Invariance == Spec => []IInv
BY InitShapes, NextKeeps, PTL DEF Spec

\* Whatever edits, stops, label changes and privileged writes a workspace goes through,
\* the spec that is stored obeys the template content it was last checked against
\* (ValidateUpdateWorkspace, template_validator.go).
THEOREM SpecObeysItsTemplate == Spec => []CheckedSpecKept
<1>1. IInv => CheckedSpecKept BY Zenon DEF IInv
<1> QED BY <1>1, Invariance, PTL

\* No user but the creator changes an OwnerOnly workspace, and no user ever changes the
\* creator that is recorded, however many clients' writes are under way
\* (ValidateUpdate, workspace_webhook.go).
THEOREM OwnersOnly == Spec => OwnershipHolds
<1> DEFINE A == ws # None /\ ws' # None /\ ws # ws' =>
       (/\ (~ws.deleting /\ ~ws'.deleting /\ ws.ownership = "OwnerOnly"
              => ws'.updatedBy \in Privileged \cup {ws.owner})
        /\ (~ws.deleting /\ ws.owner \notin {None, ws'.owner} => ws'.updatedBy \in Privileged))
<1>1. ASSUME IInv, [Next]_vars PROVE [A]_vars
  <2> SUFFICES ASSUME Next, ws # None, ws' # None, ws # ws' PROVE A
    BY Zenon, <1>1 DEF vars
  <2>1. (\E c \in Clients : Store(c) \/ Delete(c))
    BY Zenon DEF Next, Submit, Default, Validate, WebhookFails, Finalize, ReadWorkspace,
           EnsurePVCExists, EditTemplate, RemoveTemplate, EditAccount
  <2>2. ASSUME NEW c \in Clients, Delete(c) PROVE A
    <3>1. ws'.deleting = TRUE /\ ws'.owner = ws.owner
      BY Zenon, <1>1, <2>2, DeletingShape DEF Delete, IInv, Shapes
    <3> QED BY Zenon, <3>1
  <2>3. ASSUME NEW c \in Clients, Store(c) PROVE A
    <3> DEFINE p == pending[c]
    <3>1. /\ Underway(p, c) /\ p.stage = "store" /\ p.old = ws /\ ws' = p.new
      BY Zenon, <1>1, <2>3 DEF Store, IInv, Shapes
    <3> HIDE DEF p
    <3>2. ws'.deleting = ws.deleting /\ (~ws.deleting => ws'.updatedBy = c)
      BY Zenon, <3>1 DEF Underway
    <3>3. ~ws.deleting => Permitted(ws, ws', c)
      BY Zenon, <3>1 DEF Underway
    <3> QED BY Zenon, <3>2, <3>3 DEF Permitted
  <2> QED BY Zenon, <2>1, <2>2, <2>3
<1> QED BY <1>1, Invariance, PTL DEF Spec, OwnershipHolds

\* Only a privileged client, or a claim that is made while a checked write is still to be
\* stored or from a version whose size has changed since it was read, leaves a workspace that
\* asks for less than its claim
\* (ValidateStorageSizeNotShrinking, storage_validator.go).
THEOREM VolumesDoNotShrink == ASSUME NoneApart PROVE Spec => []NoShrink
<1>1. IInv => NoShrink BY Zenon DEF IInv, Volume, NoShrink, Holds
<1> QED BY <1>1, Invariance, PTL

-----------------------------------------------------------------------------
(* Defaulting is idempotent *)

\* The template has nothing to add to w.
Settled(w, t) ==
  /\ \A f \in Filled : w[f] = None => t[f] = None
  /\ StorageAfter(w.storage, t) = w.storage
  /\ Over(w.labels, t.baseLabels) = w.labels
  /\ Over(w.env, t.baseEnv) = w.env

\* Workspaces with the same fields are the same.
LEMMA SameFields ==
  ASSUME NEW v, NEW w, IsWorkspace(v), IsWorkspace(w), \A f \in DOMAIN Blank : v[f] = w[f]
  PROVE  v = w
<1>1. v = [f \in DOMAIN Blank |-> v[f]] /\ w = [f \in DOMAIN Blank |-> w[f]]
  BY Zenon DEF IsWorkspace
<1>2. [f \in DOMAIN Blank |-> v[f]] = [f \in DOMAIN Blank |-> w[f]]
  BY Zenon
<1> QED BY Zenon, <1>1, <1>2

\* Putting the same map under a map twice is putting it there once.
LEMMA OverTwice ==
  ASSUME NEW f, NEW g
  PROVE  Over(Over(f, g), g) = Over(f, g)
BY Zenon DEF Over

\* After the applicators the template has nothing to add.
LEMMA AppliedSettles ==
  ASSUME NEW w, IsWorkspace(w), NEW t, Sized(t)
  PROVE  Settled(Applicators(w, t), t)
<1> DEFINE x == Applicators(w, t)
<1>1. Partly(w, x, t, Filled \cup Other) BY Zenon, Applied
<1> HIDE DEF x
<1>2. \A f \in Filled : x[f] = None => t[f] = None
  BY Zenon, <1>1 DEF Partly
<1>3. /\ x.storage = StorageAfter(w.storage, t)
      /\ x.labels = Over(w.labels, t.baseLabels) /\ x.env = Over(w.env, t.baseEnv)
  BY Zenon, <1>1 DEF Partly, Other
<1>4. StorageAfter(x.storage, t) = x.storage
  BY Zenon, <1>3, AdmissionAssumption DEF StorageAfter, Sized
<1>5. Settled(x, t)
  BY <1>2, <1>3, <1>4, OverTwice DEF Settled
<1> QED BY Zenon, <1>5 DEF x

\* When the template has nothing to add, the applicators change nothing.
LEMMA SettledStays ==
  ASSUME NEW w, IsWorkspace(w), NEW t, Sized(t), Settled(w, t)
  PROVE  Applicators(w, t) = w
<1> DEFINE x == Applicators(w, t)
<1>1. Partly(w, x, t, Filled \cup Other) BY Zenon, Applied
<1> HIDE DEF x
<1>2. \A f \in Filled : x[f] = w[f]
  BY Zenon, <1>1 DEF Partly, Settled
<1>3. x.storage = w.storage /\ x.labels = w.labels /\ x.env = w.env
  BY Zenon, <1>1 DEF Partly, Other, Settled
<1>4. \A f \in DOMAIN Blank \ (Filled \cup Other) : x[f] = w[f]
  BY Zenon, <1>1 DEF Partly
<1>5. \A f \in DOMAIN Blank : x[f] = w[f]
  BY Zenon, <1>2, <1>3, <1>4 DEF Other
<1>6. x = w
  BY Zenon, <1>1, <1>5, SameFields DEF Partly
<1> QED BY Zenon, <1>6 DEF x

\* Filling in a field that is set, or with nothing, changes nothing.
LEMMA IdleFill ==
  ASSUME NEW w, IsWorkspace(w), NEW field \in DOMAIN Blank, NEW value,
         w[field] = None => value = None
  PROVE  Fill(w, field, value) = w
BY Zenon, SameField DEF Fill

\* What a template adds to a workspace that names one, or nothing.
LEMMA TemplateSettles ==
  ASSUME Shapes, NEW w, IsWorkspace(w)
  PROVE  LET x == ApplyTemplateDefaults(w) IN
         /\ IsWorkspace(x)
         /\ \A f \in DOMAIN Blank \ (Filled \cup Other) : x[f] = w[f]
         /\ w.templateRef # None /\ ResolveTemplate(w.templateRef) # None =>
              LET t == templates[ResolveTemplate(w.templateRef)] IN
              /\ Sized(t) /\ Settled(x, t)
              /\ x = Applicators(w, t)
              /\ x.strategy = IF w.strategy = None THEN t.strategy ELSE w.strategy
         /\ w.templateRef = None \/ ResolveTemplate(w.templateRef) = None => x = w
<1> DEFINE key == ResolveTemplate(w.templateRef)
           x == ApplyTemplateDefaults(w)
<1>1. CASE w.templateRef = None \/ key = None
  BY Zenon, <1>1 DEF ApplyTemplateDefaults
<1>2. CASE w.templateRef # None /\ key # None
  <2>1. Exists(key) BY Zenon, <1>2 DEF ResolveTemplate
  <2> DEFINE t == templates[key]
  <2>2. Sized(t) BY Zenon, <2>1 DEF Exists, Shapes
  <2>3. x = Applicators(w, t) BY Zenon, <1>2 DEF ApplyTemplateDefaults
  <2>4. "strategy" \in Filled BY Zenon DEF Filled
  <2> HIDE DEF key, t, x
  <2>5. Settled(x, t) BY Zenon, <2>2, <2>3, AppliedSettles
  <2>6. Partly(w, x, t, Filled \cup Other) BY Zenon, <2>2, <2>3, Applied
  <2>7. x.strategy = IF w.strategy = None THEN t.strategy ELSE w.strategy
    BY Zenon, <2>4, <2>6 DEF Partly
  <2>8. IsWorkspace(x) /\ \A f \in DOMAIN Blank \ (Filled \cup Other) : x[f] = w[f]
    BY Zenon, <2>6 DEF Partly
  <2> QED BY Zenon, <1>2, <2>2, <2>3, <2>5, <2>7, <2>8 DEF key, t, x
<1> QED BY Zenon, <1>1, <1>2

\* What filling in a field does, field by field.
LEMMA FillFields ==
  ASSUME NEW w, IsWorkspace(w), NEW field \in DOMAIN Blank \ Stamps, NEW value,
         field # "storage"
  PROVE  LET u == Fill(w, field, value) IN
         /\ IsWorkspace(u)
         /\ \A f \in DOMAIN Blank \ {field} : u[f] = w[f]
         /\ u[field] = IF w[field] = None THEN value ELSE w[field]
<1>1. IsWorkspace(Fill(w, field, value)) BY Zenon, FillKept DEF Kept
<1>2. DOMAIN w = DOMAIN Blank BY Zenon DEF IsWorkspace
<1> QED BY Zenon, <1>1, <1>2 DEF Fill

\* What the stamps and the desired status do, field by field.
LEMMA StampedFields ==
  ASSUME NEW w, IsWorkspace(w), NEW client, NEW old
  PROVE  LET s == Stamped(w, client, old) IN
         /\ IsWorkspace(s) /\ s.updatedBy = client
         /\ s.owner = IF old = None THEN client ELSE w.owner
         /\ s.desired = IF w.desired = None THEN "Running" ELSE w.desired
         /\ \A f \in DOMAIN Blank \ {"owner", "updatedBy", "desired"} : s[f] = w[f]
<1> DEFINE d == Fill(w, "desired", "Running")
           s == [d EXCEPT !.owner = IF old = None THEN client ELSE @, !.updatedBy = client]
<1>1. /\ IsWorkspace(d) /\ \A f \in DOMAIN Blank \ {"desired"} : d[f] = w[f]
      /\ d.desired = IF w.desired = None THEN "Running" ELSE w.desired
  BY FillFields, NoStamp
<1> HIDE DEF d
<1>2. DOMAIN d = DOMAIN Blank /\ DOMAIN s = DOMAIN Blank BY Zenon, <1>1 DEF IsWorkspace
<1>3. \A f \in DOMAIN Blank \ {"owner", "updatedBy"} : s[f] = d[f] BY Zenon, <1>2
<1>4. s.updatedBy = client /\ s.owner = IF old = None THEN client ELSE w.owner
  <2>1. d.owner = w.owner BY Zenon, <1>1, FieldNames DEF Stamps
  <2> QED BY Zenon, <1>2, <2>1, FieldNames DEF Stamps
<1>5. s = [f \in DOMAIN Blank |-> s[f]] BY Zenon, <1>2
<1>6. s = Stamped(w, client, old) BY Zenon DEF Stamped, d
<1> HIDE DEF s
<1>7. s.deleting = d.deleting /\ s.storage = d.storage /\ s.desired = d.desired
  BY Zenon, <1>3, FieldNames DEF Stamps, RuleFields
<1>8. IsWorkspace(s) BY Zenon, <1>1, <1>5, <1>7 DEF IsWorkspace
<1> QED BY Zenon, <1>1, <1>3, <1>4, <1>6, <1>7, <1>8

\* What naming the default template does, field by field.
LEMMA NamedFields ==
  ASSUME NEW w, IsWorkspace(w)
  PROVE  LET n == ApplyTemplateName(w) IN
         /\ IsWorkspace(n)
         /\ \A f \in DOMAIN Blank \ {"templateRef"} : n[f] = w[f]
         /\ n.templateRef = IF w.templateRef # None \/ Candidates = {} THEN w.templateRef
                            ELSE CHOOSE k \in Candidates : TRUE
<1> DEFINE k0 == CHOOSE k \in Candidates : TRUE
           n == [w EXCEPT !["templateRef"] = k0]
<1>1. IsWorkspace(n) BY Zenon, SetKept, NoStamp DEF Kept
<1>2. DOMAIN w = DOMAIN Blank BY Zenon DEF IsWorkspace
<1>3. /\ \A f \in DOMAIN Blank \ {"templateRef"} : n[f] = w[f]
      /\ n.templateRef = k0
  BY Zenon, <1>2, NoStamp
<1>4. ApplyTemplateName(w) = IF w.templateRef # None \/ Candidates = {} THEN w ELSE n
  BY Zenon DEF ApplyTemplateName
<1> HIDE DEF n
<1> QED BY Zenon, <1>1, <1>3, <1>4

\* What is left after sharing defaults: only three fields changed since the template.
LEMMA SharedFields ==
  ASSUME NEW x, IsWorkspace(x)
  PROVE  LET z == SetWorkspaceSharingDefaults(ApplyServiceAccountDefaults(x)) IN
         /\ IsWorkspace(z)
         /\ \A f \in DOMAIN Blank \ {"account", "ownership", "access"} : z[f] = x[f]
         /\ z.account = IF x.account = None THEN GetDefaultServiceAccount ELSE x.account
         /\ z.ownership = IF x.ownership = None THEN "Public" ELSE x.ownership
         /\ z.access = IF x.access = None THEN z.ownership ELSE x.access
<1> DEFINE y == ApplyServiceAccountDefaults(x)
           o == Fill(y, "ownership", "Public")
           z == Fill(o, "access", o.ownership)
<1>1. /\ IsWorkspace(y) /\ \A f \in DOMAIN Blank \ {"account"} : y[f] = x[f]
      /\ y.account = IF x.account = None THEN GetDefaultServiceAccount ELSE x.account
  BY FillFields, NoStamp DEF ApplyServiceAccountDefaults
<1> HIDE DEF y
<1>2. /\ IsWorkspace(o) /\ \A f \in DOMAIN Blank \ {"ownership"} : o[f] = y[f]
      /\ o.ownership = IF y.ownership = None THEN "Public" ELSE y.ownership
  BY <1>1, FillFields, NoStamp
<1> HIDE DEF o
<1>3. /\ IsWorkspace(z) /\ \A f \in DOMAIN Blank \ {"access"} : z[f] = o[f]
      /\ z.access = IF o.access = None THEN o.ownership ELSE o.access
  BY <1>2, FillFields, NoStamp
<1>4. z = SetWorkspaceSharingDefaults(ApplyServiceAccountDefaults(x))
  BY Zenon DEF SetWorkspaceSharingDefaults, z, o, y
<1> HIDE DEF z
<1>5. \A f \in DOMAIN Blank \ {"account", "ownership", "access"} : z[f] = x[f]
  BY Zenon, <1>1, <1>2, <1>3
<1>6. /\ z.account = y.account
      /\ z.ownership = o.ownership /\ y.ownership = x.ownership
      /\ o.access = x.access
  BY Zenon, <1>1, <1>2, <1>3, FieldNames
<1> QED BY Zenon, <1>1, <1>2, <1>3, <1>4, <1>5, <1>6

\* The mutating webhook, run on what it has made of a workspace, accepts it and changes nothing.
LEMMA Twice ==
  ASSUME Shapes, NoneApart, NEW w, IsWorkspace(w), NEW client, NEW old, ~DefaultRefuses(w)
  PROVE  LET once == Defaulted(w, client, old) IN
         ~DefaultRefuses(once) /\ Defaulted(once, client, once) = once
<1>1. CASE w.deleting
  BY Zenon, <1>1 DEF Defaulted, DefaultRefuses
<1>2. CASE ~w.deleting
  <2> DEFINE s == Stamped(w, client, old)
             n == ApplyTemplateName(s)
             x == ApplyTemplateDefaults(n)
             z == SetWorkspaceSharingDefaults(ApplyServiceAccountDefaults(x))
             key == ResolveTemplate(n.templateRef)
             t == templates[key]
  <2>1. /\ IsWorkspace(s) /\ s.updatedBy = client
        /\ s.desired = IF w.desired = None THEN "Running" ELSE w.desired
        /\ \A f \in DOMAIN Blank \ {"owner", "updatedBy", "desired"} : s[f] = w[f]
    BY StampedFields
  <2> HIDE DEF s
  <2>2. /\ IsWorkspace(n)
        /\ \A f \in DOMAIN Blank \ {"templateRef"} : n[f] = s[f]
        /\ n.templateRef = IF s.templateRef # None \/ Candidates = {} THEN s.templateRef
                           ELSE CHOOSE k \in Candidates : TRUE
    BY Zenon, <2>1, NamedFields
  <2> HIDE DEF n
  <2>3. /\ IsWorkspace(x)
        /\ \A f \in DOMAIN Blank \ (Filled \cup Other) : x[f] = n[f]
        /\ n.templateRef # None /\ key # None =>
             /\ Sized(t) /\ Settled(x, t)
             /\ x.strategy = IF n.strategy = None THEN t.strategy ELSE n.strategy
        /\ n.templateRef = None \/ key = None => x = n
    BY Zenon, <2>2, TemplateSettles
  <2> HIDE DEF x
  <2>4. /\ IsWorkspace(z)
        /\ \A f \in DOMAIN Blank \ {"account", "ownership", "access"} : z[f] = x[f]
        /\ z.account = IF x.account = None THEN GetDefaultServiceAccount ELSE x.account
        /\ z.ownership = IF x.ownership = None THEN "Public" ELSE x.ownership
        /\ z.access = IF x.access = None THEN z.ownership ELSE x.access
    BY Zenon, <2>3, SharedFields
  <2>5. Defaulted(w, client, old) = z
    BY Zenon, <1>2 DEF Defaulted, z, x, n, s
  <2> HIDE DEF z
  <2>6. {"owner", "updatedBy", "deleting", "desired", "templateRef", "account"}
           \subseteq DOMAIN Blank \ (Filled \cup Other)
    BY Zenon, FieldNames, NoStamp DEF Filled, Other, Stamps
  <2>7. /\ z.updatedBy = client /\ z.desired = s.desired /\ z.templateRef = n.templateRef
        /\ z.deleting = w.deleting /\ x.account = w.account
    BY <2>1, <2>2, <2>3, <2>4, <2>6
  <2>8. Stamped(z, client, z) = z
    <3>1. Fill(z, "desired", "Running") = z
      BY <2>1, <2>4, <2>6, <2>7, IdleFill
    <3>2. z # None BY Zenon, <2>4, SomeWorkspace
    <3>3. Stamped(z, client, z) = [z EXCEPT !.owner = @, !.updatedBy = client]
      BY Zenon, <3>1, <3>2 DEF Stamped
    <3>4. [z EXCEPT !.owner = @, !.updatedBy = client] = z
      BY Zenon, <2>4, <2>7 DEF IsWorkspace
    <3> QED BY Zenon, <3>3, <3>4
  <2>9. ApplyTemplateName(z) = z
    <3>1. [z EXCEPT !["templateRef"] = z.templateRef] = z
      BY Zenon, <2>4, <2>6, SameField
    <3> QED BY Zenon, <2>2, <2>7, <3>1 DEF ApplyTemplateName
  <2>10. ApplyTemplateDefaults(z) = z
    <3>1. CASE n.templateRef = None \/ key = None
      BY Zenon, <2>7, <3>1 DEF ApplyTemplateDefaults
    <3>2. CASE n.templateRef # None /\ key # None
      <4>1. {"storage", "labels", "env"} \subseteq DOMAIN Blank \ {"account", "ownership", "access"}
        BY Zenon, FilledNames DEF Other
      <4>2. z.storage = x.storage /\ z.labels = x.labels /\ z.env = x.env
        BY Zenon, <2>4, <4>1
      <4>3. \A f \in Filled : z[f] = None => x[f] = None
        BY Zenon, <2>4, FilledNames DEF Filled
      <4> HIDE DEF t
      <4>4. Settled(z, t)
        BY Zenon, <2>3, <3>2, <4>2, <4>3 DEF Settled
      <4>5. Applicators(z, t) = z
        BY Zenon, <2>3, <2>4, <3>2, <4>4, SettledStays
      <4> QED BY Zenon, <2>7, <3>2, <4>5 DEF ApplyTemplateDefaults, t
    <3> QED BY Zenon, <3>1, <3>2
  <2>11. ApplyServiceAccountDefaults(z) = z
    BY <2>4, <2>6, IdleFill DEF ApplyServiceAccountDefaults
  <2>12. SetWorkspaceSharingDefaults(z) = z
    <3>1. Fill(z, "ownership", "Public") = z
      BY <2>4, NoStamp, IdleFill
    <3>2. Fill(z, "access", z.ownership) = z
      BY <2>4, NoStamp, IdleFill
    <3> QED BY Zenon, <3>1, <3>2 DEF SetWorkspaceSharingDefaults
  <2>13. Defaulted(z, client, z) = z
    BY Zenon, <2>8, <2>9, <2>10, <2>11, <2>12 DEF Defaulted
  <2>14. ~DefaultRefuses(z)
    <3> DEFINE m == ApplyTemplateName(w)
               v == ApplyTemplateDefaults(m)
    <3>1. /\ IsWorkspace(m) /\ m.templateRef = n.templateRef /\ m.strategy = n.strategy
      BY Zenon, <2>1, <2>2, NamedFields, NoStamp
    <3> HIDE DEF m
    <3>2. v.templateRef = n.templateRef /\ v.strategy = x.strategy
      <4>1. /\ \A f \in DOMAIN Blank \ (Filled \cup Other) : v[f] = m[f]
            /\ m.templateRef # None /\ key # None =>
                 v.strategy = IF m.strategy = None THEN t.strategy ELSE m.strategy
            /\ m.templateRef = None \/ key = None => v = m
        BY Zenon, <3>1, TemplateSettles
      <4> HIDE DEF v, key, t
      <4> QED BY Zenon, <2>3, <2>6, <3>1, <4>1
    <3>3. z.templateRef = v.templateRef /\ z.strategy = v.strategy
      BY Zenon, <2>4, <2>7, <3>2, NoStamp
    <3>4. /\ ~(w.templateRef = None /\ Cardinality(Candidates) > 1)
          /\ ~(v.templateRef # None /\ ResolveTemplate(v.templateRef) = None)
          /\ ~(w.account = None /\ GetDefaultServiceAccount = None)
          /\ ValidateTemplateNamespace(v) /\ ValidateAccessStrategyNamespace(v)
          /\ StrategyFound(v)
      BY Zenon, <1>2 DEF DefaultRefuses, v, m
    <3> HIDE DEF v
    <3>5. z.templateRef = None => w.templateRef = None
      BY Zenon, <2>1, <2>2, <2>7, NoStamp
    <3>6. z.account = None => w.account = None /\ GetDefaultServiceAccount = None
      BY Zenon, <2>4, <2>7
    <3>7. /\ ValidateTemplateNamespace(z) /\ ValidateAccessStrategyNamespace(z)
          /\ StrategyFound(z)
      BY Zenon, <3>3, <3>4 DEF ValidateTemplateNamespace, ValidateAccessStrategyNamespace, StrategyFound
    <3> QED BY Zenon, <2>9, <2>10, <3>3, <3>4, <3>5, <3>6, <3>7 DEF DefaultRefuses
  <2> QED BY Zenon, <2>5, <2>13, <2>14
<1> QED BY Zenon, <1>1, <1>2

\* For any templates, default labels and accounts, a second run of the mutating webhook
\* changes nothing and refuses nothing that the first let pass
\* (Default, workspace_webhook.go; ApplyTemplateDefaults, template_defaulter.go).
THEOREM DefaultingIsIdempotent == ASSUME NoneApart PROVE Spec => []DefaultingSettles
<1>1. ASSUME IInv PROVE DefaultingSettles
  <2> SUFFICES ASSUME NEW c \in Clients, pending[c] # None, pending[c].stage = "default",
                      ~DefaultRefuses(pending[c].new)
               PROVE  LET once == Defaulted(pending[c].new, c, pending[c].new)
                      IN  ~DefaultRefuses(once) /\ Defaulted(once, c, once) = once
    BY Zenon DEF DefaultingSettles
  <2>1. IsWorkspace(pending[c].new)
    BY Zenon, <1>1 DEF IInv, Shapes, Underway
  <2> QED BY <1>1, <2>1, Twice DEF IInv
<1> QED BY <1>1, Invariance, PTL

-----------------------------------------------------------------------------
(* What a stored workspace holds, and that the operator is let in *)

\* The fields of an enumerated type, and the names of people.
Fields(w) ==
  /\ {w.owner, w.updatedBy} \subseteq Clients \cup {None}
  /\ w.desired \in Statuses \cup {None}
  /\ w.ownership \in Sharing \cup {None} /\ w.access \in Sharing \cup {None}

\* What the mutating webhook never leaves empty.
Complete(w) ==
  /\ w.desired \in Statuses /\ w.ownership \in Sharing /\ w.access \in Sharing
  /\ w.account # None

TypedWrite(p, client) ==
  /\ p.stage \in {"default", "validate", "store"}
  /\ Fields(p.new)
  /\ p.stage # "default" /\ ~p.new.deleting => Complete(p.new)
  /\ p.stage = "store" /\ ~p.new.deleting /\ client \in Users => p.new.account \in Accounts

TypedWorkspace(w) ==
  /\ Fields(w)
  /\ ~w.deleting =>
       /\ Complete(w) /\ w.updatedBy \in Clients
       /\ w.updatedBy \in Users => w.account \in Accounts

Types ==
  /\ ws # None => TypedWorkspace(ws)
  /\ \A c \in Clients : pending[c] # None => TypedWrite(pending[c], c)
  /\ \A k \in Keys : templates[k] # None => WellTyped(templates[k])
  /\ accounts \in [Accounts -> [users : SUBSET Users, labelled : BOOLEAN]]
  /\ requests \in 0..MaxRequests /\ edits \in 0..MaxEdits

\* The reference means some template, in its own namespace or in the shared one.
Resolvable(ref) == \E n \in {RefNamespace(ref), Shared} : Exists(Key(ref.name, n))

\* What the workspace refers to is in a namespace it may refer to, and the strategy is there.
Anchored(w) ==
  /\ w.templateRef # None => InScope(w.templateRef.namespace, Home)
  /\ w.strategy # None =>
       InScope(w.strategy.namespace, Home) /\ RefNamespace(w.strategy) \in Strategies

Anchors ==
  /\ ws # None /\ ~ws.deleting => Anchored(ws)
  /\ \A c \in Clients :
       pending[c] # None /\ pending[c].stage # "default" /\ ~pending[c].new.deleting
         => Anchored(pending[c].new)
  /\ \A k \in Keys :
       templates[k] # None => TemplateStrategyAllowed(templates[k], k.namespace)

AInv == Types /\ Anchors

-----------------------------------------------------------------------------
(* What defaulting makes of a write *)

\* A reference is resolved when there is a template it may mean.
LEMMA Resolves ==
  ASSUME NEW ref
  PROVE  /\ ResolveTemplate(ref) # None <=> Resolvable(ref)
         /\ ResolveTemplate(ref) # None => Exists(ResolveTemplate(ref))
<1> DEFINE first == Key(ref.name, RefNamespace(ref))
           second == Key(ref.name, Shared)
<1>1. Resolvable(ref) <=> Exists(first) \/ Exists(second)
  BY Zenon DEF Resolvable
<1>2. /\ Exists(first) => ResolveTemplate(ref) = first
      /\ ~Exists(first) /\ Exists(second) => ResolveTemplate(ref) = second
      /\ ~Exists(first) /\ ~Exists(second) => ResolveTemplate(ref) = None
  BY Zenon DEF ResolveTemplate
<1>3. \A k : Exists(k) => k # None BY Zenon, AdmissionAssumption DEF Exists
<1> HIDE DEF first, second
<1> QED BY Zenon, <1>1, <1>2, <1>3

\* What a template may put in the fields it fills in: nothing, or what it holds.
LEMMA TemplateFills ==
  ASSUME Shapes, NEW w, IsWorkspace(w)
  PROVE  LET x == ApplyTemplateDefaults(w) IN
         \A f \in Filled :
           \/ x[f] = w[f]
           \/ \E k \in Keys : templates[k] # None /\ x[f] = templates[k][f]
<1> DEFINE key == ResolveTemplate(w.templateRef)
           x == ApplyTemplateDefaults(w)
<1>1. CASE w.templateRef = None \/ key = None
  BY Zenon, <1>1 DEF ApplyTemplateDefaults
<1>2. CASE w.templateRef # None /\ key # None
  <2>1. key \in Keys /\ templates[key] # None BY Zenon, <1>2 DEF ResolveTemplate, Exists
  <2> DEFINE t == templates[key]
  <2>2. Sized(t) BY Zenon, <2>1 DEF Shapes
  <2>3. x = Applicators(w, t) BY Zenon, <1>2 DEF ApplyTemplateDefaults
  <2> HIDE DEF key, t, x
  <2>4. Partly(w, x, t, Filled \cup Other) BY Zenon, <2>2, <2>3, Applied
  <2>5. \A f \in Filled : x[f] = w[f] \/ x[f] = t[f] BY Zenon, <2>4 DEF Partly
  <2> QED BY Zenon, <2>1, <2>5 DEF t, x
<1> QED BY Zenon, <1>1, <1>2

\* What the mutating webhook makes of a write that it lets on.
LEMMA DefaultedTypes ==
  ASSUME Shapes, Types, NEW w, IsWorkspace(w), Fields(w), ~w.deleting, ~DefaultRefuses(w),
         NEW client \in Clients, NEW old
  PROVE  LET d == Defaulted(w, client, old) IN
         Fields(d) /\ Complete(d) /\ Anchored(d)
<1> DEFINE s == Stamped(w, client, old)
           n == ApplyTemplateName(s)
           x == ApplyTemplateDefaults(n)
           z == SetWorkspaceSharingDefaults(ApplyServiceAccountDefaults(x))
           m == ApplyTemplateName(w)
           v == ApplyTemplateDefaults(m)
           key == ResolveTemplate(n.templateRef)
           t == templates[key]
<1>1. /\ IsWorkspace(s) /\ s.updatedBy = client
      /\ s.owner = IF old = None THEN client ELSE w.owner
      /\ s.desired = IF w.desired = None THEN "Running" ELSE w.desired
      /\ \A f \in DOMAIN Blank \ {"owner", "updatedBy", "desired"} : s[f] = w[f]
  BY StampedFields
<1> HIDE DEF s
<1>2. /\ IsWorkspace(n)
      /\ \A f \in DOMAIN Blank \ {"templateRef"} : n[f] = s[f]
      /\ n.templateRef = IF s.templateRef # None \/ Candidates = {} THEN s.templateRef
                         ELSE CHOOSE k \in Candidates : TRUE
  BY Zenon, <1>1, NamedFields
<1> HIDE DEF n
<1>3. /\ IsWorkspace(x)
      /\ \A f \in DOMAIN Blank \ (Filled \cup Other) : x[f] = n[f]
      /\ n.templateRef # None /\ key # None =>
           x.strategy = IF n.strategy = None THEN t.strategy ELSE n.strategy
      /\ n.templateRef = None \/ key = None => x = n
  BY Zenon, <1>2, TemplateSettles
<1>4. \A f \in Filled :
        x[f] = n[f] \/ \E k \in Keys : templates[k] # None /\ x[f] = templates[k][f]
  BY Zenon, <1>2, TemplateFills
<1> HIDE DEF x
<1>5. /\ IsWorkspace(z)
      /\ \A f \in DOMAIN Blank \ {"account", "ownership", "access"} : z[f] = x[f]
      /\ z.account = IF x.account = None THEN GetDefaultServiceAccount ELSE x.account
      /\ z.ownership = IF x.ownership = None THEN "Public" ELSE x.ownership
      /\ z.access = IF x.access = None THEN z.ownership ELSE x.access
  BY Zenon, <1>3, SharedFields
<1>6. Defaulted(w, client, old) = z
  BY Zenon DEF Defaulted, z, x, n, s
<1> HIDE DEF z
<1>7. {"owner", "updatedBy", "deleting", "desired", "templateRef", "account"}
         \subseteq DOMAIN Blank \ (Filled \cup Other)
  BY Zenon, FieldNames, NoStamp DEF Filled, Other, Stamps
<1>8. /\ z.updatedBy = client /\ z.owner = s.owner /\ z.desired = s.desired
      /\ z.templateRef = n.templateRef /\ x.account = w.account
  BY Zenon, <1>1, <1>2, <1>3, <1>5, <1>7
<1>9. /\ IsWorkspace(m) /\ m.templateRef = n.templateRef /\ m.strategy = n.strategy
  BY Zenon, <1>1, <1>2, NamedFields, NoStamp
<1> HIDE DEF m
<1>10. v.templateRef = n.templateRef /\ v.strategy = x.strategy
  <2>1. /\ \A f \in DOMAIN Blank \ (Filled \cup Other) : v[f] = m[f]
        /\ m.templateRef # None /\ key # None =>
             v.strategy = IF m.strategy = None THEN t.strategy ELSE m.strategy
        /\ m.templateRef = None \/ key = None => v = m
    BY Zenon, <1>9, TemplateSettles
  <2> HIDE DEF v, key, t
  <2> QED BY Zenon, <1>3, <1>7, <1>9, <2>1
<1>11. z.templateRef = v.templateRef /\ z.strategy = v.strategy
  BY Zenon, <1>5, <1>8, <1>10, NoStamp
<1>12. /\ ~(v.templateRef # None /\ ResolveTemplate(v.templateRef) = None)
       /\ ~(w.account = None /\ GetDefaultServiceAccount = None)
       /\ ValidateTemplateNamespace(v) /\ ValidateAccessStrategyNamespace(v)
       /\ StrategyFound(v)
  BY Zenon DEF DefaultRefuses, v, m
<1> HIDE DEF v
<1>13. Anchored(z)
  BY Zenon, <1>11, <1>12 DEF Anchored, ValidateTemplateNamespace,
     ValidateAccessStrategyNamespace, StrategyFound
<1>14. z.desired \in Statuses /\ {z.owner, z.updatedBy} \subseteq Clients \cup {None}
  BY Zenon, <1>1, <1>8 DEF Fields, Statuses
<1>15. z.account # None BY Zenon, <1>5, <1>8, <1>12
<1>16. x.ownership \in Sharing \cup {None} /\ x.access \in Sharing \cup {None}
  <2>1. {"ownership", "access"} \subseteq Filled /\ n.ownership = w.ownership /\ n.access = w.access
    BY Zenon, <1>1, <1>2, NoStamp DEF Filled
  <2>2. \A k \in Keys : templates[k] # None =>
          templates[k].ownership \in Sharing \cup {None} /\ templates[k].access \in Sharing \cup {None}
    BY Zenon DEF Types, WellTyped, SharingSet
  <2>3. x.ownership = w.ownership
          \/ \E k \in Keys : templates[k] # None /\ x.ownership = templates[k].ownership
    BY Zenon, <1>4, <2>1
  <2>4. x.access = w.access
          \/ \E k \in Keys : templates[k] # None /\ x.access = templates[k].access
    BY Zenon, <1>4, <2>1
  <2> QED BY Zenon, <2>2, <2>3, <2>4 DEF Fields
<1>17. z.ownership \in Sharing /\ z.access \in Sharing
  BY Zenon, <1>5, <1>16 DEF Sharing
<1>18. Fields(z) /\ Complete(z)
  BY Zenon, <1>14, <1>15, <1>17 DEF Fields, Complete
<1> QED BY Zenon, <1>6, <1>13, <1>18

-----------------------------------------------------------------------------
(* The steps *)

\* Types and anchors hold at first.
LEMMA InitTypes == Init => AInv
<1> SUFFICES ASSUME Init PROVE AInv BY Zenon
<1>1. /\ ws = None /\ templates = Contents /\ pending = [c \in Clients |-> None]
      /\ requests = 0 /\ edits = 0
      /\ accounts = [s \in Accounts |-> [users |-> {}, labelled |-> FALSE]]
  BY Zenon DEF Init
<1>2. accounts \in [Accounts -> [users : SUBSET Users, labelled : BOOLEAN]]
  BY Zenon, <1>1
<1>3. requests \in 0..MaxRequests /\ edits \in 0..MaxEdits
  BY <1>1, AdmissionAssumption
<1>4. Types BY Zenon, <1>1, <1>2, <1>3, TemplatesAssumption DEF Types
<1>5. Anchors BY Zenon, <1>1, AdmittedAssumption DEF Anchors
<1> QED BY Zenon, <1>4, <1>5 DEF AInv

\* One client's request changes and the others stay.
LEMMA OthersTyped ==
  ASSUME IInv, AInv, NEW client \in Clients, NEW q,
         pending' = [pending EXCEPT ![client] = q],
         q # None => TypedWrite(q, client),
         q # None /\ q.stage # "default" /\ ~q.new.deleting => Anchored(q.new),
         UNCHANGED <<ws, templates, accounts, edits>>, requests' \in 0..MaxRequests
  PROVE  AInv'
<1>1. \A c \in Clients : pending'[c] = IF c = client THEN q ELSE pending[c]
  BY Zenon DEF IInv, Shapes
<1>2. Types' BY Zenon, <1>1 DEF AInv, Types
<1>3. Anchors' BY Zenon, <1>1 DEF AInv, Anchors
<1> QED BY Zenon, <1>2, <1>3 DEF AInv

\* A change put over a workspace leaves each field with one of its values.
LEMMA SubmitTyped ==
  ASSUME IInv, AInv, NEW client \in Clients, NEW change \in Changes[client],
         Submit(client, change)
  PROVE  AInv'
<1> DEFINE base == IF ws = None THEN Blank ELSE ws
           w == Over(change, base)
           q == [stage |-> "default", old |-> ws, seen |-> None, new |-> w]
<1>1. DOMAIN base = DOMAIN Blank
  BY Zenon DEF IInv, Shapes, IsWorkspace
<1>2. Fields(base)
  BY Zenon DEF Fields, Blank, AInv, Types, TypedWorkspace
<1>3. /\ DOMAIN change \subseteq DOMAIN Blank \ {"deleting"}
      /\ "desired" \in DOMAIN change => change.desired \in Statuses \cup {None}
      /\ SharingSet(change)
      /\ \A f \in {"owner", "updatedBy"} \cap DOMAIN change : change[f] \in Clients \cup {None}
  BY Zenon, ChangesAssumption
<1> HIDE DEF base
<1>4. \A f \in DOMAIN Blank : w[f] = IF f \in DOMAIN change THEN change[f] ELSE base[f]
  BY Zenon, <1>1, <1>3 DEF Over
<1> HIDE DEF w
<1>5. {"owner", "updatedBy", "desired", "ownership", "access"} \subseteq DOMAIN Blank
  BY Zenon, FieldNames DEF Stamps
<1>6. Fields(w)
  <2>1. {w.owner, w.updatedBy} \subseteq Clients \cup {None}
    BY <1>2, <1>3, <1>4, <1>5 DEF Fields
  <2>2. w.desired \in Statuses \cup {None}
    BY Zenon, <1>2, <1>3, <1>4, <1>5 DEF Fields
  <2>3. w.ownership \in Sharing \cup {None} /\ w.access \in Sharing \cup {None}
    BY Zenon, <1>2, <1>3, <1>4, <1>5 DEF Fields, SharingSet
  <2> QED BY Zenon, <2>1, <2>2, <2>3 DEF Fields
<1>7. TypedWrite(q, client) /\ q.stage = "default" BY Zenon, <1>6 DEF TypedWrite
<1>8. /\ pending' = [pending EXCEPT ![client] = q]
      /\ UNCHANGED <<ws, templates, accounts, edits>>
  BY Zenon DEF Submit, w, base
<1>9. requests' \in 0..MaxRequests
  BY AdmissionAssumption DEF Submit, AInv, Types
<1> HIDE DEF q
<1> QED BY Zenon, <1>7, <1>8, <1>9, OthersTyped

\* The mutating webhook fills in the empty fields.
LEMMA DefaultTyped ==
  ASSUME IInv, AInv, NEW client \in Clients, Default(client)
  PROVE  AInv'
<1> DEFINE p == pending[client]
           d == Defaulted(p.new, client, p.old)
           q == [p EXCEPT !.stage = "validate", !.new = d]
<1>1. /\ Underway(p, client) /\ TypedWrite(p, client) /\ Shapes /\ Types
  BY Zenon DEF Default, IInv, Shapes, AInv, Types
<1>2. UNCHANGED <<ws, templates, accounts, edits>> /\ requests' \in 0..MaxRequests
  BY Zenon DEF Default, AInv, Types
<1>3. \/ pending' = [pending EXCEPT ![client] = None]
      \/ ~DefaultRefuses(p.new) /\ pending' = [pending EXCEPT ![client] = q]
  BY Zenon DEF Default, Answer
<1> HIDE DEF p
<1>4. CASE pending' = [pending EXCEPT ![client] = None]
  BY Zenon, <1>2, <1>4, OthersTyped
<1>5. CASE ~DefaultRefuses(p.new) /\ pending' = [pending EXCEPT ![client] = q]
  <2>1. IsWorkspace(p.new) /\ Fields(p.new) BY Zenon, <1>1 DEF Underway, TypedWrite
  <2>2. d.deleting = p.new.deleting BY <1>1, <2>1, DefaultedStamps
  <2>3. ~p.new.deleting => Fields(d) /\ Complete(d) /\ Anchored(d)
    BY Zenon, <1>1, <1>5, <2>1, DefaultedTypes
  <2>4. p.new.deleting => d = p.new BY Zenon DEF Defaulted
  <2> HIDE DEF d
  <2>5. q.stage = "validate" /\ q.new = d
    <3>1. DOMAIN p = {"stage", "old", "seen", "new"} BY Zenon, <1>1 DEF Underway, IsRequest
    <3> QED BY Zenon, <3>1
  <2> HIDE DEF q
  <2>6. TypedWrite(q, client)
    BY Zenon, <2>1, <2>2, <2>3, <2>4, <2>5 DEF TypedWrite
  <2>7. ~q.new.deleting => Anchored(q.new)
    BY Zenon, <2>2, <2>3, <2>5
  <2> QED BY Zenon, <1>2, <1>5, <2>6, <2>7, OthersTyped
<1> QED BY Zenon, <1>3, <1>4, <1>5

\* A user's write that is let on runs under an account that exists.
LEMMA ValidateTyped ==
  ASSUME IInv, AInv, NEW client \in Clients, Validate(client)
  PROVE  AInv'
<1> DEFINE p == pending[client]
           s == IF Checked(p, client) THEN ContentOf(p.new) ELSE None
           q == [p EXCEPT !.stage = "store", !.seen = s]
<1>1. /\ Underway(p, client) /\ TypedWrite(p, client) /\ p.stage = "validate"
      /\ ~p.new.deleting => Anchored(p.new)
  BY Zenon DEF Validate, IInv, Shapes, AInv, Types, Anchors
<1>2. UNCHANGED <<ws, templates, accounts, edits>> /\ requests' \in 0..MaxRequests
  BY Zenon DEF Validate, AInv, Types
<1>3. \/ pending' = [pending EXCEPT ![client] = None]
      \/ /\ pending' = [pending EXCEPT ![client] = q]
         /\ IF p.old = None THEN ValidateCreate(p.new, client)
                            ELSE ValidateUpdate(p.old, p.new, client)
  BY Zenon DEF Validate, Answer
<1> HIDE DEF p, s
<1>4. CASE pending' = [pending EXCEPT ![client] = None]
  BY Zenon, <1>2, <1>4, OthersTyped
<1>5. CASE /\ pending' = [pending EXCEPT ![client] = q]
           /\ ValidateCreate(p.new, client) \/ ValidateUpdate(p.old, p.new, client)
  <2>1. q.stage = "store" /\ q.new = p.new
    <3>1. DOMAIN p = {"stage", "old", "seen", "new"} BY Zenon, <1>1 DEF Underway, IsRequest
    <3> QED BY Zenon, <3>1
  <2>2. ASSUME ~p.new.deleting, client \in Users PROVE p.new.account \in Accounts
    <3>1. ~IsControllerOrAdminUser(client)
      BY Zenon, <2>2, AdmissionAssumption DEF IsControllerOrAdminUser
    <3>2. ValidateServiceAccountAccess(p.new, client)
      BY Zenon, <1>5, <2>2, <3>1 DEF ValidateCreate, ValidateUpdate
    <3>3. p.new.account # None BY Zenon, <1>1, <2>2 DEF TypedWrite, Complete
    <3> QED BY Zenon, <3>2, <3>3 DEF ValidateServiceAccountAccess
  <2> HIDE DEF q
  <2>3. TypedWrite(q, client) BY Zenon, <1>1, <2>1, <2>2 DEF TypedWrite
  <2>4. ~q.new.deleting => Anchored(q.new) BY Zenon, <1>1, <2>1
  <2> QED BY Zenon, <1>2, <1>5, <2>3, <2>4, OthersTyped
<1> QED BY Zenon, <1>3, <1>4, <1>5

\* What is stored is what was checked.
LEMMA StoreTyped ==
  ASSUME IInv, AInv, NEW client \in Clients, Store(client)
  PROVE  AInv'
<1> DEFINE p == pending[client]
<1>1. /\ Underway(p, client) /\ TypedWrite(p, client) /\ p.stage = "store"
      /\ ~p.new.deleting => Anchored(p.new)
  BY Zenon DEF Store, IInv, Shapes, AInv, Types, Anchors
<1>2. /\ pending' = [pending EXCEPT ![client] = None]
      /\ UNCHANGED <<templates, accounts, requests, edits>>
      /\ ws' = ws \/ ws' = p.new
  BY Zenon DEF Store, Answer
<1> HIDE DEF p
<1>3. requests' \in 0..MaxRequests BY Zenon, <1>2 DEF AInv, Types
<1>4. CASE ws' = ws
  BY Zenon, <1>2, <1>3, <1>4, OthersTyped
<1>5. CASE ws' = p.new
  <2>1. \A c \in Clients : pending'[c] = IF c = client THEN None ELSE pending[c]
    BY Zenon, <1>2 DEF IInv, Shapes
  <2>2. TypedWorkspace(p.new)
    <3>1. ~p.new.deleting => p.new.updatedBy = client BY Zenon, <1>1 DEF Underway
    <3> QED BY Zenon, <1>1, <3>1 DEF TypedWrite, TypedWorkspace
  <2>3. Types' BY Zenon, <1>2, <1>5, <2>1, <2>2 DEF AInv, Types
  <2>4. Anchors' BY Zenon, <1>1, <1>2, <1>5, <2>1 DEF AInv, Anchors
  <2> QED BY Zenon, <2>3, <2>4 DEF AInv
<1> QED BY Zenon, <1>2, <1>4, <1>5

\* A workspace that is marked for deletion keeps its fields.
LEMMA DeleteTyped ==
  ASSUME IInv, AInv, NEW client \in Clients, Delete(client)
  PROVE  AInv'
<1>1. /\ UNCHANGED <<templates, accounts, pending, edits>> /\ ws # None
      /\ ws' = [ws EXCEPT !.deleting = TRUE]
  BY Zenon DEF Delete
<1>2. requests' \in 0..MaxRequests BY AdmissionAssumption DEF Delete, AInv, Types
<1>3. ws'.deleting = TRUE /\ Fields(ws')
  <2>1. DOMAIN ws = DOMAIN Blank /\ Fields(ws)
    BY Zenon, <1>1 DEF IInv, Shapes, IsWorkspace, AInv, Types, TypedWorkspace
  <2>2. /\ ws'.deleting = TRUE /\ ws'.owner = ws.owner /\ ws'.updatedBy = ws.updatedBy
        /\ ws'.desired = ws.desired /\ ws'.ownership = ws.ownership /\ ws'.access = ws.access
    BY Zenon, <1>1, <2>1, FieldNames DEF Stamps
  <2> QED BY Zenon, <2>1, <2>2 DEF Fields
<1>4. TypedWorkspace(ws') BY Zenon, <1>3 DEF TypedWorkspace
<1>5. Types' BY Zenon, <1>1, <1>2, <1>4 DEF AInv, Types
<1>6. Anchors' BY Zenon, <1>1, <1>3 DEF AInv, Anchors
<1> QED BY Zenon, <1>5, <1>6 DEF AInv

\* A template changes or goes away, and what is stored or under way stays.
LEMMA TemplateTyped ==
  ASSUME IInv, AInv, NEW k \in Keys, NEW t, templates' = [templates EXCEPT ![k] = t],
         t # None => WellTyped(t) /\ TemplateStrategyAllowed(t, k.namespace),
         UNCHANGED <<ws, accounts, pending, requests>>, edits' \in 0..MaxEdits
  PROVE  AInv'
<1>1. \A j \in Keys : templates'[j] = IF j = k THEN t ELSE templates[j]
  BY Zenon DEF IInv, Shapes
<1>2. Types' BY Zenon, <1>1 DEF AInv, Types
<1>3. Anchors' BY Zenon, <1>1 DEF AInv, Anchors
<1> QED BY Zenon, <1>2, <1>3 DEF AInv

\* An admin creates or edits a template: the template webhook has checked its strategy.
LEMMA EditTemplateTyped ==
  ASSUME IInv, AInv, NEW k \in Keys, NEW patch \in Patches[k], EditTemplate(k, patch)
  PROVE  AInv'
<1> DEFINE base == IF templates[k] = None THEN Bare ELSE templates[k]
           t == Over(patch, base)
<1>1. /\ templates' = [templates EXCEPT ![k] = t] /\ TemplateStrategyAllowed(t, k.namespace)
      /\ UNCHANGED <<ws, accounts, pending, requests>>
  BY Zenon DEF EditTemplate
<1>2. edits' \in 0..MaxEdits BY AdmissionAssumption DEF EditTemplate, AInv, Types
<1>3. WellTyped(base) BY Zenon, TemplatesAssumption DEF AInv, Types
<1>4. ("storage" \in DOMAIN patch => Sized(patch)) /\ SharingSet(patch)
  BY Zenon, TemplatesAssumption
<1> HIDE DEF base
<1>5. /\ t = [x \in DOMAIN t |-> t[x]] /\ DOMAIN t = DOMAIN patch \cup DOMAIN base
      /\ \A x \in DOMAIN t : t[x] = IF x \in DOMAIN patch THEN patch[x] ELSE base[x]
  BY Zenon DEF Over
<1> HIDE DEF t
<1>6. {"storage", "ownership", "access"} \subseteq DOMAIN base /\ DOMAIN base \subseteq DOMAIN t
  BY Zenon, <1>3, <1>5 DEF WellTyped, Sized
<1>7. Sized(t)
  <2>1. t.storage = IF "storage" \in DOMAIN patch THEN patch.storage ELSE base.storage
    BY Zenon, <1>5, <1>6
  <2> QED BY Zenon, <1>3, <1>4, <1>6, <2>1 DEF WellTyped, Sized
<1>8. SharingSet(t)
  BY Zenon, <1>3, <1>4, <1>5, <1>6 DEF WellTyped, SharingSet
<1>9. WellTyped(t) BY Zenon, <1>6, <1>7, <1>8 DEF WellTyped
<1> QED BY Zenon, <1>1, <1>2, <1>9, TemplateTyped

\* Every step keeps types and anchors.
LEMMA NextTyped == IInv /\ AInv /\ [Next]_vars => AInv'
<1> SUFFICES ASSUME IInv, AInv, [Next]_vars PROVE AInv' OBVIOUS
<1>1. ASSUME UNCHANGED <<ws, templates, pending, requests>>, edits' \in 0..MaxEdits,
             accounts' \in [Accounts -> [users : SUBSET Users, labelled : BOOLEAN]]
      PROVE  AInv'
  <2>1. Types' BY Zenon, <1>1 DEF AInv, Types
  <2>2. Anchors' BY Zenon, <1>1 DEF AInv, Anchors
  <2> QED BY Zenon, <2>1, <2>2 DEF AInv
<1>2. CASE UNCHANGED vars
  BY Zenon, <1>1, <1>2 DEF vars, AInv, Types
<1>3. CASE \E c \in Clients : \E change \in Changes[c] : Submit(c, change)
  BY Zenon, <1>3, SubmitTyped
<1>4. CASE \E c \in Clients : Default(c)
  BY Zenon, <1>4, DefaultTyped
<1>5. CASE \E c \in Clients : Validate(c)
  BY Zenon, <1>5, ValidateTyped
<1>6. CASE \E c \in Clients : Store(c)
  BY Zenon, <1>6, StoreTyped
<1>7. CASE \E c \in Clients : Delete(c)
  BY Zenon, <1>7, DeleteTyped
<1>8. CASE Finalize
  <2>1. ws' = None /\ UNCHANGED <<templates, accounts, pending, requests, edits>>
    BY Zenon, <1>8 DEF Finalize
  <2>2. Types' BY Zenon, <2>1 DEF AInv, Types
  <2>3. Anchors' BY Zenon, <2>1 DEF AInv, Anchors
  <2> QED BY Zenon, <2>2, <2>3 DEF AInv
<1>9. CASE EnsurePVCExists
  BY Zenon, <1>1, <1>9 DEF EnsurePVCExists, AInv, Types
<1>10. CASE \E k \in Keys : \E patch \in Patches[k] : EditTemplate(k, patch)
  BY Zenon, <1>10, EditTemplateTyped
<1>11. CASE \E k \in Keys : RemoveTemplate(k)
  <2>1. PICK k \in Keys : RemoveTemplate(k) BY Zenon, <1>11
  <2>2. edits' \in 0..MaxEdits BY <2>1, AdmissionAssumption DEF RemoveTemplate, AInv, Types
  <2> QED BY Zenon, <2>1, <2>2, TemplateTyped DEF RemoveTemplate
<1>12. CASE \E s \in Accounts, grant \in Grants : EditAccount(s, grant)
  <2>1. PICK s \in Accounts, grant \in Grants : EditAccount(s, grant) BY Zenon, <1>12
  <2>2. grant \in [users : SUBSET Users, labelled : BOOLEAN] BY Zenon, AdmissionAssumption
  <2>3. accounts' \in [Accounts -> [users : SUBSET Users, labelled : BOOLEAN]]
    BY Zenon, <2>1, <2>2 DEF EditAccount, AInv, Types
  <2>4. edits' \in 0..MaxEdits BY <2>1, AdmissionAssumption DEF EditAccount, AInv, Types
  <2> QED BY Zenon, <1>1, <2>1, <2>3, <2>4 DEF EditAccount
<1>13. CASE ReadWorkspace
  BY Zenon, <1>1, <1>13 DEF ReadWorkspace, AInv, Types
<1>14. CASE \E c \in Clients : WebhookFails(c)
  BY Zenon, <1>14, OthersTyped DEF WebhookFails, Answer, AInv, Types
<1> QED
  BY Zenon, <1>2, <1>3, <1>4, <1>5, <1>6, <1>7, <1>8, <1>9, <1>10, <1>11, <1>12, <1>13,
     <1>14 DEF Next

\* What AInv says holds in every reachable state.
THEOREM TypesAndAnchors == Spec => []AInv
BY InitTypes, NextTyped, Invariance, PTL DEF Spec

\* In every reachable state a live workspace has each default that the mutating webhook
\* always fills in, and one that a user wrote last runs under an account that exists
\* (Default and ValidateUpdate, workspace_webhook.go).
THEOREM TypeCorrect == Spec => []TypeOK
<1>1. ASSUME IInv, AInv PROVE TypeOK
  <2>1. ws # None => IsWorkspace(ws) /\ TypedWorkspace(ws)
    BY Zenon, <1>1 DEF IInv, Shapes, AInv, Types
  <2>2. ws # None =>
          /\ DOMAIN ws = DOMAIN Blank
          /\ {ws.owner, ws.updatedBy} \subseteq Clients \cup {None}
          /\ ws.deleting \in BOOLEAN /\ ws.storage \in Size
          /\ ~ws.deleting =>
               /\ ws.updatedBy \in Clients
               /\ ws.desired \in Statuses
               /\ ws.ownership \in Sharing /\ ws.access \in Sharing
               /\ ws.account # None
               /\ ws.updatedBy \in Users => ws.account \in Accounts
    BY Zenon, <2>1 DEF IsWorkspace, TypedWorkspace, Fields, Complete
  <2>3. DOMAIN templates = Keys /\ claim \in Nat /\ copy \in Size /\ exempt \in BOOLEAN
    BY Zenon, <1>1 DEF IInv, Shapes
  <2>4. \A s \in Accounts : accounts[s].users \subseteq Users /\ accounts[s].labelled \in BOOLEAN
    BY Zenon, <1>1 DEF AInv, Types
  <2>5. \A c \in Clients : pending[c] # None =>
          pending[c].stage \in {"default", "validate", "store"}
    BY Zenon, <1>1 DEF AInv, Types, TypedWrite
  <2>6. requests \in 0..MaxRequests /\ edits \in 0..MaxEdits
    BY Zenon, <1>1 DEF AInv, Types
  <2> QED BY Zenon, <2>2, <2>3, <2>4, <2>5, <2>6 DEF TypeOK
<1> QED BY <1>1, Invariance, TypesAndAnchors, PTL

-----------------------------------------------------------------------------
(* The operator is let in *)

\* A template that names its default strategy's namespace gives a strategy that is found
\* from the workspace's namespace too.
LEMMA StrategyReached ==
  ASSUME NEW t, NEW k \in Keys, TemplateStrategyAllowed(t, k.namespace),
         t.strategy # None, t.strategy.namespace # None
  PROVE  InScope(t.strategy.namespace, Home) /\ RefNamespace(t.strategy) \in Strategies
BY Zenon, AdmissionAssumption DEF TemplateStrategyAllowed, InScope, RefNamespace, Namespaces

\* The mutating webhook refuses no write that leaves a live workspace as it is stored, as
\* long as there is a template for its reference.
LEMMA LetIn ==
  ASSUME Shapes, NEW w, IsWorkspace(w), ~w.deleting, Complete(w), Anchored(w), TemplateFound(w),
         \A k \in Keys : templates[k] # None => TemplateStrategyAllowed(templates[k], k.namespace),
         Unambiguous
  PROVE  ~DefaultRefuses(w)
<1> DEFINE n == ApplyTemplateName(w)
           x == ApplyTemplateDefaults(n)
           key == ResolveTemplate(n.templateRef)
           t == templates[key]
<1>1. /\ IsWorkspace(n)
      /\ \A f \in DOMAIN Blank \ {"templateRef"} : n[f] = w[f]
      /\ n.templateRef = IF w.templateRef # None \/ Candidates = {} THEN w.templateRef
                         ELSE CHOOSE k \in Candidates : TRUE
  BY Zenon, NamedFields
<1> HIDE DEF n
<1>2. /\ \A f \in DOMAIN Blank \ (Filled \cup Other) : x[f] = n[f]
      /\ n.templateRef # None /\ key # None =>
           x.strategy = IF n.strategy = None THEN t.strategy ELSE n.strategy
      /\ n.templateRef = None \/ key = None => x = n
  BY Zenon, <1>1, TemplateSettles
<1> HIDE DEF x
<1>3. n.strategy = w.strategy /\ x.templateRef = n.templateRef
  <2>1. "templateRef" \in DOMAIN Blank \ (Filled \cup Other)
    BY Zenon, FieldNames DEF Filled, Other
  <2> QED BY Zenon, <1>1, <1>2, <2>1, NoStamp
<1>4. ~(w.templateRef = None /\ Cardinality(Candidates) > 1)
  BY Zenon DEF Unambiguous, Candidates, Namespaces
<1>5. n.templateRef # None =>
        Resolvable(n.templateRef) /\ InScope(n.templateRef.namespace, Home)
  <2>1. CASE w.templateRef # None \/ Candidates = {}
    BY Zenon, <1>1, <2>1, Resolves DEF Anchored, TemplateFound
  <2>2. CASE w.templateRef = None /\ Candidates # {}
    <3>1. n.templateRef \in Candidates BY Zenon, <1>1, <2>2
    <3>2. n.templateRef \in Keys /\ templates[n.templateRef] # None
      BY Zenon, <3>1 DEF Candidates, FindDefaultTemplates, Exists
    <3>3. /\ n.templateRef = Key(n.templateRef.name, n.templateRef.namespace)
          /\ n.templateRef.namespace \in Namespaces /\ n.templateRef.namespace # None
      BY Zenon, <3>2, AdmissionAssumption DEF Key
    <3>4. RefNamespace(n.templateRef) = n.templateRef.namespace
      BY Zenon, <3>3 DEF RefNamespace
    <3>5. Resolvable(n.templateRef)
      BY Zenon, <3>2, <3>3, <3>4 DEF Resolvable, Exists
    <3> QED BY Zenon, <3>3, <3>5 DEF InScope, Namespaces
  <2> QED BY Zenon, <2>1, <2>2
<1>6. n.templateRef # None => key # None /\ key \in Keys /\ templates[key] # None
  BY Zenon, <1>5, Resolves DEF Exists
<1>7. x.strategy # None =>
        InScope(x.strategy.namespace, Home) /\ RefNamespace(x.strategy) \in Strategies
  <2>1. CASE x.strategy = w.strategy
    BY Zenon, <2>1 DEF Anchored
  <2>2. CASE x.strategy # w.strategy
    <3>1. n.templateRef # None /\ x.strategy = t.strategy BY Zenon, <1>2, <1>3, <1>6, <2>2
    <3>2. key \in Keys /\ t # None /\ TemplateStrategyAllowed(t, key.namespace)
      BY Zenon, <1>6, <3>1
    <3>3. t.strategy # None => t.strategy.namespace # None
      BY Zenon, <3>2 DEF Unambiguous, Exists
    <3> HIDE DEF t, key
    <3> QED BY Zenon, <3>1, <3>2, <3>3, StrategyReached
  <2> QED BY Zenon, <2>1, <2>2
<1>8. w.account # None BY Zenon DEF Complete
<1>9. /\ ~(x.templateRef # None /\ ResolveTemplate(x.templateRef) = None)
      /\ ValidateTemplateNamespace(x) /\ ValidateAccessStrategyNamespace(x)
      /\ StrategyFound(x)
  BY Zenon, <1>3, <1>5, <1>6, <1>7 DEF ValidateTemplateNamespace, ValidateAccessStrategyNamespace,
     StrategyFound
<1> QED BY Zenon, <1>4, <1>8, <1>9 DEF DefaultRefuses, x, n

\* For any templates, accounts and requests: as long as each namespace has at most one
\* default template and each default strategy is named with its namespace, the webhooks
\* admit the operator's write of any live workspace whose template is there (Default and ValidateUpdate,
\* workspace_webhook.go; ResolveTemplate, template_resolver.go).
THEOREM OperatorIsAdmitted == Spec => []OperatorAdmitted
<1>1. ASSUME IInv, AInv PROVE OperatorAdmitted
  <2> SUFFICES ASSUME Unambiguous, ws # None, ~ws.deleting, TemplateFound(ws),
                      NEW c \in Privileged
               PROVE  ~DefaultRefuses(ws) /\ ValidateUpdate(ws, Defaulted(ws, c, ws), c)
    BY Zenon DEF OperatorAdmitted, NeverWedged
  <2>1. Shapes /\ IsWorkspace(ws) /\ Complete(ws)
    BY Zenon, <1>1 DEF IInv, Shapes, AInv, Types, TypedWorkspace
  <2>2. /\ Anchored(ws)
        /\ \A k \in Keys :
             templates[k] # None => TemplateStrategyAllowed(templates[k], k.namespace)
    BY Zenon, <1>1 DEF AInv, Anchors
  <2>3. ~DefaultRefuses(ws) BY Zenon, <2>1, <2>2, LetIn
  <2>4. ValidateUpdate(ws, Defaulted(ws, c, ws), c)
    BY Zenon DEF ValidateUpdate, IsControllerOrAdminUser
  <2> QED BY Zenon, <2>3, <2>4
<1> QED BY <1>1, Invariance, TypesAndAnchors, PTL

-----------------------------------------------------------------------------
(* Three steps of admission amount to one *)

\* What the checks of an update by a user have shown, whatever happens before it is stored.
Allowed(p, client) ==
  /\ ValidateReservedPrefixOnUpdate(p.old, p.new)
  /\ ValidateOwnership(p.old, p.new, client)
  /\ ValidateVolumeOwnership(p.new)
  /\ NeedsTemplateCheck(p.old, p.new) => p.seen # None

Lawful(p, client) ==
  /\ p.stage # "default" /\ ~p.new.deleting /\ p.old = None => p.new.owner = client
  /\ p.stage = "store" /\ ~p.new.deleting =>
       /\ p.seen # None => p.new.templateRef # None
       /\ p.seen # None /\ p.old # None => client \notin Privileged
       /\ p.old = None => /\ ValidateVolumeOwnership(p.new)
                          /\ client \notin Privileged => ValidateReservedPrefix(p.new)
       /\ p.old # None /\ client \notin Privileged => Allowed(p, client)

AllLawful == \A c \in Clients : pending[c] # None => Lawful(pending[c], c)

\* A step of one client leaves the writes of the others as they are.
LEMMA OthersLawful ==
  ASSUME Shapes, AllLawful, NEW client \in Clients, NEW q,
         pending' = [pending EXCEPT ![client] = q],
         q # None => Lawful(q, client)
  PROVE  AllLawful'
<1>1. \A c \in Clients : pending'[c] = IF c = client THEN q ELSE pending[c]
  BY Zenon DEF Shapes
<1> QED BY Zenon, <1>1 DEF AllLawful

\* Who creates a workspace is stamped as its owner.
LEMMA DefaultLawful ==
  ASSUME IInv, AllLawful, NEW client \in Clients, Default(client)
  PROVE  AllLawful'
<1> DEFINE p == pending[client]
           d == Defaulted(p.new, client, p.old)
           q == [p EXCEPT !.stage = "validate", !.new = d]
<1>1. Underway(p, client) /\ Shapes BY Zenon DEF Default, IInv, Shapes
<1>2. pending' = [pending EXCEPT ![client] = None] \/ pending' = [pending EXCEPT ![client] = q]
  BY Zenon DEF Default, Answer
<1> HIDE DEF p
<1>3. d.deleting = p.new.deleting /\ (~d.deleting /\ p.old = None => d.owner = client)
  <2>1. IsWorkspace(p.new) BY Zenon, <1>1 DEF Underway
  <2>2. /\ d.deleting = p.new.deleting
        /\ ~p.new.deleting => (p.old = None => d.owner = client)
    BY <1>1, <2>1, DefaultedStamps
  <2> QED BY Zenon, <2>2
<1> HIDE DEF d
<1>4. q.stage = "validate" /\ q.old = p.old /\ q.new = d
  <2>1. DOMAIN p = {"stage", "old", "seen", "new"} BY Zenon, <1>1 DEF Underway, IsRequest
  <2> QED BY Zenon, <2>1
<1> HIDE DEF q
<1>5. Lawful(q, client) BY Zenon, <1>3, <1>4 DEF Lawful
<1> QED BY Zenon, <1>1, <1>2, <1>5, OthersLawful

\* The validating webhook lets on what is lawful.
LEMMA ValidateLawful ==
  ASSUME IInv, AllLawful, NEW client \in Clients, Validate(client)
  PROVE  AllLawful'
<1> DEFINE p == pending[client]
           s == IF Checked(p, client) THEN ContentOf(p.new) ELSE None
           q == [p EXCEPT !.stage = "store", !.seen = s]
<1>1. Underway(p, client) /\ Shapes /\ Lawful(p, client) /\ p.stage = "validate"
  BY Zenon DEF Validate, IInv, Shapes, AllLawful
<1>2. \/ pending' = [pending EXCEPT ![client] = None]
      \/ /\ pending' = [pending EXCEPT ![client] = q]
         /\ IF p.old = None THEN ValidateCreate(p.new, client)
                            ELSE ValidateUpdate(p.old, p.new, client)
  BY Zenon DEF Validate, Answer
<1> HIDE DEF p
<1>3. /\ s # None => p.new.templateRef # None
      /\ s # None /\ p.old # None => client \notin Privileged
      /\ p.old # None /\ client \notin Privileged /\ NeedsTemplateCheck(p.old, p.new)
           => s = ContentOf(p.new)
  BY Zenon DEF Checked, ContentOf, IsControllerOrAdminUser
<1> HIDE DEF s
<1>4. q.stage = "store" /\ q.old = p.old /\ q.new = p.new /\ q.seen = s
  <2>1. DOMAIN p = {"stage", "old", "seen", "new"} BY Zenon, <1>1 DEF Underway, IsRequest
  <2> QED BY Zenon, <2>1
<1> HIDE DEF q
<1>5. CASE pending' = [pending EXCEPT ![client] = None]
  BY Zenon, <1>1, <1>5, OthersLawful
<1>6. CASE /\ pending' = [pending EXCEPT ![client] = q]
           /\ p.old = None /\ ValidateCreate(p.new, client)
  <2>1. Lawful(q, client)
    BY Zenon, <1>1, <1>3, <1>4, <1>6 DEF Lawful, ValidateCreate, IsControllerOrAdminUser
  <2> QED BY Zenon, <1>1, <1>6, <2>1, OthersLawful
<1>7. CASE /\ pending' = [pending EXCEPT ![client] = q]
           /\ p.old # None /\ ValidateUpdate(p.old, p.new, client)
  <2>1. ASSUME ~p.new.deleting, client \notin Privileged PROVE Allowed(q, client)
    <3>1. /\ ValidateReservedPrefixOnUpdate(p.old, p.new)
          /\ ValidateOwnership(p.old, p.new, client)
          /\ ValidateVolumeOwnership(p.new) /\ ValidateUpdateWorkspace(p.old, p.new)
      BY Zenon, <1>7, <2>1 DEF ValidateUpdate, IsControllerOrAdminUser
    <3>2. ASSUME NeedsTemplateCheck(p.old, p.new) PROVE s # None
      <4>1. ValidateTemplate(p.new) /\ p.new.templateRef # None
        BY Zenon, <3>1, <3>2 DEF ValidateUpdateWorkspace, NeedsTemplateCheck
      <4> QED BY Zenon, <1>3, <1>7, <2>1, <3>2, <4>1, TemplateChecked
    <3> QED BY Zenon, <1>4, <3>1, <3>2 DEF Allowed
  <2>2. Lawful(q, client)
    BY Zenon, <1>3, <1>4, <1>7, <2>1 DEF Lawful
  <2> QED BY Zenon, <1>1, <1>7, <2>2, OthersLawful
<1> QED BY Zenon, <1>2, <1>5, <1>6, <1>7

\* Every step leaves lawful writes only.
LEMMA NextLawful == IInv /\ AllLawful /\ [Next]_vars => AllLawful'
<1> SUFFICES ASSUME IInv, AllLawful, [Next]_vars PROVE AllLawful' BY Zenon
<1>1. CASE UNCHANGED pending BY Zenon, <1>1 DEF AllLawful
<1>2. ASSUME NEW c \in Clients, NEW change \in Changes[c], Submit(c, change) PROVE AllLawful'
  <2> DEFINE w == Over(change, IF ws = None THEN Blank ELSE ws)
             q == [stage |-> "default", old |-> ws, seen |-> None, new |-> w]
  <2>1. pending' = [pending EXCEPT ![c] = q] BY Zenon, <1>2 DEF Submit
  <2>2. q.stage = "default" BY Zenon
  <2> HIDE DEF q
  <2>3. Lawful(q, c) BY Zenon, <2>2 DEF Lawful
  <2> QED BY Zenon, <2>1, <2>3, OthersLawful DEF IInv
<1>3. ASSUME NEW c \in Clients, Store(c) \/ WebhookFails(c) PROVE AllLawful'
  BY Zenon, <1>3, OthersLawful DEF Store, WebhookFails, Answer, IInv
<1>4. \/ UNCHANGED pending
      \/ \E c \in Clients : \/ \E change \in Changes[c] : Submit(c, change)
                            \/ Default(c) \/ Validate(c) \/ Store(c) \/ WebhookFails(c)
  BY Zenon DEF Next, vars, Delete, Finalize, ReadWorkspace, EnsurePVCExists, EditTemplate,
     RemoveTemplate, EditAccount
<1> QED BY Zenon, <1>1, <1>2, <1>3, <1>4, DefaultLawful, ValidateLawful

\* Every write that is to be stored may be made of the version it was made from.
THEOREM WritesAreLawful == Spec => []AllLawful
<1>1. Init => AllLawful BY Zenon DEF Init, AllLawful
<1> QED BY <1>1, Invariance, NextLawful, PTL DEF Spec

\* A step of the contract, or none.
ContractStep == [Contract!Next]_(Contract!contractVars)

\* The spec of a workspace is the same to the contract.
LEMMA SameSpecOf == \A w : Contract!SpecOf(w) = SpecOf(w)
BY Zenon DEF Contract!SpecOf, SpecOf, Metadata

\* A live workspace that is stored for the first time.
LEMMA CreateRefines ==
  ASSUME NoneApart, IInv, IInv', NEW c \in Clients, NEW p, Underway(p, c), Lawful(p, c),
         p.stage = "store", ~p.new.deleting, Anchored(p.new),
         p.old = None, ws = None, ws' = p.new, claim' = claim, copy' = copy,
         vetted' = IF p.new.templateRef = None THEN None
                   ELSE IF p.seen # None THEN p.seen ELSE vetted
  PROVE  Contract!Create(c)
<1>1. ws' # None BY Zenon, SomeWorkspace DEF Underway
<1>2. ws'.owner = c /\ ws'.updatedBy = c BY Zenon DEF Underway, Lawful
<1>3. Contract!Reachable(ws')
  BY Zenon DEF Anchored, InScope, RefNamespace, Contract!Reachable
<1>4. /\ Contract!OwnVolumes(ws')
      /\ c \in Users => Contract!Unreserved(ws')
  BY Zenon, AdmissionAssumption DEF Lawful, ValidateVolumeOwnership, ValidateReservedPrefix,
     Contract!OwnVolumes, Contract!Unreserved
<1>5. p.new.templateRef # None => p.seen # None BY Zenon DEF Underway, Vetted
<1>6. Contract!CheckedNow
  BY Zenon, <1>1, <1>5 DEF IInv, CheckedSpecKept, Contract!CheckedNow
<1>7. claim = 0 BY Zenon DEF IInv, Volume
<1> QED BY Zenon, <1>1, <1>2, <1>3, <1>4, <1>6, <1>7 DEF Contract!Create, Contract!Live

\* An update by a user.
LEMMA UserUpdateRefines ==
  ASSUME NoneApart, IInv, IInv', NEW c \in Users, NEW p, Underway(p, c), Lawful(p, c),
         p.stage = "store", ~p.new.deleting, Anchored(p.new),
         p.old # None, p.old = ws, ws' = p.new, claim' = claim, copy' = copy,
         vetted' = IF p.new.templateRef = None THEN None
                   ELSE IF p.seen # None THEN p.seen ELSE vetted
  PROVE  Contract!UserUpdate(c)
<1>1. Contract!Live(ws) /\ Contract!Live(ws')
  BY Zenon, SomeWorkspace DEF Underway, Contract!Live
<1>2. ws'.updatedBy = c BY Zenon DEF Underway
<1>3. Allowed(p, c) BY Zenon, AdmissionAssumption DEF Lawful
<1>4. (Contract!Open(ws) /\ Contract!Open(ws')) \/ ws.owner = c
  BY Zenon, <1>3 DEF Allowed, ValidateOwnership, ValidateOwnershipPermission, Contract!Open
<1>5. /\ ws.owner # None => ws'.owner = ws.owner
      /\ Contract!Unreserved(ws') /\ Contract!Unreserved(ws) /\ Contract!OwnVolumes(ws')
  BY Zenon, <1>3 DEF Allowed, ValidateReservedPrefixOnUpdate, ValidateReservedPrefix,
     ValidateVolumeOwnership, Contract!Unreserved, Contract!OwnVolumes
<1>6. Contract!Reachable(ws')
  BY Zenon DEF Anchored, InScope, RefNamespace, Contract!Reachable
<1>7. CASE p.new.templateRef = None \/ p.seen # None
  <2>1. Contract!CheckedNow
    BY Zenon, <1>1, <1>7 DEF IInv, CheckedSpecKept, Contract!CheckedNow, Contract!Live
  <2> QED BY Zenon, <1>1, <1>2, <1>4, <1>5, <1>6, <2>1 DEF Contract!UserUpdate
<1>8. CASE p.new.templateRef # None /\ p.seen = None
  <2>1. ~NeedsTemplateCheck(ws, ws') BY Zenon, <1>3, <1>8 DEF Allowed
  <2>2. SpecOf(ws') = SpecOf(ws) \/ SpecOf(ws') = SpecOf([ws EXCEPT !.desired = "Stopped"])
    BY Zenon, <1>8, <2>1 DEF NeedsTemplateCheck, OnlyDesiredStatusChanged
  <2>3. Contract!NothingToCheck
    BY Zenon, <1>8, <2>2, SameSpecOf DEF Contract!NothingToCheck
  <2> QED BY Zenon, <1>1, <1>2, <1>4, <1>5, <1>6, <2>3 DEF Contract!UserUpdate
<1> QED BY Zenon, <1>7, <1>8

\* An update by the controller or an admin.
LEMMA PrivilegedUpdateRefines ==
  ASSUME NoneApart, NEW c \in Privileged, NEW p, Underway(p, c), Lawful(p, c),
         p.stage = "store", ~p.new.deleting, Anchored(p.new),
         p.old # None, p.old = ws, ws' = p.new, claim' = claim, copy' = copy,
         vetted' = IF p.new.templateRef = None THEN None
                   ELSE IF p.seen # None THEN p.seen
                   ELSE IF SpecOf(p.old) # SpecOf(p.new) THEN None ELSE vetted
  PROVE  Contract!PrivilegedUpdate(c)
<1>1. Contract!Live(ws) /\ Contract!Live(ws') /\ ws'.updatedBy = c
  BY Zenon, SomeWorkspace DEF Underway, Contract!Live
<1>2. Contract!Reachable(ws')
  BY Zenon DEF Anchored, InScope, RefNamespace, Contract!Reachable
<1>3. p.seen = None BY Zenon DEF Lawful
<1>4. vetted' \in {None, vetted} /\ (SpecOf(ws') # SpecOf(ws) => vetted' = None)
  BY Zenon, <1>3
<1> QED BY Zenon, <1>1, <1>2, <1>4, SameSpecOf DEF Contract!PrivilegedUpdate

\* What is stored is a change that the contract knows.
LEMMA StoreRefines ==
  ASSUME NoneApart, IInv, IInv', AInv, AllLawful, NEW c \in Clients, Store(c)
  PROVE  ContractStep
<1> DEFINE p == pending[c]
<1>1. /\ Underway(p, c) /\ Lawful(p, c) /\ p.stage = "store"
      /\ ~p.new.deleting => Anchored(p.new)
  BY Zenon DEF Store, IInv, Shapes, AInv, Anchors, AllLawful
<1>2. CASE p.old # ws
  BY Zenon, <1>2 DEF Store, ContractStep, Contract!contractVars
<1>3. CASE p.old = ws
  <2>1. /\ ws' = p.new /\ claim' = claim /\ copy' = copy
        /\ vetted' = IF p.new.templateRef = None \/ p.new.deleting THEN None
                     ELSE IF p.seen # None THEN p.seen
                     ELSE IF c \in Privileged /\ SpecOf(p.old) # SpecOf(p.new)
                     THEN None ELSE vetted
    BY Zenon, <1>3 DEF Store, IsControllerOrAdminUser
  <2> HIDE DEF p
  <2>2. CASE p.new.deleting
    <3>1. p.old # None /\ p.old.deleting BY Zenon, <1>1, <2>2 DEF Underway
    <3>2. p.new # None BY Zenon, <1>1, SomeWorkspace DEF Underway
    <3>3. Contract!WriteDeleted BY Zenon, <1>3, <2>1, <2>2, <3>1, <3>2 DEF Contract!WriteDeleted
    <3> QED BY Zenon, <3>3 DEF ContractStep, Contract!Next
  <2>3. CASE ~p.new.deleting /\ p.old = None
    <3>1. p.new.templateRef # None => p.seen # None BY Zenon, <1>1, <2>3 DEF Underway, Vetted
    <3>2. Contract!Create(c) BY Zenon, <1>1, <1>3, <2>1, <2>3, <3>1, CreateRefines
    <3> QED BY Zenon, <3>2 DEF ContractStep, Contract!Next, Clients
  <2>4. CASE ~p.new.deleting /\ p.old # None /\ c \in Users
    <3>1. c \notin Privileged BY Zenon, <2>4, AdmissionAssumption
    <3>2. Contract!UserUpdate(c) BY Zenon, <1>1, <1>3, <2>1, <2>4, <3>1, UserUpdateRefines
    <3> QED BY Zenon, <2>4, <3>2 DEF ContractStep, Contract!Next
  <2>5. CASE ~p.new.deleting /\ p.old # None /\ c \in Privileged
    <3>1. Contract!PrivilegedUpdate(c) BY Zenon, <1>1, <1>3, <2>1, <2>5, PrivilegedUpdateRefines
    <3> QED BY Zenon, <2>5, <3>1 DEF ContractStep, Contract!Next
  <2> QED BY Zenon, <2>2, <2>3, <2>4, <2>5 DEF Clients
<1> QED BY Zenon, <1>2, <1>3

\* Every step is a step of the contract or leaves it alone.
LEMMA NextRefines ==
  ASSUME NoneApart, IInv, IInv', AInv, AllLawful, [Next]_vars
  PROVE  ContractStep
<1>1. CASE UNCHANGED <<ws, vetted, claim, copy>>
  BY Zenon, <1>1 DEF ContractStep, Contract!contractVars
<1>2. ASSUME NEW c \in Clients, Delete(c) PROVE ContractStep
  <2>1. /\ Contract!Live(ws) /\ ws' = [ws EXCEPT !.deleting = TRUE]
        /\ vetted' = None /\ claim' = claim /\ copy' = copy
    BY Zenon, <1>2 DEF Delete, Contract!Live
  <2>2. Contract!Delete BY Zenon, <2>1 DEF Contract!Delete
  <2> QED BY Zenon, <2>2 DEF ContractStep, Contract!Next
<1>3. CASE Finalize
  <2>1. Contract!Vanish BY Zenon, <1>3 DEF Finalize, Contract!Vanish
  <2> QED BY Zenon, <2>1 DEF ContractStep, Contract!Next
<1>4. CASE EnsurePVCExists
  <2>1. /\ copy # None /\ copy' = None /\ copy \in Size /\ claim \in Nat /\ ws # None
        /\ claim' = ResolveStorageSize(copy) /\ ResolveStorageSize(copy) > claim
        /\ UNCHANGED <<ws, vetted>>
    BY Zenon, <1>4 DEF EnsurePVCExists, IInv, Shapes, Volume
  <2>2. Contract!Grow BY Zenon, <2>1 DEF ResolveStorageSize, Contract!Grow
  <2> QED BY Zenon, <2>2 DEF ContractStep, Contract!Next
<1>5. CASE ReadWorkspace
  <2>1. Contract!Read BY Zenon, <1>5 DEF ReadWorkspace, Contract!Read, Contract!Live
  <2> QED BY Zenon, <2>1 DEF ContractStep, Contract!Next
<1>6. \/ UNCHANGED <<ws, vetted, claim, copy>> \/ Finalize \/ EnsurePVCExists \/ ReadWorkspace
      \/ \E c \in Clients : Store(c) \/ Delete(c)
  BY Zenon DEF Next, vars, Submit, Default, Validate, WebhookFails, EditTemplate,
     RemoveTemplate, EditAccount
<1> QED BY Zenon, <1>1, <1>2, <1>3, <1>4, <1>5, <1>6, StoreRefines

\* For any clients, templates, accounts and requests: admission in three steps, with writes of
\* others, deletions and edits of templates between them, implements the contract in which a
\* write is one step (Default, ValidateCreate, ValidateUpdate, workspace_webhook.go).
THEOREM AdmissionIsAtomic == ASSUME NoneApart PROVE Spec => AdmitsAtomically
<1>1. Init => Contract!Init BY Zenon DEF Init, Contract!Init
<1>2. IInv /\ IInv' /\ AInv /\ AllLawful /\ [Next]_vars
        => [Contract!Next]_(Contract!contractVars)
  BY Zenon, NextRefines DEF ContractStep
<1> QED BY <1>1, <1>2, Invariance, TypesAndAnchors, WritesAreLawful, PTL
        DEF Spec, AdmitsAtomically, Contract!Spec
=============================================================================

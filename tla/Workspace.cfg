SPECIFICATION Spec
CONSTANTS
    t1 = t1
    t2 = t2
    t3 = t3
    text = text
    fields = fields
    items = items
    NoText = NoText
    NoFields = NoFields
    NoItems = NoItems
    Absent = Absent
    Texts = {text, NoText}
    Objects = {fields, NoFields}
    Arrays = {items, NoItems}
    Tasks = {t1, t2, t3}
    NoTask = NoTask
    Plans <- MCPlans
    Records <- MCRecords
    CreateInputs <- MCCreateInputs
    UpdateInputs <- MCUpdateInputs
    Filters = {Absent, "pending"}
    Contexts = {c1}
    Agents = {a1, a2}
    Gone = Gone
    Tools = {w}
    Capabilities = {c}
    MaxChanges = 1
SYMMETRY Symmetry
INVARIANTS ResumeTrue ReadTrue WriteTruthful DirectoryHonest
CHECK_DEADLOCK FALSE

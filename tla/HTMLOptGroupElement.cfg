\* One select, two optgroups and an option.
CONSTANTS
    select = select
    group = group
    inner = inner
    option = option
    Nodes <- MCNodes
    Selects = {select}
    OptGroups = {group, inner}
    Options = {option}
    Labels <- MCLabels
    NoNode = NoNode

SPECIFICATION Spec

INVARIANTS
    TypeOK
    ShownIsCurrent
    StyleIsCurrent

CONSTANTS
    Objects = {o1, o2, o3}
    Handles = {h1, h2, h3, h4}
    CallsInUse = {"operator_new", "operator_lister", "lister_next", "operator_presign", "operator_read"}
SYMMETRY Symmetry
SPECIFICATION Spec
INVARIANTS
    Owned
    LayersInOrder
    TableIsWhole

-------------------------------- MODULE Sql --------------------------------
(***************************************************************************)
(* Statements with typed values, and what they mean on the rows of a table:*)
(* when one is valid under a schema, which rows WHERE keeps, what is shown.*)
(* A schema is the sequence of its columns, [name |-> ..., type |-> ...].  *)
(***************************************************************************)
EXTENDS CsvCodec

\* A statement.  No columns means *, no where means all.
BadSql == [kind |-> "bad", table |-> "", columns |-> <<>>, where |-> <<>>, values |-> <<>>]
InsertSql(t, values) == [BadSql EXCEPT !.kind = "insert", !.table = t, !.values = values]
SelectSql(t, columns, where) ==
    [BadSql EXCEPT !.kind = "select", !.table = t, !.columns = columns, !.where = where]

Types(schema) == [i \in DOMAIN schema |-> schema[i].type]
IsColumn(schema, name) == \E i \in DOMAIN schema : schema[i].name = name
ColumnIndex(schema, name) == Min({i \in DOMAIN schema : schema[i].name = name})

\* cast_value: a literal becomes a value of the column's type, or not.
Castable(literal, type) ==
    /\ literal.type = type
    /\ type = "int" => literal.int \in INT_MIN..INT_MAX
    /\ type = "text" => Len(literal.text) < MAX_VALUE_LENGTH

ValidInsertByCount(schema, sql) == Len(sql.values) = Len(schema)    \* a slip: no types
ValidInsert(schema, sql) ==
    /\ Len(sql.values) = Len(schema)
    /\ \A i \in DOMAIN schema : Castable(sql.values[i], schema[i].type)
    /\ Storable(Types(schema), sql.values)

ValidWhere(schema, where) ==
    where # <<>> =>
        /\ IsColumn(schema, where[1])
        /\ Castable(where[2], schema[ColumnIndex(schema, where[1])].type)

ValidSelect(schema, sql) ==
    /\ ValidWhere(schema, sql.where)
    /\ \A i \in DOMAIN sql.columns : IsColumn(schema, sql.columns[i])

Valid(schema, sql) == \/ sql.kind = "insert" /\ ValidInsert(schema, sql)
                      \/ sql.kind = "select" /\ ValidSelect(schema, sql)

\* SELECT over a sequence of rows.
Meets(schema, where, row) == row[ColumnIndex(schema, where[1])] = where[2]
Matching(schema, where, rows) ==
    IF where = <<>> THEN rows
    ELSE FoldLeft(LAMBDA kept, r : IF Meets(schema, where, r) THEN Append(kept, r) ELSE kept,
                  <<>>, rows)
Projection(schema, columns, rows) ==
    IF columns = <<>> THEN rows
    ELSE [k \in DOMAIN rows |->
            [i \in DOMAIN columns |-> rows[k][ColumnIndex(schema, columns[i])]]]
Header(schema, columns) ==
    IF columns = <<>> THEN [i \in DOMAIN schema |-> schema[i].name] ELSE columns

\* A column is as wide as its name and its values need.
Widths(header, rows) ==
    [i \in DOMAIN header |->
        Max({Len(header[i])} \cup {Len(FieldText(rows[k][i])) : k \in DOMAIN rows})]

Shown(header, rows, widths) == [header |-> header, rows |-> rows, widths |-> widths]
InsertShown == Shown(<<>>, <<>>, <<>>)     \* INSERT 1
SelectShown(schema, sql, rows) ==
    LET header == Header(schema, sql.columns)
        shown  == Projection(schema, sql.columns, Matching(schema, sql.where, rows))
    IN  Shown(header, shown, Widths(header, shown))

=============================================================================
